---------------------------- MODULE NodesProofs ----------------------------
(***************************************************************************)
(* Proofs about the cache of a sink and the node that fills and empties it *)
(* (SyncCache, CacheOp), for any size of the buffers, of the ring of pages *)
(* and of the sink's channel, any number of items, starts and stops, and a *)
(* crash within every write; and about the node that triggers each stretch *)
(* of time once (DedupTrigger), for any rows.                              *)
(***************************************************************************)
EXTENDS CacheOp, DedupTrigger, SequenceLemmas

-----------------------------------------------------------------------------
(* The ring of slots.                                                      *)

LEMMA SlotIs ==
    ASSUME NEW h \in Slots, NEW i \in 0..MaxDiskPage
    PROVE  /\ Slot(h, i) = IF h + i < MaxDiskPage THEN h + i ELSE h + i - MaxDiskPage
           /\ Slot(h, i) \in Slots
           /\ MaxDiskPage \in Nat \ {0, 1}
  <1>1. MaxDiskPage \in Nat \ {0, 1}
    BY CacheAssumption
  <1>2. h \in 0..(MaxDiskPage - 1) /\ i \in 0..MaxDiskPage
    BY DEF Slots
  <1>3. CASE h + i < MaxDiskPage
    BY <1>1, <1>2, <1>3 DEF Slot, Slots
  <1>4. CASE ~(h + i < MaxDiskPage)
    BY <1>1, <1>2, <1>4 DEF Slot, Slots
  <1> QED BY <1>1, <1>3, <1>4

\* The slots of one round differ, and the round comes back to its start.
LEMMA SlotFacts ==
    ASSUME NEW h \in Slots
    PROVE  /\ Slot(h, 0) = h /\ Slot(h, MaxDiskPage) = h
           /\ \A i \in 0..(MaxDiskPage - 1) : /\ Slot(Slot(h, 1), i) = Slot(h, i + 1)
                                              /\ Slot(Slot(h, i), 1) = Slot(h, i + 1)
                                              /\ Slot(Slot(h, MaxDiskPage - 1), i + 1) = Slot(h, i)
           /\ \A i, j \in 0..(MaxDiskPage - 1) : Slot(h, i) = Slot(h, j) => i = j
  <1>1. MaxDiskPage \in Nat \ {0, 1} /\ h \in 0..(MaxDiskPage - 1)
    BY CacheAssumption DEF Slots
  <1>2. Slot(h, 0) = h /\ Slot(h, MaxDiskPage) = h
    BY <1>1, SlotIs
  <1>3. ASSUME NEW i \in 0..(MaxDiskPage - 1)
        PROVE  /\ Slot(Slot(h, 1), i) = Slot(h, i + 1)
               /\ Slot(Slot(h, i), 1) = Slot(h, i + 1)
               /\ Slot(Slot(h, MaxDiskPage - 1), i + 1) = Slot(h, i)
    <2>1. i \in 0..MaxDiskPage /\ i + 1 \in 0..MaxDiskPage /\ 1 \in 0..MaxDiskPage
          /\ MaxDiskPage - 1 \in 0..MaxDiskPage
      BY <1>1
    <2>2. /\ Slot(h, 1) \in Slots /\ Slot(h, i) \in Slots /\ Slot(h, MaxDiskPage - 1) \in Slots
          /\ Slot(h, 1) = IF h + 1 < MaxDiskPage THEN h + 1 ELSE h + 1 - MaxDiskPage
          /\ Slot(h, i) = IF h + i < MaxDiskPage THEN h + i ELSE h + i - MaxDiskPage
          /\ Slot(h, i + 1) = IF h + (i + 1) < MaxDiskPage THEN h + (i + 1)
                              ELSE h + (i + 1) - MaxDiskPage
          /\ Slot(h, MaxDiskPage - 1)
                 = IF h + (MaxDiskPage - 1) < MaxDiskPage THEN h + (MaxDiskPage - 1)
                   ELSE h + (MaxDiskPage - 1) - MaxDiskPage
      BY <2>1, SlotIs
    <2> DEFINE a == Slot(h, 1)
               b == Slot(h, i)
               c == Slot(h, MaxDiskPage - 1)
    <2>3. /\ Slot(a, i) = IF a + i < MaxDiskPage THEN a + i ELSE a + i - MaxDiskPage
          /\ Slot(b, 1) = IF b + 1 < MaxDiskPage THEN b + 1 ELSE b + 1 - MaxDiskPage
          /\ Slot(c, i + 1) = IF c + (i + 1) < MaxDiskPage THEN c + (i + 1)
                              ELSE c + (i + 1) - MaxDiskPage
      BY <2>1, <2>2, SlotIs
    <2> HIDE DEF a, b, c
    <2>4. Slot(a, i) = Slot(h, i + 1)
      BY <1>1, <2>1, <2>2, <2>3 DEF a
    <2>5. Slot(b, 1) = Slot(h, i + 1)
      BY <1>1, <2>1, <2>2, <2>3 DEF b
    <2>6. Slot(c, i + 1) = Slot(h, i)
      BY <1>1, <2>1, <2>2, <2>3 DEF c
    <2> QED BY <2>4, <2>5, <2>6 DEF a, b, c
  <1>4. ASSUME NEW i \in 0..(MaxDiskPage - 1), NEW j \in 0..(MaxDiskPage - 1),
               Slot(h, i) = Slot(h, j)
        PROVE  i = j
    <2>1. i \in 0..MaxDiskPage /\ j \in 0..MaxDiskPage
      BY <1>1
    <2>2. /\ Slot(h, i) = IF h + i < MaxDiskPage THEN h + i ELSE h + i - MaxDiskPage
          /\ Slot(h, j) = IF h + j < MaxDiskPage THEN h + j ELSE h + j - MaxDiskPage
      BY <2>1, SlotIs
    <2>3. h \in Nat /\ i \in Nat /\ j \in Nat /\ h < MaxDiskPage /\ i < MaxDiskPage /\ j < MaxDiskPage
      BY <1>1
    <2>4. CASE h + i < MaxDiskPage /\ h + j < MaxDiskPage
      <3>1. h + i = h + j
        BY <1>4, <2>2, <2>4
      <3> QED BY <2>3, <3>1
    <2>5. CASE ~(h + i < MaxDiskPage) /\ ~(h + j < MaxDiskPage)
      <3>1. h + i - MaxDiskPage = h + j - MaxDiskPage
        BY <1>4, <2>2, <2>5
      <3> QED BY <1>1, <2>3, <3>1
    <2>6. CASE h + i < MaxDiskPage /\ ~(h + j < MaxDiskPage)
      <3>1. h + i = h + j - MaxDiskPage
        BY <1>4, <2>2, <2>6
      <3> QED BY <1>1, <2>3, <3>1
    <2>7. CASE ~(h + i < MaxDiskPage) /\ h + j < MaxDiskPage
      <3>1. h + i - MaxDiskPage = h + j
        BY <1>4, <2>2, <2>7
      <3> QED BY <1>1, <2>3, <3>1
    <2> QED BY <2>4, <2>5, <2>6, <2>7
  <1> QED BY <1>2, <1>3, <1>4

-----------------------------------------------------------------------------
(* The store and its pages.                                                *)

Page == {p \in Seq(Items) : p # << >> /\ Len(p) <= BufferPageSize}
PageMap == UNION {[D -> Page] : D \in SUBSET Slots}

Stores == [page : PageMap, size : 0..MaxDiskPage, head : Slots, cacheLength : Int]

LEMMA PageMapIs ==
    ASSUME NEW m
    PROVE  m \in PageMap <=> m \in [DOMAIN m -> Page] /\ DOMAIN m \in SUBSET Slots
  BY DEF PageMap

Pages(k, h, n) == [i \in 1..n |-> PageAt(k, Slot(h, i - 1))]

LEMMA PageAtType ==
    ASSUME NEW k, k.page \in PageMap, NEW s
    PROVE  PageAt(k, s) \in Seq(Items)
  <1>1. k.page \in [DOMAIN k.page -> Page]
    BY PageMapIs
  <1> QED BY <1>1 DEF PageAt, Page

LEMMA PagesType ==
    ASSUME NEW k, k.page \in PageMap, NEW h, NEW n \in Nat
    PROVE  /\ Pages(k, h, n) \in Seq(Seq(Items)) /\ Len(Pages(k, h, n)) = n
           /\ \A i \in 1..n : Pages(k, h, n)[i] = PageAt(k, Slot(h, i - 1))
           /\ OnDisk(k, h, n) = FlattenSeq(Pages(k, h, n))
           /\ OnDisk(k, h, n) \in Seq(Items)
  <1>1. \A i \in 1..n : PageAt(k, Slot(h, i - 1)) \in Seq(Items)
    BY PageAtType
  <1>2. /\ Pages(k, h, n) \in Seq(Seq(Items)) /\ Len(Pages(k, h, n)) = n
        /\ \A i \in 1..n : Pages(k, h, n)[i] = PageAt(k, Slot(h, i - 1))
    <2> DEFINE e(i) == PageAt(k, Slot(h, i - 1))
    <2>1. \A i \in 1..n : e(i) \in Seq(Items)
      BY <1>1
    <2> HIDE DEF e
    <2>2. /\ [i \in 1..n |-> e(i)] \in Seq(Seq(Items)) /\ Len([i \in 1..n |-> e(i)]) = n
          /\ \A i \in 1..n : [j \in 1..n |-> e(j)][i] = e(i)
      BY <2>1
    <2> QED BY <2>2 DEF Pages, e
  <1>3. OnDisk(k, h, n) = FlattenSeq(Pages(k, h, n))
    BY DEF OnDisk, Pages
  <1> QED BY <1>2, <1>3, FlattenType

LEMMA OnDiskSame ==
    ASSUME NEW k, NEW l, NEW h, NEW g, NEW n \in Nat,
           \A i \in 0..(n - 1) : PageAt(k, Slot(h, i)) = PageAt(l, Slot(g, i))
    PROVE  OnDisk(k, h, n) = OnDisk(l, g, n)
  <1>1. \A i \in 1..n : PageAt(k, Slot(h, i - 1)) = PageAt(l, Slot(g, i - 1))
    <2> TAKE i \in 1..n
    <2>1. i - 1 \in 0..(n - 1)
      OBVIOUS
    <2> QED BY <2>1
  <1>2. [i \in 1..n |-> PageAt(k, Slot(h, i - 1))] = [i \in 1..n |-> PageAt(l, Slot(g, i - 1))]
    BY <1>1
  <1> QED BY <1>2 DEF OnDisk

\* One slot more at the end of the ring.
LEMMA OnDiskGrows ==
    ASSUME NEW k, k.page \in PageMap, NEW h, NEW n \in Nat
    PROVE  OnDisk(k, h, n + 1) = OnDisk(k, h, n) \o PageAt(k, Slot(h, n))
  <1> DEFINE a == Pages(k, h, n)
             b == Pages(k, h, n + 1)
             p == PageAt(k, Slot(h, n))
             c == Append(a, p)
  <1>1. /\ a \in Seq(Seq(Items)) /\ Len(a) = n /\ \A i \in 1..n : a[i] = PageAt(k, Slot(h, i - 1))
        /\ OnDisk(k, h, n) = FlattenSeq(a)
    BY PagesType
  <1>2. /\ b \in Seq(Seq(Items)) /\ Len(b) = n + 1
        /\ \A i \in 1..(n + 1) : b[i] = PageAt(k, Slot(h, i - 1))
        /\ OnDisk(k, h, n + 1) = FlattenSeq(b)
    BY PagesType
  <1>3. p \in Seq(Items)
    BY PageAtType
  <1> HIDE DEF a, b
  <1>4. \A i \in 1..(n + 1) : i \in 1..n \/ (i = n + 1 /\ i - 1 = n)
    OBVIOUS
  <1>5. /\ c \in Seq(Seq(Items)) /\ Len(c) = n + 1 /\ \A i \in 1..n : c[i] = a[i]
        /\ c[n + 1] = p
    BY <1>1, <1>3, AppendProperties
  <1> HIDE DEF c
  <1>6. \A i \in 1..(n + 1) : b[i] = c[i]
    <2> TAKE i \in 1..(n + 1)
    <2>1. CASE i \in 1..n
      BY <1>1, <1>2, <1>5, <2>1
    <2>2. CASE i = n + 1 /\ i - 1 = n
      BY <1>2, <1>5, <2>2
    <2> QED BY <1>4, <2>1, <2>2
  <1>7. b = c
    BY <1>2, <1>5, <1>6, SeqEqual
  <1>8. FlattenSeq(c) = FlattenSeq(a) \o p
    BY <1>1, <1>3, FlattenAppend DEF c
  <1> QED BY <1>1, <1>2, <1>7, <1>8

\* The slot at the head stands before those behind it.
LEMMA OnDiskFirst ==
    ASSUME NEW k, k.page \in PageMap, NEW h \in Slots, NEW n \in 1..MaxDiskPage
    PROVE  OnDisk(k, h, n) = PageAt(k, h) \o OnDisk(k, Slot(h, 1), n - 1)
  <1> DEFINE a == Pages(k, Slot(h, 1), n - 1)
             b == Pages(k, h, n)
             p == PageAt(k, h)
             c == <<p>> \o a
  <1>0. n \in Nat /\ n - 1 \in Nat /\ MaxDiskPage \in Nat \ {0, 1}
    BY CacheAssumption
  <1>1. /\ a \in Seq(Seq(Items)) /\ Len(a) = n - 1
        /\ \A i \in 1..(n - 1) : a[i] = PageAt(k, Slot(Slot(h, 1), i - 1))
        /\ OnDisk(k, Slot(h, 1), n - 1) = FlattenSeq(a)
    BY <1>0, PagesType
  <1>2. /\ b \in Seq(Seq(Items)) /\ Len(b) = n
        /\ \A i \in 1..n : b[i] = PageAt(k, Slot(h, i - 1))
        /\ OnDisk(k, h, n) = FlattenSeq(b)
    BY <1>0, PagesType
  <1>3. p \in Seq(Items)
    BY PageAtType
  <1> HIDE DEF a, b
  <1>5. /\ c \in Seq(Seq(Items)) /\ Len(c) = n /\ c[1] = p
        /\ \A i \in 2..n : c[i] = a[i - 1]
    <2>1. <<p>> \in Seq(Seq(Items)) /\ Len(<<p>>) = 1 /\ <<p>>[1] = p
      BY <1>3
    <2>2. /\ c \in Seq(Seq(Items)) /\ Len(c) = 1 + (n - 1)
          /\ \A i \in 1..(1 + (n - 1)) : c[i] = IF i <= 1 THEN <<p>>[i] ELSE a[i - 1]
      <3> HIDE DEF p
      <3> DEFINE q == <<p>>
      <3> HIDE DEF q
      <3>1. /\ q \o a \in Seq(Seq(Items)) /\ Len(q \o a) = Len(q) + Len(a)
            /\ \A i \in 1..(Len(q) + Len(a)) : (q \o a)[i] = IF i <= Len(q) THEN q[i] ELSE a[i - Len(q)]
        BY <1>1, <2>1, ConcatProperties DEF q
      <3>2. Len(q) = 1 /\ Len(a) = n - 1
        BY <1>1, <2>1 DEF q
      <3> QED BY <3>1, <3>2 DEF q
    <2> QED BY <1>0, <2>1, <2>2
  <1> HIDE DEF c
  <1>6. \A i \in 1..n : b[i] = c[i]
    <2> TAKE i \in 1..n
    <2>1. CASE i = 1
      <3>1. Slot(h, i - 1) = h
        BY <2>1, SlotFacts
      <3> QED BY <1>2, <1>5, <2>1, <3>1
    <2>2. CASE i # 1
      <3>1. i \in 2..n /\ i - 1 \in 1..(n - 1) /\ (i - 1) - 1 \in 0..(MaxDiskPage - 1)
            /\ ((i - 1) - 1) + 1 = i - 1
        BY <1>0, <2>2
      <3>2. Slot(Slot(h, 1), (i - 1) - 1) = Slot(h, i - 1)
        BY <3>1, SlotFacts
      <3>3. c[i] = a[i - 1] /\ a[i - 1] = PageAt(k, Slot(h, i - 1))
        BY <1>1, <1>5, <3>1, <3>2
      <3> QED BY <1>2, <3>3
    <2> QED BY <2>1, <2>2
  <1>7. b = c
    BY <1>0, <1>2, <1>5, <1>6, SeqEqual
  <1>8. FlattenSeq(c) = p \o FlattenSeq(a)
    BY <1>1, <1>3, FlattenHead DEF c
  <1> QED BY <1>1, <1>2, <1>7, <1>8

-----------------------------------------------------------------------------
(* Sequences without repetition.                                           *)

LEMMA AppendElement ==
    ASSUME NEW S, NEW s \in Seq(S), NEW x \in S
    PROVE  /\ Range(Append(s, x)) = Range(s) \cup {x}
           /\ IsInjective(s) /\ x \notin Range(s) => IsInjective(Append(s, x))
  <1> DEFINE t == Append(s, x)
             n == Len(s)
  <1>1. /\ n \in Nat /\ DOMAIN s = 1..n /\ DOMAIN t = 1..(n + 1)
        /\ \A i \in 1..n : t[i] = s[i]
        /\ t[n + 1] = x
    OBVIOUS
  <1> HIDE DEF t, n
  <1>2. \A i \in 1..(n + 1) : i \in 1..n \/ i = n + 1
    BY <1>1
  <1>3. Range(t) = Range(s) \cup {x}
    <2>1. \A y \in Range(t) : y \in Range(s) \cup {x}
      BY <1>1, <1>2 DEF Range
    <2>2. \A i \in DOMAIN s : s[i] \in Range(t)
      <3> TAKE i \in DOMAIN s
      <3>1. i \in DOMAIN t /\ t[i] = s[i]
        BY <1>1
      <3> QED BY <3>1 DEF Range
    <2>3. x \in Range(t)
      <3>1. n + 1 \in DOMAIN t
        BY <1>1
      <3> QED BY <1>1, <3>1 DEF Range
    <2> QED BY <2>1, <2>2, <2>3 DEF Range
  <1>4. ASSUME IsInjective(s), x \notin Range(s) PROVE IsInjective(t)
    <2> SUFFICES ASSUME NEW i \in DOMAIN t, NEW j \in DOMAIN t, t[i] = t[j] PROVE i = j
      BY DEF IsInjective
    <2>1. \A k \in 1..n : t[k] # x
      BY <1>1, <1>4 DEF Range
    <2>2. CASE i \in 1..n /\ j \in 1..n
      BY <1>1, <1>4, <2>2 DEF IsInjective
    <2>3. CASE i = n + 1 \/ j = n + 1
      BY <1>1, <1>2, <2>1, <2>3
    <2> QED BY <1>1, <1>2, <2>2, <2>3
  <1> QED BY <1>3, <1>4 DEF t

LEMMA TailElements ==
    ASSUME NEW S, NEW s \in Seq(S), s # << >>
    PROVE  /\ Range(s) = {Head(s)} \cup Range(Tail(s)) /\ Head(s) \in S /\ Tail(s) \in Seq(S)
           /\ IsInjective(s) => IsInjective(Tail(s)) /\ Head(s) \notin Range(Tail(s))
           /\ s = <<Head(s)>> \o Tail(s) /\ Len(Tail(s)) = Len(s) - 1
  <1> DEFINE t == Tail(s)
             n == Len(s)
  <1>1. /\ n \in Nat \ {0} /\ DOMAIN s = 1..n /\ DOMAIN t = 1..(n - 1)
        /\ \A i \in 1..(n - 1) : t[i] = s[i + 1]
        /\ Head(s) = s[1] /\ Head(s) \in S /\ t \in Seq(S) /\ Len(t) = n - 1
    OBVIOUS
  <1>5. s = <<Head(s)>> \o Tail(s)
    OBVIOUS
  <1> HIDE DEF t, n
  <1>2. \A i \in 1..n : i = 1 \/ (i - 1 \in 1..(n - 1) /\ s[i] = t[i - 1])
    BY <1>1
  <1>3. Range(s) = {Head(s)} \cup Range(t)
    <2>1. \A i \in DOMAIN s : s[i] \in {Head(s)} \cup Range(t)
      <3> TAKE i \in DOMAIN s
      <3>1. CASE i = 1
        BY <1>1, <3>1
      <3>2. CASE i - 1 \in DOMAIN t /\ s[i] = t[i - 1]
        BY <3>2 DEF Range
      <3> QED BY <1>1, <1>2, <3>1, <3>2
    <2>2. \A i \in DOMAIN t : t[i] \in Range(s)
      <3> TAKE i \in DOMAIN t
      <3>1. i + 1 \in DOMAIN s /\ t[i] = s[i + 1]
        BY <1>1
      <3> QED BY <3>1 DEF Range
    <2>3. Head(s) \in Range(s)
      <3>1. 1 \in DOMAIN s
        BY <1>1
      <3> QED BY <1>1, <3>1 DEF Range
    <2> QED BY <2>1, <2>2, <2>3 DEF Range
  <1>4. ASSUME IsInjective(s) PROVE IsInjective(t) /\ Head(s) \notin Range(t)
    <2>1. \A i \in DOMAIN t : i + 1 \in DOMAIN s /\ t[i] = s[i + 1] /\ i + 1 # 1 /\ i \in Nat
      BY <1>1
    <2>2. 1 \in DOMAIN s /\ Head(s) = s[1]
      BY <1>1
    <2>3. Head(s) \notin Range(t)
      BY <1>4, <2>1, <2>2 DEF IsInjective, Range
    <2>4. ASSUME NEW i \in DOMAIN t, NEW j \in DOMAIN t, t[i] = t[j] PROVE i = j
      <3>1. i + 1 = j + 1
        BY <1>4, <2>1, <2>4 DEF IsInjective
      <3> QED BY <2>1, <3>1
    <2> QED BY <2>3, <2>4 DEF IsInjective
  <1> QED BY <1>1, <1>3, <1>4, <1>5 DEF t, n

-----------------------------------------------------------------------------
(* Pages that have nothing in common.                                      *)

PagesApart(m) ==
    /\ \A s \in DOMAIN m : IsInjective(m[s])
    /\ \A s, t \in DOMAIN m : s # t => Range(m[s]) \cap Range(m[t]) = {}
Within(m) == UNION {Range(m[s]) : s \in DOMAIN m}

Put(m, slot, p) == [s \in DOMAIN m \cup {slot} |-> IF s = slot THEN p ELSE m[s]]
Drop(m, slot) == Restrict(m, DOMAIN m \ {slot})

LEMMA DropIs ==
    ASSUME NEW m \in PageMap, NEW slot
    PROVE  /\ Drop(m, slot) \in PageMap /\ DOMAIN Drop(m, slot) = DOMAIN m \ {slot}
           /\ \A s \in DOMAIN m \ {slot} : Drop(m, slot)[s] = m[s]
           /\ Within(Drop(m, slot)) \subseteq Within(m)
           /\ PagesApart(m) => /\ PagesApart(Drop(m, slot))
                               /\ slot \in DOMAIN m => Range(m[slot]) \cap Within(Drop(m, slot)) = {}
  <1> DEFINE d == Drop(m, slot)
  <1>1. /\ DOMAIN d = DOMAIN m \ {slot} /\ \A s \in DOMAIN d : d[s] = m[s] /\ s \in DOMAIN m /\ s # slot
        /\ d = [s \in DOMAIN m \ {slot} |-> m[s]]
    BY DEF Drop, Restrict
  <1>2. m \in [DOMAIN m -> Page] /\ DOMAIN m \in SUBSET Slots
    BY PageMapIs
  <1>3. d \in PageMap
    <2>1. d \in [DOMAIN d -> Page] /\ DOMAIN d \in SUBSET Slots
      BY <1>1, <1>2
    <2> QED BY <2>1, PageMapIs
  <1> HIDE DEF d
  <1>4. Within(d) \subseteq Within(m)
    BY <1>1 DEF Within
  <1>5. ASSUME PagesApart(m)
        PROVE  PagesApart(d) /\ (slot \in DOMAIN m => Range(m[slot]) \cap Within(d) = {})
    <2>1. PagesApart(d)
      BY <1>1, <1>5 DEF PagesApart
    <2>2. \A s \in DOMAIN d : slot \in DOMAIN m => Range(m[slot]) \cap Range(d[s]) = {}
      BY <1>1, <1>5 DEF PagesApart
    <2> QED BY <2>1, <2>2 DEF Within
  <1> QED BY <1>1, <1>3, <1>4, <1>5 DEF d

LEMMA PutIs ==
    ASSUME NEW m \in PageMap, NEW slot \in Slots, NEW p \in Page
    PROVE  /\ Put(m, slot, p) \in PageMap /\ DOMAIN Put(m, slot, p) = DOMAIN m \cup {slot}
           /\ \A s \in DOMAIN m \ {slot} : Put(m, slot, p)[s] = m[s]
           /\ Put(m, slot, p)[slot] = p
           /\ Within(Put(m, slot, p)) \subseteq Within(m) \cup Range(p)
           /\ PagesApart(m) /\ IsInjective(p) /\ Range(p) \cap Within(m) = {}
                  => PagesApart(Put(m, slot, p))
  <1> DEFINE d == Put(m, slot, p)
  <1>1. /\ DOMAIN d = DOMAIN m \cup {slot} /\ \A s \in DOMAIN m \ {slot} : d[s] = m[s]
        /\ d[slot] = p
        /\ d = [s \in DOMAIN m \cup {slot} |-> IF s = slot THEN p ELSE m[s]]
    BY DEF Put
  <1>2. m \in [DOMAIN m -> Page] /\ DOMAIN m \in SUBSET Slots
    BY PageMapIs
  <1>3. d \in PageMap
    <2>1. d \in [DOMAIN d -> Page] /\ DOMAIN d \in SUBSET Slots
      BY <1>1, <1>2
    <2> QED BY <2>1, PageMapIs
  <1> HIDE DEF d
  <1>4. Within(d) \subseteq Within(m) \cup Range(p)
    <2>1. \A s \in DOMAIN d : Range(d[s]) \subseteq Within(m) \cup Range(p)
      <3> TAKE s \in DOMAIN d
      <3>1. CASE s = slot
        BY <1>1, <3>1
      <3>2. CASE s # slot
        BY <1>1, <3>2 DEF Within
      <3> QED BY <3>1, <3>2
    <2> QED BY <2>1 DEF Within
  <1>5. ASSUME PagesApart(m), IsInjective(p), Range(p) \cap Within(m) = {} PROVE PagesApart(d)
    <2>1. \A s \in DOMAIN m : Range(p) \cap Range(m[s]) = {}
      BY <1>5 DEF Within
    <2>2. \A s \in DOMAIN d : IsInjective(d[s])
      BY <1>1, <1>5 DEF PagesApart
    <2>3. ASSUME NEW s \in DOMAIN d, NEW t \in DOMAIN d, s # t
          PROVE  Range(d[s]) \cap Range(d[t]) = {}
      <3>1. CASE s = slot
        <4>1. t \in DOMAIN m \ {slot} /\ d[t] = m[t] /\ d[s] = p
          BY <1>1, <2>3, <3>1
        <4> QED BY <2>1, <4>1
      <3>2. CASE t = slot
        <4>1. s \in DOMAIN m \ {slot} /\ d[s] = m[s] /\ d[t] = p
          BY <1>1, <2>3, <3>2
        <4> QED BY <2>1, <4>1
      <3>3. CASE s # slot /\ t # slot
        <4>1. s \in DOMAIN m /\ t \in DOMAIN m /\ d[s] = m[s] /\ d[t] = m[t]
          BY <1>1, <3>3
        <4> QED BY <1>5, <2>3, <4>1 DEF PagesApart
      <3> QED BY <3>1, <3>2, <3>3
    <2> QED BY <2>2, <2>3 DEF PagesApart
  <1> QED BY <1>1, <1>3, <1>4, <1>5 DEF d

\* What a round of the ring holds, it holds once.
LEMMA OnDiskApart ==
    ASSUME NEW k, k.page \in PageMap, PagesApart(k.page), NEW h \in Slots,
           NEW n \in 0..MaxDiskPage
    PROVE  IsInjective(OnDisk(k, h, n)) /\ Range(OnDisk(k, h, n)) \subseteq Within(k.page)
  <1> DEFINE a == Pages(k, h, n)
  <1>0. n \in Nat /\ MaxDiskPage \in Nat \ {0, 1}
    BY CacheAssumption
  <1>1. /\ a \in Seq(Seq(Items)) /\ Len(a) = n
        /\ \A i \in 1..n : a[i] = PageAt(k, Slot(h, i - 1))
        /\ OnDisk(k, h, n) = FlattenSeq(a)
    BY <1>0, PagesType
  <1> HIDE DEF a
  <1>2. /\ IsInjective(<< >>) /\ Range(<< >>) = {}
    BY DEF IsInjective, Range
  <1>3. \A i \in 1..n : IsInjective(a[i]) /\ Range(a[i]) \subseteq Within(k.page)
    <2> TAKE i \in 1..n
    <2> DEFINE s == Slot(h, i - 1)
    <2>1. CASE s \in DOMAIN k.page
      <3>1. a[i] = k.page[s]
        BY <1>1, <2>1 DEF PageAt
      <3> QED BY <2>1, <3>1 DEF PagesApart, Within
    <2>2. CASE s \notin DOMAIN k.page
      <3>1. a[i] = << >>
        BY <1>1, <2>2 DEF PageAt
      <3> QED BY <1>2, <3>1
    <2> QED BY <2>1, <2>2
  <1>4. ASSUME NEW i \in 1..n, NEW j \in 1..n, i # j PROVE Range(a[i]) \cap Range(a[j]) = {}
    <2> DEFINE s == Slot(h, i - 1)
               t == Slot(h, j - 1)
    <2>1. i - 1 \in 0..(MaxDiskPage - 1) /\ j - 1 \in 0..(MaxDiskPage - 1) /\ i - 1 # j - 1
      BY <1>0, <1>4
    <2>2. s # t
      BY <2>1, SlotFacts
    <2> HIDE DEF s, t
    <2>3. /\ a[i] = IF s \in DOMAIN k.page THEN k.page[s] ELSE << >>
          /\ a[j] = IF t \in DOMAIN k.page THEN k.page[t] ELSE << >>
      BY <1>1 DEF PageAt, s, t
    <2>4. CASE s \in DOMAIN k.page /\ t \in DOMAIN k.page
      BY <2>2, <2>3, <2>4 DEF PagesApart
    <2>5. CASE ~(s \in DOMAIN k.page /\ t \in DOMAIN k.page)
      BY <1>2, <2>3, <2>5
    <2> QED BY <2>4, <2>5
  <1>5. IsInjective(FlattenSeq(a))
    BY <1>1, <1>3, <1>4, FlattenInjective
  <1>6. Range(FlattenSeq(a)) = UNION {Range(a[i]) : i \in 1..n}
    BY <1>1, FlattenRange
  <1> QED BY <1>1, <1>3, <1>5, <1>6

-----------------------------------------------------------------------------
(* The stores that the writes of a call go through.                        *)

LEMMA WithPage ==
    ASSUME NEW k \in Stores, NEW v \in PageMap
    PROVE  /\ [k EXCEPT !.page = v] \in Stores
           /\ [k EXCEPT !.page = v].page = v
           /\ [k EXCEPT !.page = v].size = k.size
           /\ [k EXCEPT !.page = v].head = k.head
           /\ [k EXCEPT !.page = v].cacheLength = k.cacheLength
  BY DEF Stores

LEMMA WithSize ==
    ASSUME NEW k \in Stores, NEW v \in 0..MaxDiskPage
    PROVE  /\ [k EXCEPT !.size = v] \in Stores
           /\ [k EXCEPT !.size = v].page = k.page
           /\ [k EXCEPT !.size = v].size = v
           /\ [k EXCEPT !.size = v].head = k.head
           /\ [k EXCEPT !.size = v].cacheLength = k.cacheLength
  BY DEF Stores

LEMMA WithHead ==
    ASSUME NEW k \in Stores, NEW v \in Slots
    PROVE  /\ [k EXCEPT !.head = v] \in Stores
           /\ [k EXCEPT !.head = v].page = k.page
           /\ [k EXCEPT !.head = v].size = k.size
           /\ [k EXCEPT !.head = v].head = v
           /\ [k EXCEPT !.head = v].cacheLength = k.cacheLength
  BY DEF Stores

LEMMA WithCount ==
    ASSUME NEW k \in Stores, NEW v \in Int
    PROVE  /\ [k EXCEPT !.cacheLength = v] \in Stores
           /\ [k EXCEPT !.cacheLength = v].page = k.page
           /\ [k EXCEPT !.cacheLength = v].size = k.size
           /\ [k EXCEPT !.cacheLength = v].head = k.head
           /\ [k EXCEPT !.cacheLength = v].cacheLength = v
  BY DEF Stores

LEMMA StoreFields ==
    ASSUME NEW k \in Stores
    PROVE  k.page \in PageMap /\ k.size \in 0..MaxDiskPage /\ k.head \in Slots /\ k.cacheLength \in Int
  BY DEF Stores

LEMMA DeleteIs ==
    ASSUME NEW k \in Stores, NEW head \in Slots, NEW size \in 1..MaxDiskPage
    PROVE  /\ DeleteStores(k, head, size) \in Seq(Stores) /\ Len(DeleteStores(k, head, size)) = 3
           /\ \A i \in 1..3 : DeleteStores(k, head, size)[i].page = Drop(k.page, head)
           /\ DeleteStores(k, head, size)[3].size = size - 1
           /\ DeleteStores(k, head, size)[3].head = Slot(head, 1)
           /\ DeleteStores(k, head, size)[3].cacheLength = k.cacheLength
  <1> DEFINE m == Drop(k.page, head)
             without == [k EXCEPT !.page = m]
             counted == [without EXCEPT !.size = size - 1]
             moved == [counted EXCEPT !.head = Slot(head, 1)]
             d == DeleteStores(k, head, size)
  <1>0. MaxDiskPage \in Nat \ {0, 1} /\ size - 1 \in 0..MaxDiskPage /\ 1 \in 0..MaxDiskPage
    BY CacheAssumption
  <1>1. m \in PageMap /\ Slot(head, 1) \in Slots
    BY <1>0, StoreFields, DropIs, SlotIs
  <1>2. d = <<without, counted, moved>>
    BY DEF DeleteStores, Drop
  <1> HIDE DEF m, d
  <1>3. /\ without \in Stores /\ without.page = m /\ without.cacheLength = k.cacheLength
    BY <1>1, WithPage
  <1> HIDE DEF without
  <1>4. /\ counted \in Stores /\ counted.page = m /\ counted.size = size - 1
        /\ counted.cacheLength = k.cacheLength
    BY <1>0, <1>3, WithSize
  <1> HIDE DEF counted
  <1>5. /\ moved \in Stores /\ moved.page = m /\ moved.size = size - 1 /\ moved.head = Slot(head, 1)
        /\ moved.cacheLength = k.cacheLength
    BY <1>1, <1>4, WithHead
  <1> HIDE DEF moved
  <1>6. d \in Seq(Stores) /\ Len(d) = 3 /\ d[1] = without /\ d[2] = counted /\ d[3] = moved
    BY <1>2, <1>3, <1>4, <1>5
  <1>7. \A i \in 1..3 : i = 1 \/ i = 2 \/ i = 3
    OBVIOUS
  <1> QED BY <1>3, <1>4, <1>5, <1>6, <1>7 DEF d, m

\* The page that is written last, and where the ring begins then.
AppendBase(k, head, size) ==
    IF size = MaxDiskPage THEN Drop(k.page, head) ELSE k.page

LEMMA AppendIs ==
    ASSUME NEW k \in Stores, NEW head \in Slots, NEW size \in 0..MaxDiskPage,
           diskPageTail \in Slots, writeBuffer \in Page
    PROVE  LET a == AppendStores(k, head, size) IN
           /\ a \in Seq(Stores) /\ a # << >>
           /\ \A i \in 1..Len(a) : a[i].page \in {Drop(k.page, head),
                      Put(k.page, diskPageTail, writeBuffer),
                      Put(Drop(k.page, head), diskPageTail, writeBuffer)}
           /\ Last(a) \in Stores
           /\ Last(a).page = Put(AppendBase(k, head, size), diskPageTail, writeBuffer)
           /\ Last(a).size = IF size = MaxDiskPage THEN size ELSE size + 1
           /\ Last(a).head = IF size = MaxDiskPage THEN Slot(head, 1) ELSE k.head
           /\ Last(a).cacheLength = k.cacheLength
  <1> DEFINE full == size = MaxDiskPage
             room == IF full THEN DeleteStores(k, head, size) ELSE << >>
             last == IF full THEN room[3] ELSE k
             left == IF full THEN size - 1 ELSE size
             m == Put(last.page, diskPageTail, writeBuffer)
             with == [last EXCEPT !.page = m]
             counted == [with EXCEPT !.size = left + 1]
             two == <<with, counted>>
             a == AppendStores(k, head, size)
  <1>0. MaxDiskPage \in Nat \ {0, 1} /\ left + 1 \in 0..MaxDiskPage
        /\ left + 1 = IF full THEN size ELSE size + 1
    BY CacheAssumption
  <1>1. a = room \o two
    BY DEF AppendStores, Put
  <1>2. /\ room \in Seq(Stores) /\ \A i \in 1..Len(room) : room[i].page = Drop(k.page, head)
        /\ last \in Stores
        /\ last.page = AppendBase(k, head, size)
        /\ last.head = IF full THEN Slot(head, 1) ELSE k.head
        /\ last.cacheLength = k.cacheLength
    <2>1. CASE full
      <3>1. size \in 1..MaxDiskPage
        BY <1>0, <2>1
      <3>2. /\ room \in Seq(Stores) /\ Len(room) = 3
            /\ \A i \in 1..3 : room[i].page = Drop(k.page, head)
            /\ room[3].head = Slot(head, 1) /\ room[3].cacheLength = k.cacheLength
        BY <2>1, <3>1, DeleteIs
      <3>3. room[3] \in Stores
        BY <3>2, ElementOfSeq
      <3> HIDE DEF room
      <3>4. last = room[3]
        BY <2>1
      <3> QED BY <2>1, <3>2, <3>3, <3>4 DEF AppendBase
    <2>2. CASE ~full
      <3>1. room = << >> /\ last = k
        BY <2>2
      <3>2. << >> \in Seq(Stores) /\ Len(<< >>) = 0
        OBVIOUS
      <3> QED BY <2>2, <3>1, <3>2 DEF AppendBase
    <2> QED BY <2>1, <2>2
  <1> HIDE DEF room, last, left
  <1>3. m \in PageMap
    BY <1>2, StoreFields, PutIs
  <1>4. m \in {Put(k.page, diskPageTail, writeBuffer),
               Put(Drop(k.page, head), diskPageTail, writeBuffer)}
    BY <1>2 DEF AppendBase
  <1>5. m = Put(AppendBase(k, head, size), diskPageTail, writeBuffer)
    BY <1>2
  <1> HIDE DEF m
  <1>6. with \in Stores /\ with.page = m /\ with.head = last.head /\ with.cacheLength = last.cacheLength
    BY <1>2, <1>3, WithPage
  <1> HIDE DEF with
  <1>7. /\ counted \in Stores /\ counted.page = m /\ counted.head = last.head
        /\ counted.cacheLength = last.cacheLength /\ counted.size = left + 1
    BY <1>0, <1>6, WithSize
  <1> HIDE DEF counted
  <1>8. two \in Seq(Stores) /\ Len(two) = 2 /\ two[1] = with /\ two[2] = counted
    BY <1>6, <1>7
  <1> HIDE DEF two
  <1>9. /\ a \in Seq(Stores) /\ Len(a) = Len(room) + 2 /\ Len(room) \in Nat
        /\ \A i \in 1..(Len(room) + 2) : a[i] = IF i <= Len(room) THEN room[i] ELSE two[i - Len(room)]
    <2> HIDE DEF a
    <2>1. room \in Seq(Stores) /\ two \in Seq(Stores)
      BY <1>2, <1>8
    <2>2. Len(room) \in Nat
      BY <2>1, LenProperties
    <2>3. /\ room \o two \in Seq(Stores) /\ Len(room \o two) = Len(room) + Len(two)
          /\ \A i \in 1..(Len(room) + Len(two)) :
                 (room \o two)[i] = IF i <= Len(room) THEN room[i] ELSE two[i - Len(room)]
      BY <2>1, ConcatProperties
    <2> QED BY <1>1, <1>8, <2>2, <2>3
  <1> HIDE DEF a
  <1>10. ASSUME NEW i \in 1..Len(a)
         PROVE  a[i].page = Drop(k.page, head) \/ a[i].page = m
    <2>1. CASE i <= Len(room)
      BY <1>2, <1>9, <2>1
    <2>2. CASE ~(i <= Len(room))
      <3>1. i - Len(room) = 1 \/ i - Len(room) = 2
        BY <1>9, <2>2
      <3> QED BY <1>6, <1>7, <1>8, <1>9, <2>2, <3>1
    <2> QED BY <2>1, <2>2
  <1>11. a # << >> /\ Last(a) = counted
    <2>1. Len(a) = Len(room) + 2 /\ ~(Len(room) + 2 <= Len(room)) /\ (Len(room) + 2) - Len(room) = 2
          /\ Len(room) + 2 \in 1..(Len(room) + 2)
      BY <1>9
    <2>2. a[Len(a)] = counted
      BY <1>8, <1>9, <2>1
    <2>3. a # << >>
      BY <1>9, <2>1, EmptySeq
    <2> QED BY <2>2, <2>3 DEF Last
  <1>12. \A i \in 1..Len(a) : a[i].page \in {Drop(k.page, head),
                      Put(k.page, diskPageTail, writeBuffer),
                      Put(Drop(k.page, head), diskPageTail, writeBuffer)}
    BY <1>4, <1>10
  <1> QED BY <1>0, <1>2, <1>5, <1>7, <1>9, <1>11, <1>12 DEF a

LEMMA InsertIs ==
    ASSUME kv \in Stores, diskPageHead \in Slots, diskSize \in 0..MaxDiskPage,
           readBuffer \in Page
    PROVE  LET a == InsertStores
               before == Slot(diskPageHead, MaxDiskPage - 1) IN
           /\ a \in Seq(Stores) /\ a # << >>
           /\ \A i \in 1..Len(a) : a[i].page = Put(kv.page, before, readBuffer)
           /\ Last(a) \in Stores /\ Last(a).page = Put(kv.page, before, readBuffer)
           /\ Last(a).size = IF diskSize < MaxDiskPage THEN diskSize + 1 ELSE kv.size
           /\ Last(a).head = before
  <1> DEFINE before == Slot(diskPageHead, MaxDiskPage - 1)
             m == Put(kv.page, before, readBuffer)
             with == [kv EXCEPT !.page = m]
             moved == [with EXCEPT !.head = before]
             counted == [moved EXCEPT !.size = diskSize + 1]
             a == InsertStores
  <1>0. MaxDiskPage \in Nat \ {0, 1} /\ MaxDiskPage - 1 \in 0..MaxDiskPage
    BY CacheAssumption
  <1>1. before \in Slots
    BY <1>0, SlotIs
  <1>2. a = IF diskSize < MaxDiskPage THEN <<with, moved, counted>> ELSE <<with, moved>>
    BY DEF InsertStores, Put
  <1> HIDE DEF before, a
  <1>3. m \in PageMap
    BY <1>1, StoreFields, PutIs
  <1> HIDE DEF m
  <1>4. with \in Stores /\ with.page = m /\ with.size = kv.size
    BY <1>3, WithPage
  <1> HIDE DEF with
  <1>5. moved \in Stores /\ moved.page = m /\ moved.size = kv.size /\ moved.head = before
    BY <1>1, <1>4, WithHead
  <1> HIDE DEF moved
  <1>6. CASE diskSize < MaxDiskPage
    <2>1. diskSize + 1 \in 0..MaxDiskPage
      BY <1>0, <1>6
    <2>2. /\ counted \in Stores /\ counted.page = m /\ counted.size = diskSize + 1
          /\ counted.head = before
      BY <1>5, <2>1, WithSize
    <2> HIDE DEF counted
    <2>3. /\ a \in Seq(Stores) /\ Len(a) = 3 /\ a[1] = with /\ a[2] = moved /\ a[3] = counted
          /\ a # << >>
      BY <1>2, <1>4, <1>5, <1>6, <2>2
    <2>4. \A i \in 1..3 : i = 1 \/ i = 2 \/ i = 3
      OBVIOUS
    <2>5. \A i \in 1..Len(a) : a[i].page = m
      BY <1>4, <1>5, <2>2, <2>3, <2>4
    <2>6. Last(a) = counted
      BY <2>3 DEF Last
    <2> QED BY <1>6, <2>2, <2>3, <2>5, <2>6 DEF a, m, before
  <1>7. CASE ~(diskSize < MaxDiskPage)
    <2>3. /\ a \in Seq(Stores) /\ Len(a) = 2 /\ a[1] = with /\ a[2] = moved
          /\ a # << >>
      BY <1>2, <1>4, <1>5, <1>7
    <2>4. \A i \in 1..2 : i = 1 \/ i = 2
      OBVIOUS
    <2>5. \A i \in 1..Len(a) : a[i].page = m
      BY <1>4, <1>5, <2>3, <2>4
    <2>6. Last(a) = moved
      BY <2>3 DEF Last
    <2> QED BY <1>5, <1>7, <2>3, <2>5, <2>6 DEF a, m, before
  <1> QED BY <1>6, <1>7

\* A store whose pages have nothing in common, and hold nothing but P.
Keeps(k, P) == k \in Stores /\ PagesApart(k.page) /\ Within(k.page) \subseteq P

LEMMA DeleteKeeps ==
    ASSUME NEW k, NEW P, Keeps(k, P), NEW head \in Slots, NEW size \in 1..MaxDiskPage
    PROVE  \A d \in Range(DeleteStores(k, head, size)) : Keeps(d, P)
  <1> DEFINE a == DeleteStores(k, head, size)
  <1>1. k \in Stores /\ PagesApart(k.page) /\ Within(k.page) \subseteq P
    BY DEF Keeps
  <1>2. /\ a \in Seq(Stores) /\ Len(a) = 3 /\ \A i \in 1..3 : a[i].page = Drop(k.page, head)
    BY <1>1, DeleteIs
  <1>3. PagesApart(Drop(k.page, head)) /\ Within(Drop(k.page, head)) \subseteq Within(k.page)
    BY <1>1, StoreFields, DropIs
  <1>4. DOMAIN a = 1..3 /\ \A i \in 1..3 : a[i] \in Stores
    BY <1>2, LenProperties, ElementOfSeq
  <1> HIDE DEF a
  <1>5. \A i \in DOMAIN a : Keeps(a[i], P)
    BY <1>1, <1>2, <1>3, <1>4 DEF Keeps
  <1> QED BY <1>5 DEF Range, a

LEMMA AppendKeeps ==
    ASSUME NEW k, NEW P, Keeps(k, P), NEW head \in Slots, NEW size \in 0..MaxDiskPage,
           diskPageTail \in Slots, writeBuffer \in Page, IsInjective(writeBuffer),
           Range(writeBuffer) \cap P = {}
    PROVE  /\ \A d \in Range(AppendStores(k, head, size)) : Keeps(d, P \cup Range(writeBuffer))
           /\ Keeps(Last(AppendStores(k, head, size)), P \cup Range(writeBuffer))
  <1> DEFINE a == AppendStores(k, head, size)
             dropped == Drop(k.page, head)
             put == Put(k.page, diskPageTail, writeBuffer)
             both == Put(dropped, diskPageTail, writeBuffer)
             Q == P \cup Range(writeBuffer)
  <1>1. k \in Stores /\ PagesApart(k.page) /\ Within(k.page) \subseteq P
    BY DEF Keeps
  <1>2. /\ a \in Seq(Stores) /\ a # << >>
        /\ \A i \in 1..Len(a) : a[i].page \in {dropped, put, both}
    BY <1>1, AppendIs
  <1>3. PagesApart(dropped) /\ Within(dropped) \subseteq P /\ dropped \in PageMap
    BY <1>1, StoreFields, DropIs
  <1>4. PagesApart(put) /\ Within(put) \subseteq Q
    <2>1. k.page \in PageMap
      BY <1>1, StoreFields
    <2>2. Range(writeBuffer) \cap Within(k.page) = {}
      BY <1>1
    <2>3. Within(put) \subseteq Within(k.page) \cup Range(writeBuffer)
      BY <2>1, PutIs
    <2>4. PagesApart(put)
      BY <1>1, <2>1, <2>2, PutIs
    <2> QED BY <1>1, <2>3, <2>4
  <1>5. PagesApart(both) /\ Within(both) \subseteq Q
    <2> HIDE DEF dropped
    <2>2. Range(writeBuffer) \cap Within(dropped) = {}
      BY <1>3
    <2>3. Within(both) \subseteq Within(dropped) \cup Range(writeBuffer)
      BY <1>3, PutIs
    <2>4. PagesApart(both)
      BY <1>3, <2>2, PutIs
    <2> QED BY <1>3, <2>3, <2>4
  <1> HIDE DEF dropped, put, both
  <1>6. Len(a) \in Nat \ {0} /\ DOMAIN a = 1..Len(a) /\ \A i \in 1..Len(a) : a[i] \in Stores
    BY <1>2, LenProperties, ElementOfSeq, EmptySeq
  <1> HIDE DEF a
  <1>7. \A i \in DOMAIN a : Keeps(a[i], Q)
    <2> SUFFICES ASSUME NEW i \in DOMAIN a PROVE Keeps(a[i], Q)
      OBVIOUS
    <2>1. a[i].page \in {dropped, put, both} /\ a[i] \in Stores
      BY <1>2, <1>6
    <2>2. PagesApart(a[i].page) /\ Within(a[i].page) \subseteq Q
      BY <1>3, <1>4, <1>5, <2>1
    <2> QED BY <2>1, <2>2 DEF Keeps
  <1>8. Len(a) \in DOMAIN a
    BY <1>6
  <1> QED BY <1>7, <1>8 DEF Range, Last, a

LEMMA InsertKeeps ==
    ASSUME NEW P, Keeps(kv, P), diskPageHead \in Slots, diskSize \in 0..MaxDiskPage,
           readBuffer \in Page, IsInjective(readBuffer), Range(readBuffer) \cap P = {}
    PROVE  /\ \A d \in Range(InsertStores) : Keeps(d, P \cup Range(readBuffer))
           /\ Keeps(Last(InsertStores), P \cup Range(readBuffer))
  <1> DEFINE a == InsertStores
             before == Slot(diskPageHead, MaxDiskPage - 1)
             m == Put(kv.page, before, readBuffer)
             Q == P \cup Range(readBuffer)
  <1>1. kv \in Stores /\ PagesApart(kv.page) /\ Within(kv.page) \subseteq P
    BY DEF Keeps
  <1>2. /\ a \in Seq(Stores) /\ a # << >> /\ \A i \in 1..Len(a) : a[i].page = m
    BY <1>1, InsertIs
  <1>3. PagesApart(m) /\ Within(m) \subseteq Q
    <2>0. before \in Slots
      <3>1. MaxDiskPage - 1 \in 0..MaxDiskPage
        BY CacheAssumption
      <3> QED BY <3>1, SlotIs
    <2> HIDE DEF before
    <2>1. kv.page \in PageMap
      BY <1>1, StoreFields
    <2>2. Range(readBuffer) \cap Within(kv.page) = {}
      BY <1>1
    <2>3. Within(m) \subseteq Within(kv.page) \cup Range(readBuffer)
      BY <2>0, <2>1, PutIs
    <2>4. PagesApart(m)
      <3>1. PagesApart(kv.page) /\ IsInjective(readBuffer) /\ readBuffer \in Page
        BY <1>1
      <3> QED BY <2>0, <2>1, <2>2, <3>1, PutIs
    <2> QED BY <1>1, <2>3, <2>4
  <1>6. Len(a) \in Nat \ {0} /\ DOMAIN a = 1..Len(a) /\ \A i \in 1..Len(a) : a[i] \in Stores
    BY <1>2, LenProperties, ElementOfSeq, EmptySeq
  <1> HIDE DEF a, m
  <1>7. \A i \in DOMAIN a : Keeps(a[i], Q)
    BY <1>2, <1>3, <1>6 DEF Keeps
  <1>8. Len(a) \in DOMAIN a
    BY <1>6
  <1> QED BY <1>7, <1>8 DEF Range, Last, a

-----------------------------------------------------------------------------
(* What the cache holds, whatever stops and crashes have left.             *)

CacheTypes ==
    /\ kv \in Stores
    /\ readBuffer \in Seq(Items) /\ Len(readBuffer) <= BufferPageSize
    /\ writeBuffer \in Seq(Items) /\ Len(writeBuffer) <= BufferPageSize
    /\ diskSize \in 0..MaxDiskPage /\ diskPageHead \in Slots /\ diskPageTail \in Slots
    /\ CacheLength \in Int
    /\ popped \subseteq Items /\ overflowed \subseteq Items

Held == Within(kv.page) \cup Range(readBuffer) \cup Range(writeBuffer)

\* No item is held twice, and none that was taken out.
Apart ==
    /\ PagesApart(kv.page) /\ IsInjective(readBuffer) /\ IsInjective(writeBuffer)
    /\ Range(readBuffer) \cap Range(writeBuffer) = {}
    /\ Within(kv.page) \cap Range(readBuffer) = {}
    /\ Within(kv.page) \cap Range(writeBuffer) = {}
    /\ popped \cap Held = {}

\* Only what has arrived is known.
UpTo(n) == Held \subseteq 1..n /\ popped \subseteq 1..n

LEMMA BufferIsPage ==
    ASSUME CacheTypes
    PROVE  /\ readBuffer # << >> => readBuffer \in Page
           /\ writeBuffer # << >> => writeBuffer \in Page
           /\ kv.page \in PageMap /\ kv \in Stores
           /\ BufferPageSize \in Nat \ {0} /\ MaxDiskPage \in Nat \ {0, 1}
           /\ Len(readBuffer) \in Nat /\ Len(writeBuffer) \in Nat
  <1>1. kv \in Stores /\ readBuffer \in Seq(Items) /\ writeBuffer \in Seq(Items)
        /\ Len(readBuffer) <= BufferPageSize /\ Len(writeBuffer) <= BufferPageSize
    BY DEF CacheTypes
  <1>2. kv.page \in PageMap
    BY <1>1, StoreFields
  <1> QED BY <1>1, <1>2, CacheAssumption DEF Page

LEMMA FlushKeeps ==
    ASSUME CacheTypes, Apart
    PROVE  /\ \A d \in Range(FlushStores) : Keeps(d, Held)
           /\ Keeps(Last(FlushStores), Held)
  <1> DEFINE inserted == readBuffer # << >>
             read == IF inserted THEN InsertStores ELSE <<kv>>
             head == IF inserted THEN Slot(diskPageHead, MaxDiskPage - 1) ELSE diskPageHead
             size == IF inserted /\ diskSize < MaxDiskPage THEN diskSize + 1 ELSE diskSize
             written == IF writeBuffer = << >> THEN read
                        ELSE read \o AppendStores(Last(read), head, size)
             dropped == IF writeBuffer # << >> /\ size = MaxDiskPage
                        THEN BufferPageSize + Len(readBuffer) ELSE 0
             final == [Last(written) EXCEPT !.cacheLength = CacheLength - dropped]
             P == Within(kv.page)
             Q == P \cup Range(readBuffer)
  <1>1. FlushStores = Append(written, final)
    BY DEF FlushStores
  <1>2. /\ diskSize \in 0..MaxDiskPage /\ diskPageHead \in Slots /\ diskPageTail \in Slots
        /\ CacheLength \in Int /\ readBuffer \in Seq(Items) /\ writeBuffer \in Seq(Items)
    BY DEF CacheTypes
  <1>3. /\ IsInjective(readBuffer) /\ IsInjective(writeBuffer) /\ Range(readBuffer) \cap P = {}
        /\ Range(writeBuffer) \cap Q = {}
    BY DEF Apart
  <1>4. Keeps(kv, P)
    BY BufferIsPage DEF Keeps, Apart
  <1>5. head \in Slots /\ size \in 0..MaxDiskPage /\ CacheLength - dropped \in Int
    <2>1. MaxDiskPage - 1 \in 0..MaxDiskPage
      BY CacheAssumption
    <2>2. Slot(diskPageHead, MaxDiskPage - 1) \in Slots
      BY <1>2, <2>1, SlotIs
    <2> QED BY <1>2, <2>2, BufferIsPage
  <1> HIDE DEF head, size, dropped
  <1>6. /\ read \in Seq(Stores) /\ read # << >> /\ \A d \in Range(read) : Keeps(d, Q)
        /\ Keeps(Last(read), Q)
    <2>1. CASE inserted
      <3>1. readBuffer \in Page
        BY <2>1, BufferIsPage
      <3>2. InsertStores \in Seq(Stores) /\ InsertStores # << >>
        BY <1>2, <3>1, InsertIs, BufferIsPage
      <3>3. /\ \A d \in Range(InsertStores) : Keeps(d, P \cup Range(readBuffer))
            /\ Keeps(Last(InsertStores), P \cup Range(readBuffer))
        <4> HIDE DEF P
        <4> QED BY <1>2, <1>3, <1>4, <3>1, InsertKeeps
      <3> QED BY <2>1, <3>2, <3>3
    <2>2. CASE ~inserted
      <3>1. read = <<kv>>
        BY <2>2
      <3>2. Keeps(kv, Q)
        BY <1>4 DEF Keeps
      <3>3. /\ <<kv>> \in Seq(Stores) /\ <<kv>> # << >> /\ Last(<<kv>>) = kv
            /\ Range(<<kv>>) = {kv}
        BY BufferIsPage DEF Last, Range
      <3> HIDE DEF read, Q
      <3> QED BY <3>1, <3>2, <3>3
    <2> QED BY <2>1, <2>2
  <1> HIDE DEF read, Q
  <1>7. /\ written \in Seq(Stores) /\ written # << >>
        /\ \A d \in Range(written) : Keeps(d, Q \cup Range(writeBuffer))
    <2>1. CASE writeBuffer = << >>
      <3>1. written = read
        BY <2>1
      <3>2. \A d \in Range(read) : Keeps(d, Q \cup Range(writeBuffer))
        BY <1>6 DEF Keeps
      <3> QED BY <1>6, <3>1, <3>2
    <2>2. CASE writeBuffer # << >>
      <3> DEFINE more == AppendStores(Last(read), head, size)
      <3>1. writeBuffer \in Page
        BY <2>2, BufferIsPage
      <3>2. Last(read) \in Stores
        BY <1>6 DEF Keeps
      <3>3. more \in Seq(Stores)
        BY <1>2, <1>5, <3>1, <3>2, AppendIs
      <3>4. \A d \in Range(more) : Keeps(d, Q \cup Range(writeBuffer))
        BY <1>2, <1>3, <1>5, <1>6, <3>1, AppendKeeps
      <3> HIDE DEF more
      <3>5. written = read \o more
        BY <2>2 DEF more
      <3>6. Range(read \o more) = Range(read) \cup Range(more) /\ read \o more \in Seq(Stores)
        BY <1>6, <3>3, RangeConcatenation, ConcatProperties
      <3>7. read \o more # << >>
        BY <1>6, <3>3, ConcatEqualIffEmpty
      <3>8. \A d \in Range(read) : Keeps(d, Q \cup Range(writeBuffer))
        BY <1>6 DEF Keeps
      <3> QED BY <3>4, <3>5, <3>6, <3>7, <3>8
    <2> QED BY <2>1, <2>2
  <1> HIDE DEF written
  <1>8. Keeps(Last(written), Q \cup Range(writeBuffer))
    <2>1. Len(written) \in DOMAIN written
      BY <1>7, LenProperties, EmptySeq
    <2>2. Last(written) \in Range(written)
      BY <2>1 DEF Last, Range
    <2> QED BY <1>7, <2>2
  <1>9. Keeps(final, Q \cup Range(writeBuffer)) /\ final \in Stores
    <2>1. Last(written) \in Stores
      BY <1>8 DEF Keeps
    <2>2. final \in Stores /\ final.page = Last(written).page
      BY <1>5, <2>1, WithCount
    <2> HIDE DEF final
    <2> QED BY <1>8, <2>2 DEF Keeps
  <1> HIDE DEF final
  <1>10. Range(Append(written, final)) = Range(written) \cup {final}
         /\ Last(Append(written, final)) = final
    <2>1. Range(Append(written, final)) = Range(written) \cup {final}
      BY <1>7, <1>9, AppendElement
    <2>2. Last(Append(written, final)) = final
      BY <1>7, <1>9, AppendProperties DEF Last
    <2> QED BY <2>1, <2>2
  <1>11. Held = Q \cup Range(writeBuffer)
    BY DEF Held, Q
  <1> QED BY <1>1, <1>7, <1>9, <1>10, <1>11

Parts(n) == CacheTypes /\ Apart /\ UpTo(n)

\* The ring in memory and the size in the store agree, from the start of a run.
Ring == diskPageTail = Slot(diskPageHead, diskSize) /\ kv.size = diskSize

\* A new item goes behind those in memory.
LEMMA AddKeepsParts ==
    ASSUME NEW n \in Nat, Parts(n), Ring, n + 1 \in Items, AddCache(n + 1)
    PROVE  Parts(n + 1)' /\ Ring'
  <1> DEFINE x == n + 1
             P == Within(kv.page)
             R == Range(readBuffer)
             W == Range(writeBuffer)
             a == AppendStores(kv, diskPageHead, diskSize)
  <1>1. /\ kv \in Stores
        /\ readBuffer \in Seq(Items) /\ Len(readBuffer) <= BufferPageSize
        /\ writeBuffer \in Seq(Items) /\ Len(writeBuffer) <= BufferPageSize
        /\ diskSize \in 0..MaxDiskPage /\ diskPageHead \in Slots /\ diskPageTail \in Slots
        /\ CacheLength \in Int
        /\ popped \subseteq Items /\ overflowed \subseteq Items
    BY DEF Parts, CacheTypes
  <1>2. /\ PagesApart(kv.page) /\ IsInjective(readBuffer) /\ IsInjective(writeBuffer)
        /\ R \cap W = {} /\ P \cap R = {} /\ P \cap W = {} /\ popped \cap (P \cup R \cup W) = {}
    BY DEF Parts, Apart, Held
  <1>3. P \cup R \cup W \subseteq 1..n /\ popped \subseteq 1..n /\ x \in Nat /\ x \notin 1..n
        /\ 1..(n + 1) = (1..n) \cup {x} /\ x \in Items
    <2>1. P \cup R \cup W \subseteq 1..n /\ popped \subseteq 1..n
      BY DEF Parts, UpTo, Held
    <2> QED BY <2>1
  <1>4. /\ BufferPageSize \in Nat \ {0} /\ MaxDiskPage \in Nat \ {0, 1}
        /\ kv.page \in PageMap /\ Len(readBuffer) \in Nat /\ Len(writeBuffer) \in Nat
        /\ 1 \in 0..MaxDiskPage
    BY BufferIsPage DEF Parts
  <1>5. popped' = popped
    BY DEF AddCache
  <1>6. <<x>> \in Seq(Items) /\ Len(<<x>>) = 1 /\ Range(<<x>>) = {x} /\ IsInjective(<<x>>)
    BY <1>3 DEF Range, IsInjective
  <1>7. Slot(diskPageTail, 1) \in Slots /\ Slot(diskPageHead, 1) \in Slots
    BY <1>1, <1>4, SlotIs
  <1>8. CASE AddToBuffer(x)
    <2>1. /\ Len(writeBuffer) # BufferPageSize /\ writeBuffer' = Append(writeBuffer, x)
          /\ CacheLength' = CacheLength + 1
          /\ UNCHANGED <<readBuffer, diskSize, diskPageHead, diskPageTail, kv, overflowed>>
      BY <1>8 DEF AddToBuffer, WriteIsFull
    <2>2. x \notin W
      BY <1>3
    <2>3. writeBuffer' \in Seq(Items) /\ Len(writeBuffer') = Len(writeBuffer) + 1
      BY <1>1, <1>3, <2>1, AppendProperties
    <2>4. Range(writeBuffer') = W \cup {x} /\ IsInjective(writeBuffer')
      BY <1>1, <1>2, <1>3, <2>1, <2>2, AppendElement
    <2>5. CacheTypes'
      BY <1>1, <1>4, <1>5, <2>1, <2>3 DEF CacheTypes
    <2> HIDE DEF P, R, W
    <2>6. Range(readBuffer') = R /\ Within(kv'.page) = P
      BY <2>1 DEF R, P
    <2>7. Apart'
      <3>1. PagesApart(kv'.page) /\ IsInjective(readBuffer')
        BY <1>2, <2>1
      <3>2. /\ Range(readBuffer') \cap Range(writeBuffer') = {}
            /\ Within(kv'.page) \cap Range(readBuffer') = {}
            /\ Within(kv'.page) \cap Range(writeBuffer') = {}
            /\ popped' \cap (Within(kv'.page) \cup Range(readBuffer') \cup Range(writeBuffer')) = {}
        BY <1>2, <1>3, <1>5, <2>4, <2>6
      <3> QED BY <2>4, <3>1, <3>2 DEF Apart, Held
    <2>8. UpTo(n + 1)'
      BY <1>3, <1>5, <2>4, <2>6 DEF UpTo, Held
    <2>9. Ring'
      BY <2>1 DEF Parts, Ring
    <2> QED BY <2>5, <2>7, <2>8, <2>9 DEF Parts
  <1>9. CASE AddToDisk(x) \/ AddWhenFull(x)
    <2> DEFINE full == diskSize = MaxDiskPage
    <2>1. /\ Len(writeBuffer) = BufferPageSize
          /\ kv' = Last(a) /\ writeBuffer' = <<x>>
          /\ diskPageTail' = Slot(diskPageTail, 1)
          /\ diskSize' = IF full THEN diskSize ELSE diskSize + 1
          /\ diskPageHead' = IF full THEN Slot(diskPageHead, 1) ELSE diskPageHead
          /\ readBuffer' = readBuffer \/ readBuffer' = << >>
      BY <1>9 DEF AddToDisk, AddWhenFull, WriteIsFull, DiskIsFull
    <2>2. CacheLength' \in Int /\ overflowed' \subseteq Items
      <3>1. CASE AddToDisk(x)
        BY <1>1, <3>1 DEF AddToDisk
      <3>2. CASE AddWhenFull(x)
        <4>1. /\ CacheLength' = CacheLength - BufferPageSize - Len(readBuffer) + 1
              /\ overflowed' = overflowed \cup R \cup Range(PageAt(kv, diskPageHead))
          BY <3>2 DEF AddWhenFull
        <4>2. R \subseteq Items /\ Range(PageAt(kv, diskPageHead)) \subseteq Items
          BY <1>1, <1>4, PageAtType, RangeOfSeq
        <4> QED BY <1>1, <1>4, <4>1, <4>2
      <3> QED BY <1>9, <3>1, <3>2
    <2>3. writeBuffer \in Page
      <3>1. writeBuffer # << >>
        BY <1>4, <2>1, EmptySeq
      <3> QED BY <3>1, BufferIsPage DEF Parts
    <2>4. /\ Last(a) \in Stores /\ Last(a).size = IF full THEN diskSize ELSE diskSize + 1
      BY <1>1, <2>3, AppendIs
    <2>5. Keeps(Last(a), P \cup W)
      <3>1. Keeps(kv, P)
        BY <1>1, <1>2 DEF Keeps
      <3> HIDE DEF P
      <3>2. Range(writeBuffer) \cap P = {}
        BY <1>2
      <3> QED BY <1>1, <1>2, <2>3, <3>1, <3>2, AppendKeeps
    <2> HIDE DEF a, P
    <2>6. PagesApart(kv'.page) /\ Within(kv'.page) \subseteq P \cup W
      BY <2>1, <2>5 DEF Keeps
    <2>7. Range(readBuffer') \subseteq R /\ IsInjective(readBuffer')
          /\ readBuffer' \in Seq(Items) /\ Len(readBuffer') <= BufferPageSize
      <3>1. CASE readBuffer' = readBuffer
        BY <1>1, <1>2, <3>1
      <3>2. CASE readBuffer' = << >>
        <4>1. Range(<< >>) = {} /\ IsInjective(<< >>) /\ << >> \in Seq(Items) /\ Len(<< >>) = 0
          BY DEF Range, IsInjective
        <4>2. 0 <= BufferPageSize
          BY <1>4
        <4> QED BY <3>2, <4>1, <4>2
      <3> QED BY <2>1, <3>1, <3>2
    <2>8. Range(writeBuffer') = {x} /\ IsInjective(writeBuffer') /\ writeBuffer' \in Seq(Items)
          /\ Len(writeBuffer') <= BufferPageSize
      BY <1>4, <1>6, <2>1
    <2>9. CacheTypes'
      <3>1. diskSize' \in 0..MaxDiskPage
        BY <1>1, <1>4, <2>1
      <3>2. diskPageHead' \in Slots /\ diskPageTail' \in Slots
        BY <1>1, <1>7, <2>1
      <3>3. kv' \in Stores
        BY <2>1, <2>4
      <3>4. popped' \subseteq Items
        BY <1>1, <1>5
      <3> QED BY <2>2, <2>7, <2>8, <3>1, <3>2, <3>3, <3>4 DEF CacheTypes
    <2> HIDE DEF R, W
    <2>10. Apart'
      <3>2. /\ Range(readBuffer') \cap Range(writeBuffer') = {}
            /\ Within(kv'.page) \cap Range(readBuffer') = {}
            /\ Within(kv'.page) \cap Range(writeBuffer') = {}
            /\ popped' \cap (Within(kv'.page) \cup Range(readBuffer') \cup Range(writeBuffer')) = {}
        BY <1>2, <1>3, <1>5, <2>6, <2>7, <2>8
      <3> QED BY <2>6, <2>7, <2>8, <3>2 DEF Apart, Held
    <2>11. UpTo(n + 1)'
      BY <1>3, <1>5, <2>6, <2>7, <2>8 DEF UpTo, Held
    <2>12. Ring'
      <3>1. diskPageTail = Slot(diskPageHead, diskSize) /\ kv.size = diskSize
        BY DEF Ring
      <3>2. kv'.size = diskSize'
        BY <2>1, <2>4
      <3>3. CASE full
        <4>1. diskPageTail = diskPageHead
          BY <1>1, <3>1, <3>3, SlotFacts
        <4>2. Slot(diskPageHead', MaxDiskPage) = diskPageHead'
          BY <1>7, <2>1, <3>3, SlotFacts
        <4> QED BY <2>1, <3>2, <3>3, <4>1, <4>2 DEF Ring
      <3>4. CASE ~full
        <4>1. diskSize \in 0..(MaxDiskPage - 1)
          BY <1>1, <1>4, <3>4
        <4>2. Slot(diskPageTail, 1) = Slot(diskPageHead, diskSize + 1)
          BY <1>1, <3>1, <4>1, SlotFacts
        <4> QED BY <2>1, <3>2, <3>4, <4>2 DEF Ring
      <3> QED BY <3>3, <3>4
    <2> QED BY <2>9, <2>10, <2>11, <2>12 DEF Parts
  <1> QED BY <1>8, <1>9 DEF AddCache


\* A page is taken apart from its first item on.
LEMMA TakeKeeps ==
    ASSUME NEW page \in Seq(Items), IsInjective(page), Len(page) <= BufferPageSize,
           page = PageToRead, TakeItem
    PROVE  /\ readBuffer' \in Seq(Items) /\ Len(readBuffer') <= BufferPageSize
           /\ IsInjective(readBuffer') /\ Range(readBuffer') \subseteq Range(page)
           /\ popped' = popped \cup (Range(page) \ Range(readBuffer'))
  <1>1. BufferPageSize \in Nat \ {0} /\ Nothing \notin Items /\ Len(page) \in Nat
    BY CacheAssumption DEF Items
  <1>2. CASE page = << >>
    <2>1. readBuffer' = << >> /\ popped' = popped
      BY <1>2 DEF TakeItem, PopResult
    <2>2. Range(<< >>) = {} /\ IsInjective(<< >>) /\ << >> \in Seq(Items) /\ Len(<< >>) = 0
      BY DEF Range, IsInjective
    <2> QED BY <1>1, <1>2, <2>1, <2>2
  <1>3. CASE page # << >>
    <2>1. /\ Range(page) = {Head(page)} \cup Range(Tail(page)) /\ Head(page) \in Items
          /\ Tail(page) \in Seq(Items) /\ IsInjective(Tail(page))
          /\ Head(page) \notin Range(Tail(page)) /\ Len(Tail(page)) = Len(page) - 1
      BY <1>3, TailElements
    <2>2. readBuffer' = Tail(page) /\ popped' = popped \cup ({Head(page)} \ {Nothing})
      BY <1>3 DEF TakeItem, PopResult
    <2>3. {Head(page)} \ {Nothing} = Range(page) \ Range(Tail(page))
      BY <1>1, <2>1
    <2>4. Len(Tail(page)) <= BufferPageSize
      BY <1>1, <2>1
    <2> QED BY <2>1, <2>2, <2>3, <2>4
  <1> QED BY <1>2, <1>3

\* What is taken out is nowhere else.
LEMMA PopKeepsParts ==
    ASSUME NEW n \in Nat, Parts(n), Ring, PopCache
    PROVE  Parts(n)' /\ Ring'
  <1> DEFINE page == PageToRead
             P == Within(kv.page)
             R == Range(readBuffer)
             W == Range(writeBuffer)
  <1>1. /\ kv \in Stores
        /\ readBuffer \in Seq(Items) /\ Len(readBuffer) <= BufferPageSize
        /\ writeBuffer \in Seq(Items) /\ Len(writeBuffer) <= BufferPageSize
        /\ diskSize \in 0..MaxDiskPage /\ diskPageHead \in Slots /\ diskPageTail \in Slots
        /\ CacheLength \in Int
        /\ popped \subseteq Items /\ overflowed \subseteq Items
    BY DEF Parts, CacheTypes
  <1>2. /\ PagesApart(kv.page) /\ IsInjective(readBuffer) /\ IsInjective(writeBuffer)
        /\ R \cap W = {} /\ P \cap R = {} /\ P \cap W = {} /\ popped \cap (P \cup R \cup W) = {}
        /\ P \cup R \cup W \subseteq 1..n /\ popped \subseteq 1..n
    BY DEF Parts, Apart, UpTo, Held
  <1>3. /\ BufferPageSize \in Nat \ {0} /\ MaxDiskPage \in Nat \ {0, 1}
        /\ kv.page \in PageMap /\ Len(readBuffer) \in Nat /\ Len(writeBuffer) \in Nat
        /\ 1 \in 0..MaxDiskPage
    BY BufferIsPage DEF Parts
  <1>4. TakeItem /\ diskPageTail' = diskPageTail /\ overflowed' = overflowed
    BY DEF PopCache
  <1>5. diskPageTail = Slot(diskPageHead, diskSize) /\ kv.size = diskSize
    BY DEF Ring
  <1>6. IsInjective(<< >>) /\ << >> \in Seq(Items) /\ Range(<< >>) = {} /\ Len(<< >>) = 0
        /\ 0 <= BufferPageSize
    BY <1>3 DEF IsInjective, Range
  <1>7. /\ page \in Seq(Items) /\ IsInjective(page) /\ Len(page) <= BufferPageSize
        /\ kv' \in Stores /\ PagesApart(kv'.page)
        /\ Range(page) \subseteq P \cup R \cup W
        /\ Within(kv'.page) \subseteq P /\ Range(page) \cap Within(kv'.page) = {}
        /\ writeBuffer' \in Seq(Items) /\ Len(writeBuffer') <= BufferPageSize
        /\ IsInjective(writeBuffer')
        /\ Range(writeBuffer') \subseteq W /\ Range(page) \cap Range(writeBuffer') = {}
        /\ diskSize' \in 0..MaxDiskPage /\ diskPageHead' \in Slots /\ Ring'
    <2>1. CASE PopFromBuffer
      <3>1. page = readBuffer /\ UNCHANGED <<writeBuffer, diskSize, diskPageHead, kv>>
        BY <2>1 DEF PopFromBuffer, PageToRead
      <3>2. Ring'
        BY <1>4, <1>5, <3>1 DEF Ring
      <3> HIDE DEF page
      <3> QED BY <1>1, <1>2, <3>1, <3>2
    <2>2. CASE PopFromWriteBuffer
      <3>1. /\ page = writeBuffer /\ writeBuffer' = << >>
            /\ UNCHANGED <<diskSize, diskPageHead, kv>>
        BY <1>1, <2>2 DEF PopFromWriteBuffer, PageToRead
      <3>2. Ring'
        BY <1>4, <1>5, <3>1 DEF Ring
      <3> HIDE DEF page
      <3> QED BY <1>1, <1>2, <1>6, <3>1, <3>2
    <2>3. CASE PopFromDisk /\ diskPageHead \notin DOMAIN kv.page
      <3>1. page = << >> /\ UNCHANGED <<writeBuffer, diskSize, diskPageHead, kv>>
        BY <2>3 DEF PopFromDisk, PageToRead, PageAt
      <3>2. Ring'
        BY <1>4, <1>5, <3>1 DEF Ring
      <3> HIDE DEF page
      <3> QED BY <1>1, <1>2, <1>6, <3>1, <3>2
    <2>4. CASE PopFromDisk /\ diskPageHead \in DOMAIN kv.page
      <3> DEFINE a == DeleteStores(kv, diskPageHead, diskSize)
                 left == Drop(kv.page, diskPageHead)
      <3>1. /\ page = kv.page[diskPageHead] /\ kv' = Last(a) /\ writeBuffer' = writeBuffer
            /\ diskSize > 0 /\ diskSize' = diskSize - 1 /\ diskPageHead' = Slot(diskPageHead, 1)
        BY <2>4 DEF PopFromDisk, PageToRead, PageAt
      <3>2. diskSize \in 1..MaxDiskPage
        BY <1>1, <1>3, <3>1
      <3>3. /\ a \in Seq(Stores) /\ Len(a) = 3 /\ a[3].page = left /\ a[3].size = diskSize - 1
        <4>1. kv \in Stores
          BY <1>1
        <4>2. diskPageHead \in Slots
          BY <1>1
        <4>3. a[3].page = left
          BY <3>2, <4>1, <4>2, DeleteIs
        <4>4. a \in Seq(Stores) /\ Len(a) = 3 /\ a[3].size = diskSize - 1
          BY <3>2, <4>1, <4>2, DeleteIs
        <4> HIDE DEF a, left
        <4> QED BY <4>3, <4>4
      <3>4. Last(a) = a[3] /\ a[3] \in Stores
        <4>1. a \in Seq(Stores) /\ Len(a) = 3
          BY <3>3
        <4> HIDE DEF a
        <4>2. 3 \in 1..Len(a)
          BY <4>1
        <4>3. a[3] \in Stores
          BY <4>1, <4>2, ElementOfSeq
        <4> QED BY <4>1, <4>3 DEF Last
      <3>5. /\ Within(left) \subseteq P /\ PagesApart(left)
            /\ Range(kv.page[diskPageHead]) \cap Within(left) = {}
        BY <1>2, <1>3, <2>4, DropIs
      <3>6. kv.page[diskPageHead] \in Page /\ IsInjective(kv.page[diskPageHead])
            /\ Range(kv.page[diskPageHead]) \subseteq P
        BY <1>2, <1>3, <2>4, PageMapIs DEF PagesApart, Within
      <3>7. kv.page[diskPageHead] \in Seq(Items) /\ Len(kv.page[diskPageHead]) <= BufferPageSize
        BY <3>6 DEF Page
      <3>8. Slot(diskPageHead, 1) \in Slots
        BY <1>1, <1>3, SlotIs
      <3>9. Ring'
        <4>1. diskSize - 1 \in 0..(MaxDiskPage - 1) /\ (diskSize - 1) + 1 = diskSize
          BY <1>3, <3>2
        <4>2. Slot(Slot(diskPageHead, 1), diskSize - 1) = Slot(diskPageHead, diskSize)
          BY <1>1, <4>1, SlotFacts
        <4> HIDE DEF a
        <4> QED BY <1>4, <1>5, <3>1, <3>3, <3>4, <4>2 DEF Ring
      <3>10. diskSize' \in 0..MaxDiskPage
        BY <1>3, <3>1, <3>2
      <3> HIDE DEF a, page, left, P, W
      <3>11. kv' \in Stores /\ kv'.page = left
        BY <3>1, <3>3, <3>4
      <3>12. Range(page) \cap W = {}
        BY <1>2, <3>1, <3>6
      <3> QED BY <1>1, <1>2, <3>1, <3>5, <3>6, <3>7, <3>8, <3>9, <3>10, <3>11, <3>12 DEF W
    <2> QED BY <2>1, <2>2, <2>3, <2>4 DEF PopCache
  <1>8. /\ readBuffer' \in Seq(Items) /\ Len(readBuffer') <= BufferPageSize
        /\ IsInjective(readBuffer') /\ Range(readBuffer') \subseteq Range(page)
        /\ popped' = popped \cup (Range(page) \ Range(readBuffer'))
    BY <1>4, <1>7, TakeKeeps
  <1>9. Range(page) \subseteq Items
    BY <1>7, RangeOfSeq
  <1>10. CacheLength' \in Int
    BY <1>1, <1>4 DEF TakeItem
  <1> HIDE DEF page, P, R, W
  <1>11. CacheTypes'
    <2>1. popped' \subseteq Items
      BY <1>1, <1>8, <1>9
    <2> QED BY <1>1, <1>4, <1>7, <1>8, <1>10, <2>1 DEF CacheTypes
  <1>12. Apart'
    <2>1. /\ Range(readBuffer') \cap Range(writeBuffer') = {}
          /\ Within(kv'.page) \cap Range(readBuffer') = {}
          /\ Within(kv'.page) \cap Range(writeBuffer') = {}
          /\ popped' \cap (Within(kv'.page) \cup Range(readBuffer') \cup Range(writeBuffer')) = {}
      BY <1>2, <1>7, <1>8
    <2> QED BY <1>7, <1>8, <2>1 DEF Apart, Held
  <1>13. UpTo(n)'
    BY <1>2, <1>7, <1>8 DEF UpTo, Held
  <1> QED BY <1>7, <1>11, <1>12, <1>13 DEF Parts

-----------------------------------------------------------------------------
(* The end of a run and the start of the next.                             *)

LEMMA EmptyKeeps ==
    ASSUME NEW P
    PROVE  Keeps(EmptyStore, P) /\ EmptyStore.size = 0 /\ EmptyStore.page = << >>
  <1>1. << >> \in PageMap /\ DOMAIN << >> = {}
    <2>1. << >> \in [{} -> Page]
      OBVIOUS
    <2>2. {} \in SUBSET Slots
      OBVIOUS
    <2>3. DOMAIN << >> = {}
      OBVIOUS
    <2>4. << >> \in [DOMAIN << >> -> Page]
      BY <2>1, <2>3
    <2>5. DOMAIN << >> \in SUBSET Slots
      BY <2>2, <2>3
    <2> QED BY <2>3, <2>4, <2>5, PageMapIs
  <1>2. PagesApart(<< >>) /\ Within(<< >>) = {}
    BY <1>1 DEF PagesApart, Within
  <1>3. 0 \in 0..MaxDiskPage /\ 0 \in Slots
    BY CacheAssumption DEF Slots
  <1>4. EmptyStore \in Stores /\ EmptyStore.page = << >> /\ EmptyStore.size = 0
    BY <1>1, <1>3 DEF Stores, EmptyStore
  <1> HIDE DEF EmptyStore
  <1> QED BY <1>2, <1>4 DEF Keeps

LEMMA InFlightKeeps ==
    ASSUME CacheTypes, Apart, NEW d \in StoresInFlight
    PROVE  Keeps(d, Held)
  <1> DEFINE P == Within(kv.page)
  <1>1. /\ diskSize \in 0..MaxDiskPage /\ diskPageHead \in Slots /\ diskPageTail \in Slots
        /\ kv \in Stores /\ PagesApart(kv.page) /\ IsInjective(writeBuffer)
        /\ Range(writeBuffer) \cap P = {}
    BY DEF CacheTypes, Apart
  <1>2. Keeps(kv, P)
    BY <1>1 DEF Keeps
  <1>3. P \cup Range(writeBuffer) \subseteq Held
    BY DEF Held
  <1> HIDE DEF P
  <1>4. ASSUME NEW Q \in SUBSET Held, NEW e, Keeps(e, Q)
        PROVE  Keeps(e, Held)
    BY <1>4 DEF Keeps
  <1>5. CASE d = kv
    BY <1>2, <1>3, <1>4, <1>5
  <1>6. CASE WriteIsFull /\ d \in Range(AppendStores(kv, diskPageHead, diskSize))
    <2>1. writeBuffer \in Page
      <3>1. Len(writeBuffer) # 0
        BY <1>6, CacheAssumption DEF WriteIsFull
      <3>2. writeBuffer # << >>
        BY <3>1
      <3> QED BY <3>2, BufferIsPage
    <2>2. Keeps(d, P \cup Range(writeBuffer))
      BY <1>1, <1>2, <1>6, <2>1, AppendKeeps
    <2> QED BY <1>3, <1>4, <2>2
  <1>7. CASE diskSize > 0 /\ d \in Range(DeleteStores(kv, diskPageHead, diskSize))
    <2>1. diskSize \in 1..MaxDiskPage
      BY <1>1, <1>7, CacheAssumption
    <2>2. Keeps(d, P)
      BY <1>1, <1>2, <1>7, <2>1, DeleteKeeps
    <2> QED BY <1>3, <1>4, <2>2
  <1>8. CASE d = EmptyStore
    BY <1>8, EmptyKeeps
  <1>9. CASE d \in Range(FlushStores)
    BY <1>9, FlushKeeps
  <1> QED BY <1>5, <1>6, <1>7, <1>8, <1>9 DEF StoresInFlight

\* Nothing is in memory, and the store knows all that the cache has.
Down == readBuffer = << >> /\ writeBuffer = << >>

LEMMA DownKeepsParts ==
    ASSUME NEW n \in Nat, Parts(n), Keeps(kv', Held), Fresh, UNCHANGED <<popped, overflowed>>
    PROVE  Parts(n)' /\ Down'
  <1>1. /\ kv' \in Stores /\ PagesApart(kv'.page) /\ Within(kv'.page) \subseteq Held
        /\ popped' = popped /\ overflowed' = overflowed
    BY DEF Keeps
  <1>2. /\ readBuffer' = << >> /\ writeBuffer' = << >> /\ diskSize' = 0
        /\ diskPageHead' = 0 /\ diskPageTail' = 0 /\ CacheLength' = 0
    BY DEF Fresh
  <1>3. IsInjective(<< >>) /\ << >> \in Seq(Items) /\ Range(<< >>) = {} /\ Len(<< >>) = 0
    BY DEF IsInjective, Range
  <1>4. 0 <= BufferPageSize /\ 0 \in 0..MaxDiskPage /\ 0 \in Slots /\ 0 \in Int
    BY CacheAssumption DEF Slots
  <1>5. popped \subseteq Items /\ overflowed \subseteq Items /\ popped \cap Held = {}
        /\ Held \subseteq 1..n /\ popped \subseteq 1..n
    BY DEF Parts, CacheTypes, Apart, UpTo
  <1>6. CacheTypes'
    BY <1>1, <1>2, <1>3, <1>4, <1>5 DEF CacheTypes
  <1>7. Held' = Within(kv'.page)
    BY <1>2, <1>3 DEF Held
  <1>8. Apart'
    BY <1>1, <1>2, <1>3, <1>5, <1>7 DEF Apart
  <1>9. UpTo(n)'
    BY <1>1, <1>5, <1>7 DEF UpTo
  <1> QED BY <1>2, <1>6, <1>8, <1>9 DEF Parts, Down

\* A stop and a crash leave the store apart.
LEMMA EndKeepsParts ==
    ASSUME NEW n \in Nat, Parts(n), Flush \/ CrashCache
    PROVE  Parts(n)' /\ Down'
  <1>1. CacheTypes /\ Apart
    BY DEF Parts
  <1>2. Fresh /\ UNCHANGED <<popped, overflowed>>
    BY DEF Flush, CrashCache
  <1>3. Keeps(kv', Held)
    <2>1. CASE Flush
      <3>1. kv' = EmptyStore \/ kv' = Last(FlushStores)
        BY <2>1 DEF Flush
      <3> QED BY <1>1, <3>1, EmptyKeeps, FlushKeeps
    <2>2. CASE CrashCache
      <3>1. kv' \in StoresInFlight
        BY <2>2 DEF CrashCache
      <3>2. \A d \in StoresInFlight : Keeps(d, Held)
        BY <1>1, InFlightKeeps
      <3> QED BY <3>1, <3>2
    <2> QED BY <2>1, <2>2
  <1> QED BY <1>2, <1>3, DownKeepsParts

LEMMA StartKeepsParts ==
    ASSUME NEW n \in Nat, Parts(n), Down, InitStore
    PROVE  Parts(n)' /\ Ring'
  <1>1. /\ kv \in Stores /\ PagesApart(kv.page) /\ popped \subseteq Items
        /\ overflowed \subseteq Items /\ popped \cap Held = {}
        /\ Held \subseteq 1..n /\ popped \subseteq 1..n /\ Within(kv.page) \subseteq Held
    BY DEF Parts, CacheTypes, Apart, UpTo, Held
  <1>2. /\ kv.size \in 0..MaxDiskPage /\ kv.head \in Slots /\ kv.cacheLength \in Int
    BY <1>1, StoreFields
  <1>3. /\ readBuffer' = << >> /\ writeBuffer' = << >>
        /\ kv' = (IF CleanCacheAtStop THEN EmptyStore ELSE kv)
        /\ popped' = popped /\ overflowed' = overflowed
    BY DEF InitStore
  <1>4. /\ kv' \in Stores /\ PagesApart(kv'.page) /\ Within(kv'.page) \subseteq Held
    BY <1>1, <1>3, EmptyKeeps DEF Keeps
  <1>5. 0 <= BufferPageSize /\ 0 \in 0..MaxDiskPage /\ 0 \in Slots /\ 0 \in Int
    BY CacheAssumption DEF Slots
  <1>6. IsInjective(<< >>) /\ << >> \in Seq(Items) /\ Range(<< >>) = {} /\ Len(<< >>) = 0
    BY DEF IsInjective, Range
  <1>7. /\ diskSize' \in 0..MaxDiskPage /\ diskPageHead' \in Slots /\ diskPageTail' \in Slots
        /\ CacheLength' \in Int /\ Ring'
    <2>1. CASE CleanCacheAtStop \/ kv.size = 0
      <3>1. diskSize' = 0 /\ diskPageHead' = 0 /\ diskPageTail' = 0 /\ CacheLength' = 0
        BY <2>1 DEF InitStore
      <3>2. kv'.size = 0
        BY <1>3, <2>1, EmptyKeeps
      <3>3. Slot(0, 0) = 0
        BY <1>5, SlotFacts
      <3> QED BY <1>5, <3>1, <3>2, <3>3 DEF Ring
    <2>2. CASE ~(CleanCacheAtStop \/ kv.size = 0)
      <3>1. /\ diskSize' = kv.size /\ diskPageHead' = kv.head
            /\ diskPageTail' = Slot(kv.head, kv.size) /\ CacheLength' = kv.cacheLength
            /\ kv' = kv
        BY <1>3, <2>2 DEF InitStore
      <3>2. Slot(kv.head, kv.size) \in Slots
        BY <1>2, SlotIs
      <3> QED BY <1>2, <3>1, <3>2 DEF Ring
    <2> QED BY <2>1, <2>2
  <1>8. CacheTypes'
    BY <1>1, <1>3, <1>4, <1>5, <1>6, <1>7 DEF CacheTypes
  <1>9. Held' = Within(kv'.page)
    BY <1>3, <1>6 DEF Held
  <1>10. Apart'
    BY <1>1, <1>3, <1>4, <1>6, <1>9 DEF Apart
  <1>11. UpTo(n)'
    BY <1>1, <1>3, <1>4, <1>9 DEF UpTo
  <1> QED BY <1>7, <1>8, <1>10, <1>11 DEF Parts

-----------------------------------------------------------------------------
(* The ring of pages as one sequence of items.                             *)

\* A page that is written behind the last.
LEMMA RingPut ==
    ASSUME NEW k, k.page \in PageMap, NEW l, NEW h \in Slots, NEW n \in 0..(MaxDiskPage - 1),
           NEW p \in Page, l.page = Put(k.page, Slot(h, n), p)
    PROVE  OnDisk(l, h, n + 1) = Cat(OnDisk(k, h, n), p)
  <1>1. MaxDiskPage \in Nat \ {0, 1} /\ n \in Nat /\ n \in 0..MaxDiskPage
    BY CacheAssumption
  <1>2. Slot(h, n) \in Slots
    BY <1>1, SlotIs
  <1>3. /\ l.page \in PageMap /\ DOMAIN l.page = DOMAIN k.page \cup {Slot(h, n)}
        /\ \A s \in DOMAIN k.page \ {Slot(h, n)} : l.page[s] = k.page[s]
        /\ l.page[Slot(h, n)] = p
    <2> DEFINE m == k.page
               slot == Slot(h, n)
    <2>1. m \in PageMap /\ slot \in Slots /\ l.page = Put(m, slot, p)
      BY <1>2
    <2> HIDE DEF m, slot
    <2>2. Put(m, slot, p) \in PageMap
      BY <2>1, PutIs
    <2>3. DOMAIN Put(m, slot, p) = DOMAIN m \cup {slot}
      BY <2>1, PutIs
    <2>4. \A s \in DOMAIN m \ {slot} : Put(m, slot, p)[s] = m[s]
      BY DEF Put
    <2>5. Put(m, slot, p)[slot] = p
      BY DEF Put
    <2> QED BY <2>1, <2>2, <2>3, <2>4, <2>5 DEF m, slot
  <1>4. ASSUME NEW i \in 0..(n - 1) PROVE Slot(h, i) # Slot(h, n)
    <2>1. i \in 0..(MaxDiskPage - 1) /\ i # n
      BY <1>1
    <2> QED BY <2>1, SlotFacts
  <1>5. ASSUME NEW i \in 0..(n - 1) PROVE PageAt(k, Slot(h, i)) = PageAt(l, Slot(h, i))
    BY <1>3, <1>4 DEF PageAt
  <1>6. OnDisk(k, h, n) = OnDisk(l, h, n)
    BY <1>1, <1>5, OnDiskSame
  <1>7. OnDisk(l, h, n + 1) = OnDisk(l, h, n) \o PageAt(l, Slot(h, n))
    BY <1>1, <1>3, OnDiskGrows
  <1>8. PageAt(l, Slot(h, n)) = p
    BY <1>3 DEF PageAt
  <1> QED BY <1>6, <1>7, <1>8 DEF Cat

\* A page that is taken from the head.
LEMMA RingDrop ==
    ASSUME NEW k, k.page \in PageMap, NEW l, NEW h \in Slots, NEW n \in 1..MaxDiskPage,
           l.page = Drop(k.page, h)
    PROVE  OnDisk(k, h, n) = Cat(PageAt(k, h), OnDisk(l, Slot(h, 1), n - 1))
  <1>1. MaxDiskPage \in Nat \ {0, 1} /\ n - 1 \in Nat /\ n \in Nat
    BY CacheAssumption
  <1>2. /\ l.page \in PageMap /\ DOMAIN l.page = DOMAIN k.page \ {h}
        /\ \A s \in DOMAIN k.page \ {h} : l.page[s] = k.page[s]
    <2> DEFINE m == k.page
    <2>1. m \in PageMap /\ l.page = Drop(m, h)
      OBVIOUS
    <2> HIDE DEF m
    <2>2. /\ Drop(m, h) \in PageMap /\ DOMAIN Drop(m, h) = DOMAIN m \ {h}
          /\ \A s \in DOMAIN m \ {h} : Drop(m, h)[s] = m[s]
      BY <2>1, DropIs
    <2> QED BY <2>1, <2>2 DEF m
  <1>3. ASSUME NEW i \in 0..(n - 2) PROVE Slot(h, i + 1) # h /\ Slot(Slot(h, 1), i) = Slot(h, i + 1)
    <2>1. /\ i \in 0..(MaxDiskPage - 1) /\ i + 1 \in 0..(MaxDiskPage - 1) /\ i + 1 # 0
          /\ 0 \in 0..(MaxDiskPage - 1)
      BY <1>1
    <2>2. Slot(h, 0) = h /\ Slot(h, i + 1) # Slot(h, 0)
      BY <2>1, SlotFacts
    <2>3. Slot(Slot(h, 1), i) = Slot(h, i + 1)
      BY <2>1, SlotFacts
    <2> QED BY <2>2, <2>3
  <1>4. ASSUME NEW i \in 0..((n - 1) - 1)
        PROVE  PageAt(k, Slot(Slot(h, 1), i)) = PageAt(l, Slot(Slot(h, 1), i))
    <2>1. i \in 0..(n - 2)
      BY <1>1
    <2> QED BY <1>2, <1>3, <2>1 DEF PageAt
  <1>5. OnDisk(k, Slot(h, 1), n - 1) = OnDisk(l, Slot(h, 1), n - 1)
    BY <1>1, <1>4, OnDiskSame
  <1>6. OnDisk(k, h, n) = PageAt(k, h) \o OnDisk(k, Slot(h, 1), n - 1)
    BY OnDiskFirst
  <1> QED BY <1>5, <1>6 DEF Cat

LEMMA RingDropIs ==
    ASSUME NEW k, k.page \in PageMap, NEW l, NEW h \in Slots, NEW n \in 1..MaxDiskPage,
           l.page = Drop(k.page, h)
    PROVE  \A i \in 0..(n - 2) : Slot(h, i + 1) \in DOMAIN k.page =>
                  /\ Slot(h, i + 1) \in DOMAIN l.page
                  /\ l.page[Slot(h, i + 1)] = k.page[Slot(h, i + 1)]
  <1>1. MaxDiskPage \in Nat \ {0, 1} /\ n - 1 \in Nat /\ n \in Nat
    BY CacheAssumption
  <1>2. /\ l.page \in PageMap /\ DOMAIN l.page = DOMAIN k.page \ {h}
        /\ \A s \in DOMAIN k.page \ {h} : l.page[s] = k.page[s]
    <2> DEFINE m == k.page
    <2>1. m \in PageMap /\ l.page = Drop(m, h)
      OBVIOUS
    <2> HIDE DEF m
    <2>2. /\ Drop(m, h) \in PageMap /\ DOMAIN Drop(m, h) = DOMAIN m \ {h}
          /\ \A s \in DOMAIN m \ {h} : Drop(m, h)[s] = m[s]
      BY <2>1, DropIs
    <2> QED BY <2>1, <2>2 DEF m
  <1>3. ASSUME NEW i \in 0..(n - 2) PROVE Slot(h, i + 1) # h /\ Slot(Slot(h, 1), i) = Slot(h, i + 1)
    <2>1. /\ i \in 0..(MaxDiskPage - 1) /\ i + 1 \in 0..(MaxDiskPage - 1) /\ i + 1 # 0
          /\ 0 \in 0..(MaxDiskPage - 1)
      BY <1>1
    <2>2. Slot(h, 0) = h /\ Slot(h, i + 1) # Slot(h, 0)
      BY <2>1, SlotFacts
    <2>3. Slot(Slot(h, 1), i) = Slot(h, i + 1)
      BY <2>1, SlotFacts
    <2> QED BY <2>2, <2>3
  <1>4. ASSUME NEW i \in 0..(n - 2), Slot(h, i + 1) \in DOMAIN k.page
        PROVE  /\ Slot(h, i + 1) \in DOMAIN l.page
               /\ l.page[Slot(h, i + 1)] = k.page[Slot(h, i + 1)]
    BY <1>2, <1>3, <1>4
  <1> QED BY <1>4

\* The pages of the ring are there and full, as long as nothing has stopped the run.
Filled(k, h, n) ==
    \A i \in 0..(n - 1) : /\ Slot(h, i) \in DOMAIN k.page
                          /\ Len(k.page[Slot(h, i)]) = BufferPageSize
Full == Filled(kv, diskPageHead, diskSize) /\ CacheLength = Len(Contents)

LEMMA FilledPut ==
    ASSUME NEW k, k.page \in PageMap, NEW l, NEW h \in Slots, NEW n \in 0..(MaxDiskPage - 1),
           NEW p \in Page, l.page = Put(k.page, Slot(h, n), p), Filled(k, h, n),
           Len(p) = BufferPageSize
    PROVE  Filled(l, h, n + 1)
  <1> SUFFICES ASSUME NEW i \in 0..((n + 1) - 1)
               PROVE  /\ Slot(h, i) \in DOMAIN l.page
                      /\ Len(l.page[Slot(h, i)]) = BufferPageSize
    BY DEF Filled
  <1>1. n \in Nat
    BY CacheAssumption
  <1>2. CASE i = n
    <2> DEFINE m == k.page
               slot == Slot(h, n)
    <2>1. slot \in DOMAIN Put(m, slot, p) /\ Put(m, slot, p)[slot] = p
      BY DEF Put
    <2> HIDE DEF m
    <2>2. l.page = Put(m, slot, p)
      BY DEF m
    <2> QED BY <1>2, <2>1, <2>2
  <1>3. CASE i # n
    <2>1. i \in 0..(n - 1)
      BY <1>1, <1>3
    <2>2. Slot(h, i) \in DOMAIN k.page /\ Len(k.page[Slot(h, i)]) = BufferPageSize
      BY <2>1 DEF Filled
    <2>3. Slot(h, i) \in DOMAIN l.page /\ l.page[Slot(h, i)] = k.page[Slot(h, i)]
      <3> DEFINE m == k.page
                 slot == Slot(h, n)
                 s == Slot(h, i)
      <3>1. s # slot
        <4>1. i \in 0..(MaxDiskPage - 1) /\ n \in 0..(MaxDiskPage - 1) /\ i # n
          BY <1>1, <1>3, <2>1, CacheAssumption
        <4> QED BY <4>1, SlotFacts
      <3>2. s \in DOMAIN m /\ l.page = Put(m, slot, p)
        BY <2>2
      <3> HIDE DEF m, slot, s
      <3>3. s \in DOMAIN Put(m, slot, p) /\ Put(m, slot, p)[s] = m[s]
        BY <3>1, <3>2 DEF Put
      <3> QED BY <3>2, <3>3 DEF m, s
    <2> QED BY <2>2, <2>3
  <1> QED BY <1>2, <1>3

LEMMA FilledDrop ==
    ASSUME NEW k, k.page \in PageMap, NEW l, NEW h \in Slots, NEW n \in 1..MaxDiskPage,
           l.page = Drop(k.page, h), Filled(k, h, n)
    PROVE  Filled(l, Slot(h, 1), n - 1)
  <1> SUFFICES ASSUME NEW i \in 0..((n - 1) - 1)
               PROVE  /\ Slot(Slot(h, 1), i) \in DOMAIN l.page
                      /\ Len(l.page[Slot(Slot(h, 1), i)]) = BufferPageSize
    BY DEF Filled
  <1>1. i \in 0..(n - 2) /\ i + 1 \in 0..(n - 1)
    BY CacheAssumption
  <1>2. Slot(h, i + 1) \in DOMAIN k.page /\ Len(k.page[Slot(h, i + 1)]) = BufferPageSize
    BY <1>1 DEF Filled
  <1>3. /\ Slot(Slot(h, 1), i) = Slot(h, i + 1) /\ Slot(h, i + 1) \in DOMAIN l.page
        /\ l.page[Slot(h, i + 1)] = k.page[Slot(h, i + 1)]
    <2>1. k.page \in PageMap /\ l.page = Drop(k.page, h)
      OBVIOUS
    <2>2. \A j \in 0..(n - 2) : Slot(Slot(h, 1), j) = Slot(h, j + 1)
      <3>1. MaxDiskPage \in Nat \ {0, 1}
        BY CacheAssumption
      <3>2. \A j \in 0..(n - 2) : j \in 0..(MaxDiskPage - 1)
        BY <3>1
      <3> QED BY <3>2, SlotFacts
    <2>3. \A j \in 0..(n - 2) : Slot(h, j + 1) \in DOMAIN k.page =>
                 /\ Slot(h, j + 1) \in DOMAIN l.page
                 /\ l.page[Slot(h, j + 1)] = k.page[Slot(h, j + 1)]
      BY <2>1, RingDropIs
    <2> QED BY <1>1, <1>2, <2>2, <2>3
  <1> QED BY <1>2, <1>3

LEMMA FilledLength ==
    ASSUME NEW k, k.page \in PageMap, NEW h, NEW n \in Nat, Filled(k, h, n)
    PROVE  Len(OnDisk(k, h, n)) = n * BufferPageSize
  <1> DEFINE p == Pages(k, h, n)
  <1>1. /\ p \in Seq(Seq(Items)) /\ Len(p) = n /\ OnDisk(k, h, n) = FlattenSeq(p)
        /\ \A i \in 1..n : p[i] = PageAt(k, Slot(h, i - 1))
    BY PagesType
  <1>2. ASSUME NEW i \in 1..n PROVE Len(p[i]) = BufferPageSize
    <2>1. i - 1 \in 0..(n - 1)
      OBVIOUS
    <2>2. PageAt(k, Slot(h, i - 1)) = k.page[Slot(h, i - 1)]
          /\ Len(k.page[Slot(h, i - 1)]) = BufferPageSize
      BY <2>1 DEF Filled, PageAt
    <2> QED BY <1>1, <2>2
  <1> HIDE DEF p
  <1>3. Len(FlattenSeq(p)) = Len(p) * BufferPageSize
    BY <1>1, <1>2, CacheAssumption, FlattenLength
  <1> QED BY <1>1, <1>3

LEMMA ContentsType ==
    ASSUME CacheTypes
    PROVE  /\ Contents \in Seq(Items) /\ OnDisk(kv, diskPageHead, diskSize) \in Seq(Items)
           /\ readBuffer \in Seq(Items) /\ writeBuffer \in Seq(Items)
           /\ diskSize \in Nat /\ diskPageHead \in Slots /\ kv.page \in PageMap
           /\ Len(Contents) \in Nat
  <1>1. /\ readBuffer \in Seq(Items) /\ writeBuffer \in Seq(Items) /\ kv.page \in PageMap
        /\ diskSize \in 0..MaxDiskPage /\ MaxDiskPage \in Nat \ {0, 1} /\ diskPageHead \in Slots
    BY BufferIsPage DEF CacheTypes
  <1>2. diskSize \in Nat
    BY <1>1
  <1>3. OnDisk(kv, diskPageHead, diskSize) \in Seq(Items)
    BY <1>1, <1>2, PagesType
  <1>4. Contents \in Seq(Items)
    BY <1>1, <1>3, ConcatProperties DEF Contents
  <1> QED BY <1>1, <1>2, <1>3, <1>4, LenProperties

-----------------------------------------------------------------------------
(* One queue: read buffer, ring and write buffer.                          *)

LEMMA Behind ==
    ASSUME NEW S, NEW p \in Seq(S), NEW q \in Seq(S), NEW r \in Seq(S), NEW x \in S
    PROVE  /\ p \o q \o Append(r, x) = Append(p \o q \o r, x)
           /\ p \o q \in Seq(S) /\ p \o q \o r \in Seq(S)
           /\ Len(p \o q \o r) = Len(p) + Len(q) + Len(r)
           /\ Len(Append(r, x)) = Len(r) + 1 /\ Append(r, x) \in Seq(S)
           /\ p \o (q \o r) \o <<x>> = Append(p \o q \o r, x)
           /\ << >> \o p = p
           /\ p \o (q \o r) = (p \o q) \o r
  <1>1. p \o q \in Seq(S) /\ q \o r \in Seq(S) /\ p \o q \o r \in Seq(S) /\ << >> \in Seq(S)
        /\ Append(r, x) \in Seq(S)
    OBVIOUS
  <1>2. p \o (q \o r) = (p \o q) \o r
    <2>1. Cat(Cat(p, q), r) = Cat(p, Cat(q, r))
      BY CatAssociative
    <2> QED BY <2>1 DEF Cat
  <1>3. ASSUME NEW s \in Seq(S) PROVE s \o <<x>> = Append(s, x)
    OBVIOUS
  <1>4. p \o q \o Append(r, x) = Append(p \o q \o r, x)
    <2> DEFINE pq == p \o q
    <2> DEFINE xs == <<x>>
    <2>1. pq \in Seq(S)
      BY <1>1
    <2>6. xs \in Seq(S)
      OBVIOUS
    <2>2. Append(r, x) = r \o <<x>>
      BY <1>3
    <2> HIDE DEF pq
    <2>3. (pq \o r) \o xs = pq \o (r \o xs)
      <3> HIDE DEF xs
      <3>1. Cat(Cat(pq, r), xs) = Cat(pq, Cat(r, xs))
        BY <2>1, <2>6, CatAssociative
      <3> QED BY <3>1 DEF Cat
    <2>4. pq \o r \in Seq(S)
      BY <2>1
    <2>5. (pq \o r) \o <<x>> = Append(pq \o r, x)
      BY <1>3, <2>4
    <2> QED BY <2>2, <2>3, <2>5 DEF pq
  <1>5. p \o (q \o r) \o <<x>> = Append(p \o q \o r, x)
    BY <1>1, <1>2, <1>3
  <1>6. << >> \o p = p
    OBVIOUS
  <1>7. /\ Len(p \o q \o r) = Len(p) + Len(q) + Len(r)
        /\ Len(Append(r, x)) = Len(r) + 1
    OBVIOUS
  <1> QED BY <1>1, <1>2, <1>4, <1>5, <1>6, <1>7

\* AddCache appends, and gives up the oldest items only when the disk is full: those of the
\* read buffer and one page.
LEMMA AddIsQueued ==
    ASSUME CacheTypes, Ring, Full, NEW x \in Items, AddCache(x)
    PROVE  /\ Full'
           /\ \/ Contents' = Append(Contents, x) /\ overflowed' = overflowed
              \/ \E gone, rest \in Seq(Items) :
                     /\ Contents = gone \o rest /\ Contents' = Append(rest, x)
                     /\ overflowed' = overflowed \cup Range(gone)
                     /\ Len(gone) \in 1..(Len(Contents) - (MaxDiskPage + 1) * BufferPageSize
                                              + BufferPageSize)
                     /\ Len(Contents) >= (MaxDiskPage + 1) * BufferPageSize
  <1> DEFINE disk == OnDisk(kv, diskPageHead, diskSize)
             disk2 == OnDisk(kv', diskPageHead', diskSize')
             B == BufferPageSize
             M == MaxDiskPage
             R == readBuffer
             W == writeBuffer
  <1>1. /\ kv \in Stores /\ kv.page \in PageMap
        /\ R \in Seq(Items) /\ Len(R) \in Nat /\ Len(R) <= B
        /\ W \in Seq(Items) /\ Len(W) \in Nat /\ Len(W) <= B
        /\ diskSize \in 0..M /\ diskPageHead \in Slots /\ diskPageTail \in Slots
        /\ CacheLength \in Int /\ B \in Nat \ {0} /\ M \in Nat \ {0, 1}
        /\ diskSize \in Nat /\ disk \in Seq(Items)
    BY ContentsType, BufferIsPage DEF CacheTypes
  <1>2. /\ diskPageTail = Slot(diskPageHead, diskSize)
        /\ Filled(kv, diskPageHead, diskSize) /\ CacheLength = Len(Contents)
    BY DEF Ring, Full
  <1>3. Len(disk) = diskSize * B
    BY <1>1, <1>2, FilledLength
  <1>4. Contents = R \o disk \o W /\ Contents' = readBuffer' \o disk2 \o writeBuffer'
    BY DEF Contents
  <1>5. Len(Contents) = Len(R) + Len(disk) + Len(W)
    <2> HIDE DEF disk
    <2> QED BY <1>1, <1>4, Behind
  <1>6. CASE AddToBuffer(x)
    <2>1. /\ writeBuffer' = Append(W, x) /\ CacheLength' = CacheLength + 1
          /\ UNCHANGED <<readBuffer, diskSize, diskPageHead, kv, overflowed>>
      BY <1>6 DEF AddToBuffer
    <2>2. disk2 = disk /\ Filled(kv', diskPageHead', diskSize')
      BY <1>2, <2>1
    <2> HIDE DEF disk, disk2
    <2>3. Contents' = Append(Contents, x) /\ Len(Contents') = Len(Contents) + 1
      <3>1. Contents' = R \o disk \o Append(W, x)
        BY <1>4, <2>1, <2>2
      <3>2. R \o disk \o Append(W, x) = Append(R \o disk \o W, x) /\ R \o disk \o W \in Seq(Items)
        BY <1>1, Behind
      <3> HIDE DEF R, W
      <3>3. Contents' = Append(Contents, x) /\ Contents \in Seq(Items)
        BY <1>4, <3>1, <3>2
      <3> QED BY <3>3, AppendProperties
    <2>4. Full'
      BY <1>2, <2>1, <2>2, <2>3 DEF Full
    <2> QED BY <2>1, <2>3, <2>4
  <1>7. ASSUME WriteIsFull
        PROVE  W \in Page /\ Len(W) = B /\ writeBuffer \in Page
    <2>1. Len(W) # 0
      BY <1>1, <1>7 DEF WriteIsFull
    <2>2. W # << >>
      BY <2>1
    <2> QED BY <1>7, <2>2, BufferIsPage DEF WriteIsFull
  <1>8. CASE AddToDisk(x)
    <2> DEFINE a == AppendStores(kv, diskPageHead, diskSize)
    <2>1. /\ WriteIsFull /\ diskSize # M /\ kv' = Last(a)
          /\ diskSize' = diskSize + 1 /\ writeBuffer' = <<x>> /\ CacheLength' = CacheLength + 1
          /\ UNCHANGED <<readBuffer, diskPageHead, overflowed>>
      BY <1>8 DEF AddToDisk, DiskIsFull
    <2>2. W \in Page /\ Len(W) = B
      BY <1>7, <2>1
    <2>3. diskSize \in 0..(M - 1)
      BY <1>1, <2>1
    <2>4. Last(a).page = Put(kv.page, diskPageTail, writeBuffer)
      <3>1. writeBuffer \in Page
        BY <2>2
      <3>2. Last(a).page = Put(AppendBase(kv, diskPageHead, diskSize), diskPageTail, writeBuffer)
        BY <1>1, <3>1, AppendIs
      <3> QED BY <2>1, <3>2 DEF AppendBase
    <2> HIDE DEF a
    <2>5. kv'.page = Put(kv.page, Slot(diskPageHead, diskSize), W)
      BY <1>2, <2>1, <2>4
    <2>6. OnDisk(kv', diskPageHead, diskSize + 1) = disk \o W
      <3>1. kv.page \in PageMap
        BY <1>1
      <3>2. diskPageHead \in Slots
        BY <1>1
      <3>3. writeBuffer \in Page
        BY <2>2
      <3>4. OnDisk(kv', diskPageHead, diskSize + 1) = Cat(OnDisk(kv, diskPageHead, diskSize), writeBuffer)
        BY <2>3, <2>5, <3>1, <3>2, <3>3, RingPut
      <3> QED BY <3>4 DEF Cat
    <2>7. Filled(kv', diskPageHead, diskSize + 1)
      BY <1>1, <1>2, <2>2, <2>3, <2>5, FilledPut
    <2>8. disk2 = disk \o W /\ Filled(kv', diskPageHead', diskSize')
      BY <2>1, <2>6, <2>7
    <2> HIDE DEF disk, disk2
    <2>9. Contents' = Append(Contents, x) /\ Len(Contents') = Len(Contents) + 1
      <3>1. Contents' = R \o (disk \o W) \o <<x>>
        BY <1>4, <2>1, <2>8
      <3>2. R \in Seq(Items) /\ disk \in Seq(Items) /\ W \in Seq(Items)
        BY <1>1
      <3> HIDE DEF R, W
      <3> DEFINE c == (R \o disk) \o W
      <3>4. R \o (disk \o W) = c
        <4>1. Cat(R, Cat(disk, W)) = Cat(Cat(R, disk), W)
          BY <3>2, CatAssociative
        <4> QED BY <4>1 DEF Cat
      <3>5. c \in Seq(Items)
        <4> DEFINE rd == R \o disk
        <4>1. rd \in Seq(Items)
          BY <3>2, ConcatProperties
        <4> HIDE DEF rd
        <4>2. rd \o W \in Seq(Items)
          BY <3>2, <4>1, ConcatProperties
        <4> QED BY <4>2 DEF rd
      <3>6. Contents' = c \o <<x>> /\ Contents = c
        BY <1>4, <3>1, <3>4
      <3> HIDE DEF c
      <3>7. c \o <<x>> = Append(c, x)
        BY <3>5, AppendIsConcat
      <3>3. Contents' = Append(Contents, x) /\ Contents \in Seq(Items)
        BY <3>5, <3>6, <3>7
      <3> QED BY <3>3, AppendProperties
    <2>10. Full'
      BY <1>2, <2>1, <2>8, <2>9 DEF Full
    <2> QED BY <2>1, <2>9, <2>10
  <1>9. CASE AddWhenFull(x)
    <2> DEFINE a == AppendStores(kv, diskPageHead, diskSize)
               next == Slot(diskPageHead, 1)
               without == [kv EXCEPT !.page = Drop(kv.page, diskPageHead)]
               first == PageAt(kv, diskPageHead)
               others == OnDisk(without, next, M - 1)
    <2>1. /\ WriteIsFull /\ diskSize = M /\ kv' = Last(a) /\ diskPageHead' = next
          /\ diskSize' = diskSize /\ readBuffer' = << >> /\ writeBuffer' = <<x>>
          /\ CacheLength' = CacheLength - BufferPageSize - Len(readBuffer) + 1
          /\ overflowed' = overflowed \cup Range(readBuffer) \cup Range(first)
      BY <1>9 DEF AddWhenFull, DiskIsFull
    <2>2. W \in Page /\ Len(W) = B
      BY <1>7, <2>1
    <2>3. M - 1 \in 0..(M - 1) /\ M \in 1..M /\ (M - 1) + 1 = M /\ 1 \in 0..M
      BY <1>1
    <2>4. next \in Slots /\ Slot(next, M - 1) = diskPageTail
      <3>1. next \in Slots
        BY <1>1, <2>3, SlotIs
      <3>2. Slot(next, M - 1) = Slot(diskPageHead, (M - 1) + 1)
        BY <1>1, <2>3, SlotFacts
      <3> QED BY <1>2, <2>1, <2>3, <3>1, <3>2
    <2>5. without \in Stores /\ without.page = Drop(kv.page, diskPageHead)
          /\ without.page \in PageMap
      <3> DEFINE d == Drop(kv.page, diskPageHead)
      <3>1. d \in PageMap
        BY <1>1, DropIs
      <3> HIDE DEF d
      <3>2. [kv EXCEPT !.page = d] \in Stores /\ [kv EXCEPT !.page = d].page = d
        BY <1>1, <3>1, WithPage
      <3>3. without = [kv EXCEPT !.page = d]
        BY DEF d
      <3> HIDE DEF without
      <3>4. without \in Stores /\ without.page = d
        BY <3>2, <3>3
      <3> QED BY <3>1, <3>4 DEF d
    <2>6. Last(a).page = Put(without.page, diskPageTail, writeBuffer)
      <3>1. writeBuffer \in Page
        BY <2>2
      <3>2. Last(a).page = Put(AppendBase(kv, diskPageHead, diskSize), diskPageTail, writeBuffer)
        BY <1>1, <3>1, AppendIs
      <3> HIDE DEF a, without
      <3> QED BY <2>1, <2>5, <3>2 DEF AppendBase
    <2> HIDE DEF a, without, next
    <2>7. kv'.page = Put(without.page, Slot(next, M - 1), W)
      BY <2>1, <2>4, <2>6
    <2>8. OnDisk(kv, diskPageHead, M) = first \o OnDisk(without, Slot(diskPageHead, 1), M - 1)
      <3>1. kv.page \in PageMap
        BY <1>1
      <3>2. diskPageHead \in Slots
        BY <1>1
      <3>3. M \in 1..M
        BY <2>3
      <3>4. without.page = Drop(kv.page, diskPageHead)
        BY <2>5
      <3>5. OnDisk(kv, diskPageHead, MaxDiskPage) =
               Cat(PageAt(kv, diskPageHead), OnDisk(without, Slot(diskPageHead, 1), MaxDiskPage - 1))
        BY <3>1, <3>2, <3>3, <3>4, RingDrop
      <3> QED BY <3>5 DEF Cat
    <2>9. disk = first \o others
      BY <2>1, <2>8 DEF next
    <2>10. Filled(without, Slot(diskPageHead, 1), M - 1)
      <3>1. Filled(kv, diskPageHead, M)
        BY <1>2, <2>1
      <3> QED BY <1>1, <2>3, <2>5, <3>1, FilledDrop
    <2>11. Filled(without, next, M - 1)
      BY <2>10 DEF next
    <2>12. OnDisk(kv', next, (M - 1) + 1) = others \o W
      <3>1. without.page \in PageMap
        BY <2>5
      <3>2. next \in Slots
        BY <2>4
      <3>3. writeBuffer \in Page
        BY <2>2
      <3>4. MaxDiskPage - 1 \in 0..(MaxDiskPage - 1)
        BY <2>3
      <3>5. OnDisk(kv', next, (MaxDiskPage - 1) + 1)
               = Cat(OnDisk(without, next, MaxDiskPage - 1), writeBuffer)
        BY <2>7, <3>1, <3>2, <3>3, <3>4, RingPut
      <3> QED BY <3>5 DEF Cat
    <2>13. Filled(kv', next, (M - 1) + 1)
      BY <2>2, <2>3, <2>4, <2>5, <2>7, <2>11, FilledPut
    <2>14. disk2 = others \o W /\ Filled(kv', diskPageHead', diskSize')
      BY <2>1, <2>3, <2>12, <2>13
    <2>15. first \in Seq(Items) /\ others \in Seq(Items) /\ Len(others) = (M - 1) * B
      <3>1. M - 1 \in Nat
        BY <1>1
      <3>2. first \in Seq(Items)
        BY <1>1, PageAtType
      <3>3. others \in Seq(Items)
        BY <2>5, <3>1, PagesType
      <3>4. Len(others) = (M - 1) * B
        BY <2>5, <2>11, <3>1, FilledLength
      <3> QED BY <3>2, <3>3, <3>4
    <2>16. Len(first) = B
      <3>1. Slot(diskPageHead, 0) = diskPageHead /\ 0 \in 0..(diskSize - 1)
        BY <1>1, <2>1, SlotFacts
      <3> QED BY <1>2, <3>1 DEF Filled, PageAt
    <2> DEFINE gone == R \o first
               rest == others \o W
    <2> HIDE DEF disk, disk2, first, others
    <2>17. Contents = gone \o rest /\ gone \in Seq(Items) /\ rest \in Seq(Items)
      <3>1. gone \in Seq(Items) /\ rest \in Seq(Items)
        BY <1>1, <2>15, ConcatProperties
      <3>4. R \in Seq(Items)
        BY <1>1
      <3>5. W \in Seq(Items)
        BY <1>1
      <3>6. first \in Seq(Items)
        BY <2>15
      <3>7. others \in Seq(Items)
        BY <2>15
      <3>2. R \o (first \o others) = (R \o first) \o others
        <4>1. Cat(R, Cat(first, others)) = Cat(Cat(R, first), others)
          BY <3>4, <3>6, <3>7, CatAssociative
        <4> QED BY <4>1 DEF Cat
      <3>3. ((R \o first) \o others) \o W = (R \o first) \o (others \o W)
        <4> DEFINE p == R \o first
        <4>1. p \in Seq(Items)
          BY <3>1
        <4> HIDE DEF p
        <4>2. Cat(Cat(p, others), W) = Cat(p, Cat(others, W))
          BY <3>5, <3>7, <4>1, CatAssociative
        <4> QED BY <4>2 DEF Cat, p
      <3> QED BY <1>4, <2>9, <3>1, <3>2, <3>3
    <2>18. Contents' = Append(rest, x) /\ Len(Contents') = Len(rest) + 1
      <3>1. Contents' = << >> \o rest \o <<x>>
        BY <1>4, <2>1, <2>14
      <3> HIDE DEF rest
      <3>2. << >> \o rest = rest
        BY <2>17, Behind
      <3>3. rest \o <<x>> = Append(rest, x) /\ Len(Append(rest, x)) = Len(rest) + 1
        BY <2>17
      <3> QED BY <3>1, <3>2, <3>3
    <2>19. Len(gone) = Len(R) + B /\ Len(rest) = Len(others) + Len(W)
      <3>1. R \in Seq(Items) /\ W \in Seq(Items)
        BY <1>1
      <3>2. first \in Seq(Items) /\ others \in Seq(Items) /\ Len(first) = B
        BY <2>15, <2>16
      <3> HIDE DEF R, W, first, others
      <3>3. Len(R \o first) = Len(R) + Len(first)
        BY <3>1, <3>2, ConcatProperties
      <3>4. Len(others \o W) = Len(others) + Len(W)
        BY <3>1, <3>2, ConcatProperties
      <3> QED BY <3>2, <3>3, <3>4
    <2>20. Range(gone) = Range(R) \cup Range(first)
      BY <1>1, <2>15, RangeConcatenation
    <2>21. overflowed' = overflowed \cup Range(gone)
      BY <2>1, <2>20
    <2> HIDE DEF gone, rest
    <2>22. Len(Contents) = Len(R) + (M + 1) * B /\ Len(gone) = Len(R) + B
           /\ Len(rest) = (M - 1) * B + B
      <3>1. M * B \in Nat /\ (M + 1) * B = M * B + B
        BY <1>1
      <3> QED BY <1>1, <1>3, <1>5, <2>1, <2>2, <2>15, <2>19, <3>1
    <2>23. CacheLength' = Len(Contents')
      <3>1. (M - 1) * B + B = M * B /\ (M + 1) * B = M * B + B /\ M * B \in Nat
        BY <1>1
      <3>2. CacheLength' = Len(Contents) - B - Len(R) + 1
        BY <1>2, <2>1
      <3> QED BY <1>1, <2>18, <2>22, <3>1, <3>2
    <2>24. Full'
      BY <2>14, <2>23 DEF Full
    <2>25. /\ Len(gone) \in 1..(Len(Contents) - (M + 1) * B + B)
           /\ Len(Contents) >= (M + 1) * B
      <3>1. (M + 1) * B \in Nat
        BY <1>1
      <3> QED BY <1>1, <2>22, <3>1
    <2> QED BY <2>17, <2>18, <2>21, <2>24, <2>25
  <1> QED BY <1>6, <1>8, <1>9 DEF AddCache

LEMMA OnDiskNone ==
    ASSUME NEW k, k.page \in PageMap, NEW h
    PROVE  OnDisk(k, h, 0) = << >>
  <1>1. /\ Pages(k, h, 0) \in Seq(Seq(Items)) /\ Len(Pages(k, h, 0)) = 0
        /\ OnDisk(k, h, 0) = FlattenSeq(Pages(k, h, 0))
    BY PagesType
  <1> DEFINE p == Pages(k, h, 0)
  <1> HIDE DEF p
  <1>2. p = << >>
    <2>1. p \in Seq(Seq(Items)) /\ Len(p) = 0
      BY <1>1 DEF p
    <2> QED BY <2>1, EmptySeq
  <1> QED BY <1>1, <1>2, FlattenEmpty DEF p

LEMMA TakeFirst ==
    ASSUME NEW S, NEW p \in Seq(S), NEW r \in Seq(S), p # << >>
    PROVE  /\ Head(p \o r) = Head(p) /\ Tail(p \o r) = Tail(p) \o r
           /\ Len(Tail(p) \o r) = Len(p \o r) - 1 /\ p \o r # << >>
  OBVIOUS

LEMMA Empties ==
    ASSUME NEW S, NEW p \in Seq(S)
    PROVE  << >> \o p = p /\ p \o << >> = p /\ << >> \in Seq(S)
  BY ConcatEmptySeq

LEMMA ThreeParts ==
    ASSUME NEW S, NEW p \in Seq(S), NEW q \in Seq(S), NEW r \in Seq(S)
    PROVE  (p \o q) \o r = p \o (q \o r) /\ q \o r \in Seq(S) /\ p \o q \in Seq(S)
  <1>1. Cat(Cat(p, q), r) = Cat(p, Cat(q, r))
    BY CatAssociative
  <1> QED BY <1>1, ConcatProperties DEF Cat

\* PopCache takes from the first of the three that has something.
LEMMA PopIsTaken ==
    ASSUME CacheTypes, Ring, Full, PopCache
    PROVE  /\ PageToRead \in Seq(Items)
           /\ Filled(kv', diskPageHead', diskSize')
           /\ \E rest \in Seq(Items) :
                 /\ Contents = PageToRead \o rest /\ Contents' = readBuffer' \o rest
                 /\ PageToRead = << >> => rest = << >>
  <1> DEFINE disk == OnDisk(kv, diskPageHead, diskSize)
             disk2 == OnDisk(kv', diskPageHead', diskSize')
             page == PageToRead
             R == readBuffer
             W == writeBuffer
  <1>1. /\ kv \in Stores /\ kv.page \in PageMap
        /\ diskSize \in 0..MaxDiskPage /\ diskPageHead \in Slots
        /\ MaxDiskPage \in Nat \ {0, 1} /\ diskSize \in Nat
    BY ContentsType, BufferIsPage DEF CacheTypes
  <1>2. R \in Seq(Items)
    BY ContentsType
  <1>3. W \in Seq(Items)
    BY ContentsType
  <1>4. disk \in Seq(Items)
    BY ContentsType
  <1>5. Filled(kv, diskPageHead, diskSize)
    BY DEF Full
  <1>6. Contents = R \o disk \o W /\ Contents' = readBuffer' \o disk2 \o writeBuffer'
    BY DEF Contents
  <1>7. readBuffer' = IF page = << >> THEN << >> ELSE Tail(page)
    BY DEF PopCache, TakeItem
  <1>8. ASSUME page \in Seq(Items) PROVE readBuffer' \in Seq(Items)
    <2>1. CASE page = << >>
      <3>1. << >> \in Seq(Items)
        OBVIOUS
      <3> QED BY <1>7, <2>1, <3>1
    <2>2. CASE page # << >>
      <3> HIDE DEF page
      <3>1. Tail(page) \in Seq(Items)
        BY <1>8, <2>2, TailElements
      <3> QED BY <1>7, <2>2, <3>1
    <2> QED BY <2>1, <2>2
  <1>9. CASE PopFromBuffer
    <2>1. page = R /\ R # << >> /\ UNCHANGED <<writeBuffer, diskSize, diskPageHead, kv>>
      BY <1>9 DEF PopFromBuffer, PageToRead
    <2>2. disk2 = disk /\ Filled(kv', diskPageHead', diskSize')
      BY <1>5, <2>1
    <2>3. readBuffer' \in Seq(Items)
      BY <1>2, <1>8, <2>1
    <2> HIDE DEF disk, disk2, page, R, W
    <2>4. (R \o disk) \o W = R \o (disk \o W) /\ disk \o W \in Seq(Items)
      BY <1>2, <1>3, <1>4, ThreeParts
    <2>5. (readBuffer' \o disk) \o W = readBuffer' \o (disk \o W)
      BY <1>3, <1>4, <2>3, ThreeParts
    <2>6. Contents = page \o (disk \o W)
      BY <1>6, <2>1, <2>4
    <2>7. Contents' = readBuffer' \o (disk \o W)
      BY <1>6, <2>1, <2>2, <2>5 DEF W
    <2> QED BY <1>2, <2>1, <2>2, <2>4, <2>6, <2>7 DEF page, R
  <1>10. CASE PopFromDisk
    <2> DEFINE a == DeleteStores(kv, diskPageHead, diskSize)
               next == Slot(diskPageHead, 1)
               others == OnDisk(kv', next, diskSize - 1)
    <2>1. R = << >> /\ diskSize > 0
      BY <1>10 DEF PopFromDisk
    <2>2. diskSize \in 1..MaxDiskPage /\ diskSize - 1 \in Nat
      BY <1>1, <2>1
    <2>3. diskPageHead \in DOMAIN kv.page
      <3>1. Slot(diskPageHead, 0) = diskPageHead /\ 0 \in 0..(diskSize - 1)
        BY <1>1, <2>2, SlotFacts
      <3> QED BY <1>5, <3>1 DEF Filled
    <2>4. /\ kv' = Last(a) /\ diskPageHead' = next /\ diskSize' = diskSize - 1
          /\ writeBuffer' = writeBuffer
      BY <1>10, <2>3 DEF PopFromDisk
    <2>5. page = PageAt(kv, diskPageHead) /\ page = kv.page[diskPageHead]
      BY <2>1, <2>3 DEF PageToRead, PageAt
    <2>6. page \in Seq(Items) /\ page # << >>
      <3>1. kv.page[diskPageHead] \in Page
        BY <1>1, <2>3, PageMapIs
      <3> QED BY <2>5, <3>1 DEF Page
    <2>7. kv'.page = Drop(kv.page, diskPageHead)
      <3>1. a \in Seq(Stores) /\ Len(a) = 3 /\ a[3].page = Drop(kv.page, diskPageHead)
        BY <1>1, <2>2, DeleteIs
      <3>2. Last(a) = a[3]
        BY <3>1 DEF Last
      <3> HIDE DEF a
      <3> QED BY <2>4, <3>1, <3>2
    <2> HIDE DEF a
    <2>8. disk = page \o others
      <3>1. kv.page \in PageMap
        BY <1>1
      <3>2. diskPageHead \in Slots
        BY <1>1
      <3>3. diskSize \in 1..MaxDiskPage
        BY <2>2
      <3>4. OnDisk(kv, diskPageHead, diskSize)
               = Cat(PageAt(kv, diskPageHead), OnDisk(kv', Slot(diskPageHead, 1), diskSize - 1))
        BY <2>7, <3>1, <3>2, <3>3, RingDrop
      <3> QED BY <2>5, <3>4 DEF Cat
    <2>9. Filled(kv', Slot(diskPageHead, 1), diskSize - 1)
      <3>1. kv.page \in PageMap
        BY <1>1
      <3>2. diskPageHead \in Slots
        BY <1>1
      <3>3. diskSize \in 1..MaxDiskPage
        BY <2>2
      <3> QED BY <1>5, <2>7, <3>1, <3>2, <3>3, FilledDrop
    <2>10. disk2 = others /\ Filled(kv', diskPageHead', diskSize')
      BY <2>4, <2>9
    <2>11. others \in Seq(Items)
      <3>1. kv'.page \in PageMap
        <4> DEFINE m == kv.page
        <4>1. m \in PageMap
          BY <1>1
        <4> HIDE DEF m
        <4>2. Drop(m, diskPageHead) \in PageMap
          BY <4>1, DropIs
        <4> QED BY <2>7, <4>2 DEF m
      <3> QED BY <2>2, <3>1, PagesType
    <2>12. readBuffer' \in Seq(Items)
      BY <1>8, <2>6
    <2>13. page \in Seq(Items)
      BY <2>6
    <2> HIDE DEF disk, disk2, page, R, W, others
    <2>14. (page \o others) \o W = page \o (others \o W) /\ others \o W \in Seq(Items)
           /\ page \o others \in Seq(Items)
      BY <1>3, <2>11, <2>13, ThreeParts
    <2>15. (readBuffer' \o others) \o W = readBuffer' \o (others \o W)
      BY <1>3, <2>11, <2>12, ThreeParts
    <2>16. << >> \o (page \o others) = page \o others
      BY <2>14, Empties
    <2>17. Contents = page \o (others \o W)
      BY <1>6, <2>1, <2>8, <2>14, <2>16
    <2>18. Contents' = readBuffer' \o (others \o W)
      BY <1>6, <2>4, <2>10, <2>15 DEF W
    <2> QED BY <2>6, <2>10, <2>14, <2>17, <2>18 DEF page
  <1>11. CASE PopFromWriteBuffer
    <2>1. /\ R = << >> /\ diskSize = 0 /\ writeBuffer' = << >> /\ page = W
          /\ UNCHANGED <<diskSize, diskPageHead, kv>>
      BY <1>11 DEF PopFromWriteBuffer, PageToRead
    <2>2. disk = << >> /\ disk2 = << >>
      <3>1. OnDisk(kv, diskPageHead, 0) = << >>
        BY <1>1, OnDiskNone
      <3> QED BY <2>1, <3>1
    <2>3. Filled(kv', diskPageHead', diskSize')
      BY <1>5, <2>1
    <2>4. readBuffer' \in Seq(Items) /\ page \in Seq(Items)
      BY <1>3, <1>8, <2>1
    <2> HIDE DEF disk, disk2, page, R, W
    <2>5. << >> \o W = W /\ W \o << >> = W /\ << >> \in Seq(Items)
      BY <1>3, Empties
    <2>6. readBuffer' \o << >> = readBuffer'
      BY <2>4, Empties
    <2>7. << >> \o << >> = << >>
      BY <2>5, Empties
    <2>8. Contents = page \o << >>
      BY <1>6, <2>1, <2>2, <2>5, <2>7
    <2>9. Contents' = readBuffer' \o << >>
      BY <1>6, <2>1, <2>2, <2>6
    <2> QED BY <2>3, <2>4, <2>5, <2>8, <2>9 DEF page
  <1> QED BY <1>9, <1>10, <1>11 DEF PopCache

\* What is taken out is the oldest item that is held.
LEMMA PopIsQueued ==
    ASSUME CacheTypes, Ring, Full, PopCache
    PROVE  /\ Full' /\ overflowed' = overflowed
           /\ Contents # << >> => PopResult = Head(Contents) /\ Contents' = Tail(Contents)
           /\ Contents = << >> => PopResult = Nothing /\ Contents' = << >>
  <1> DEFINE page == PageToRead
  <1>1. /\ page \in Seq(Items) /\ Filled(kv', diskPageHead', diskSize')
        /\ \E rest \in Seq(Items) :
              /\ Contents = page \o rest /\ Contents' = readBuffer' \o rest
              /\ page = << >> => rest = << >>
    BY PopIsTaken
  <1>2. /\ readBuffer' = IF page = << >> THEN << >> ELSE Tail(page)
        /\ CacheLength' = IF page = << >> THEN CacheLength ELSE CacheLength - 1
        /\ PopResult = IF page = << >> THEN Nothing ELSE Head(page)
        /\ overflowed' = overflowed
    BY DEF PopCache, TakeItem, PopResult
  <1>3. CacheLength = Len(Contents) /\ Contents \in Seq(Items)
    BY ContentsType DEF Full
  <1> HIDE DEF page
  <1>4. PICK rest \in Seq(Items) : /\ Contents = page \o rest /\ Contents' = readBuffer' \o rest
                                   /\ page = << >> => rest = << >>
    BY <1>1
  <1>5. CASE page = << >>
    <2>1. Contents = << >> /\ Contents' = << >>
      <3>1. << >> \o << >> = << >>
        BY <1>1, <1>5, Empties
      <3> QED BY <1>2, <1>4, <1>5, <3>1
    <2> QED BY <1>1, <1>2, <1>3, <1>5, <2>1 DEF Full
  <1>6. CASE page # << >>
    <2>1. /\ Head(page \o rest) = Head(page) /\ Tail(page \o rest) = Tail(page) \o rest
          /\ Len(Tail(page) \o rest) = Len(page \o rest) - 1 /\ page \o rest # << >>
      BY <1>1, <1>6, TakeFirst
    <2>2. Contents # << >> /\ PopResult = Head(Contents) /\ Contents' = Tail(Contents)
          /\ Len(Contents') = Len(Contents) - 1
      BY <1>2, <1>4, <1>6, <2>1
    <2> QED BY <1>1, <1>2, <1>3, <1>6, <2>2 DEF Full
  <1> QED BY <1>5, <1>6

-----------------------------------------------------------------------------
(* A stop that has room keeps what is in the cache.                        *)

LEMMA EmptyIsFull ==
    ASSUME NEW k, k.page \in PageMap, NEW h
    PROVE  Filled(k, h, 0) /\ << >> \o OnDisk(k, h, 0) \o << >> = << >> /\ Len(<< >>) = 0
  <1>1. OnDisk(k, h, 0) = << >>
    BY OnDiskNone
  <1>2. << >> \o << >> = << >> /\ Len(<< >>) = 0
    OBVIOUS
  <1>3. Filled(k, h, 0)
    BY DEF Filled
  <1> QED BY <1>1, <1>2, <1>3

\* The page before the head becomes the head.
LEMMA RingInsert ==
    ASSUME NEW k, k.page \in PageMap, NEW l, NEW h \in Slots, NEW n \in 0..(MaxDiskPage - 1),
           NEW p \in Page, l.page = Put(k.page, Slot(h, MaxDiskPage - 1), p)
    PROVE  OnDisk(l, Slot(h, MaxDiskPage - 1), n + 1) = p \o OnDisk(k, h, n)
  <1> DEFINE b == Slot(h, MaxDiskPage - 1)
             m == k.page
  <1>1. MaxDiskPage \in Nat \ {0, 1} /\ n \in Nat /\ MaxDiskPage - 1 \in 0..(MaxDiskPage - 1)
        /\ MaxDiskPage - 1 \in 0..MaxDiskPage /\ n + 1 \in 1..MaxDiskPage
    BY CacheAssumption
  <1>2. b \in Slots /\ Slot(b, 1) = h
    <2>1. b \in Slots
      BY <1>1, SlotIs
    <2>2. Slot(Slot(h, MaxDiskPage - 1), 1) = Slot(h, (MaxDiskPage - 1) + 1)
      BY <1>1, SlotFacts
    <2>3. (MaxDiskPage - 1) + 1 = MaxDiskPage /\ Slot(h, MaxDiskPage) = h
      BY <1>1, SlotFacts
    <2> QED BY <2>1, <2>2, <2>3
  <1>3. m \in PageMap /\ l.page = Put(m, b, p)
    OBVIOUS
  <1>4. ASSUME NEW i \in 0..(n - 1) PROVE Slot(h, i) # b
    <2>1. i \in 0..(MaxDiskPage - 1) /\ i # MaxDiskPage - 1
      BY <1>1
    <2> QED BY <1>1, <2>1, SlotFacts
  <1> HIDE DEF m, b
  <1>5. Put(m, b, p) \in PageMap
    BY <1>2, <1>3, PutIs
  <1>6. DOMAIN Put(m, b, p) = DOMAIN m \cup {b}
    BY <1>2, <1>3, PutIs
  <1>7. Put(m, b, p)[b] = p
    BY DEF Put
  <1>8. \A s \in DOMAIN m \ {b} : Put(m, b, p)[s] = m[s]
    BY DEF Put
  <1>9. /\ l.page \in PageMap /\ PageAt(l, b) = p
        /\ \A s : s # b => PageAt(l, s) = PageAt(k, s)
    BY <1>3, <1>5, <1>6, <1>7, <1>8 DEF PageAt, m
  <1>10. ASSUME NEW i \in 0..(n - 1) PROVE PageAt(l, Slot(h, i)) = PageAt(k, Slot(h, i))
    BY <1>4, <1>9
  <1>11. OnDisk(l, h, n) = OnDisk(k, h, n)
    BY <1>1, <1>10, OnDiskSame
  <1>12. OnDisk(l, b, n + 1) = PageAt(l, b) \o OnDisk(l, Slot(b, 1), (n + 1) - 1)
    <2>1. l.page \in PageMap
      BY <1>9
    <2>2. b \in Slots
      BY <1>2
    <2>3. n + 1 \in 1..MaxDiskPage
      BY <1>1
    <2> QED BY <2>1, <2>2, <2>3, OnDiskFirst
  <1>13. (n + 1) - 1 = n
    BY <1>1
  <1> QED BY <1>2, <1>9, <1>11, <1>12, <1>13 DEF b

\* What Flush writes is what the cache holds, in its order.
LEMMA FlushIsContents ==
    ASSUME CacheTypes, Ring, RoomForBuffers
    PROVE  LET f == Last(FlushStores) IN OnDisk(f, f.head, f.size) = Contents
  <1> DEFINE inserted == readBuffer # << >>
             read == IF inserted THEN InsertStores ELSE <<kv>>
             head == IF inserted THEN Slot(diskPageHead, MaxDiskPage - 1) ELSE diskPageHead
             size == IF inserted /\ diskSize < MaxDiskPage THEN diskSize + 1 ELSE diskSize
             written == IF writeBuffer = << >> THEN read
                        ELSE read \o AppendStores(Last(read), head, size)
             dropped == IF writeBuffer # << >> /\ size = MaxDiskPage
                        THEN BufferPageSize + Len(readBuffer) ELSE 0
             final == [Last(written) EXCEPT !.cacheLength = CacheLength - dropped]
             disk == OnDisk(kv, diskPageHead, diskSize)
             R == readBuffer
             W == writeBuffer
             k1 == Last(read)
             k2 == Last(written)
  <1>1. FlushStores = Append(written, final)
    BY DEF FlushStores
  <1>2. /\ kv \in Stores /\ kv.page \in PageMap
        /\ diskSize \in 0..MaxDiskPage /\ diskPageHead \in Slots /\ diskPageTail \in Slots
        /\ CacheLength \in Int /\ MaxDiskPage \in Nat \ {0, 1} /\ diskSize \in Nat
        /\ MaxDiskPage - 1 \in 0..(MaxDiskPage - 1) /\ MaxDiskPage - 1 \in 0..MaxDiskPage
    BY ContentsType, BufferIsPage DEF CacheTypes
  <1>3. R \in Seq(Items) /\ W \in Seq(Items) /\ disk \in Seq(Items)
    BY ContentsType
  <1>4. /\ (IF readBuffer = << >> THEN 0 ELSE 1)
               + (IF writeBuffer = << >> THEN 0 ELSE 1) + diskSize <= MaxDiskPage
        /\ kv.head = diskPageHead /\ kv.size = diskSize
        /\ diskPageTail = Slot(diskPageHead, diskSize)
    BY DEF Ring, RoomForBuffers
  <1>5. Contents = R \o disk \o W
    BY DEF Contents
  <1>6. /\ head \in Slots /\ size \in 0..MaxDiskPage /\ CacheLength - dropped \in Int
        /\ Slot(head, size) = diskPageTail
        /\ writeBuffer # << >> => size \in 0..(MaxDiskPage - 1)
    <2>1. Slot(diskPageHead, MaxDiskPage - 1) \in Slots
      BY <1>2, SlotIs
    <2>2. CacheLength - dropped \in Int
      BY <1>2, BufferIsPage
    <2>3. CASE inserted
      <3>1. size = diskSize + 1 /\ diskSize \in 0..(MaxDiskPage - 1)
        BY <1>2, <1>4, <2>3
      <3>2. Slot(Slot(diskPageHead, MaxDiskPage - 1), diskSize + 1) = Slot(diskPageHead, diskSize)
        BY <1>2, <3>1, SlotFacts
      <3>3. size \in 0..MaxDiskPage /\ (writeBuffer # << >> => size \in 0..(MaxDiskPage - 1))
        BY <1>2, <1>4, <2>3, <3>1
      <3>4. head = Slot(diskPageHead, MaxDiskPage - 1)
        BY <2>3
      <3> QED BY <1>4, <2>1, <2>2, <3>1, <3>2, <3>3, <3>4
    <2>4. CASE ~inserted
      <3>1. size = diskSize /\ head = diskPageHead
        BY <2>4
      <3>2. writeBuffer # << >> => size \in 0..(MaxDiskPage - 1)
        BY <1>2, <1>4, <2>4, <3>1
      <3> QED BY <1>2, <1>4, <2>2, <3>1, <3>2
    <2> QED BY <2>3, <2>4
  <1> HIDE DEF dropped
  <1>7. /\ read \in Seq(Stores) /\ read # << >> /\ k1 \in Stores
        /\ k1.head = head /\ k1.size = size /\ OnDisk(k1, head, size) = R \o disk
    <2>1. CASE inserted
      <3>1. readBuffer \in Page
        BY <2>1, BufferIsPage
      <3>2. size = diskSize + 1 /\ diskSize \in 0..(MaxDiskPage - 1)
            /\ head = Slot(diskPageHead, MaxDiskPage - 1) /\ read = InsertStores
            /\ diskSize < MaxDiskPage
        BY <1>2, <1>4, <2>1
      <3>3. /\ InsertStores \in Seq(Stores) /\ InsertStores # << >>
            /\ Last(InsertStores) \in Stores
            /\ Last(InsertStores).page
                  = Put(kv.page, Slot(diskPageHead, MaxDiskPage - 1), readBuffer)
            /\ Last(InsertStores).size = (IF diskSize < MaxDiskPage THEN diskSize + 1 ELSE kv.size)
            /\ Last(InsertStores).head = Slot(diskPageHead, MaxDiskPage - 1)
        BY <1>2, <3>1, InsertIs
      <3> DEFINE l == Last(InsertStores)
      <3> HIDE DEF l
      <3>4. l.page = Put(kv.page, Slot(diskPageHead, MaxDiskPage - 1), readBuffer)
        BY <3>3 DEF l
      <3>5. kv.page \in PageMap
        BY <1>2
      <3>6. diskPageHead \in Slots
        BY <1>2
      <3>7. diskSize \in 0..(MaxDiskPage - 1)
        BY <3>2
      <3>8. OnDisk(l, Slot(diskPageHead, MaxDiskPage - 1), diskSize + 1)
               = readBuffer \o OnDisk(kv, diskPageHead, diskSize)
        BY <3>1, <3>4, <3>5, <3>6, <3>7, RingInsert
      <3>9. k1 = l
        BY <3>2 DEF l
      <3> HIDE DEF read, head, size, k1
      <3>10. OnDisk(k1, head, size) = R \o disk
        BY <3>2, <3>8, <3>9
      <3>11. k1 \in Stores /\ k1.head = head /\ k1.size = size
        BY <3>2, <3>3, <3>9 DEF l
      <3> QED BY <3>2, <3>3, <3>10, <3>11
    <2>2. CASE ~inserted
      <3>1. read = <<kv>> /\ head = diskPageHead /\ size = diskSize /\ R = << >>
        BY <2>2
      <3>2. <<kv>> \in Seq(Stores) /\ <<kv>> # << >> /\ Last(<<kv>>) = kv
        BY <1>2 DEF Last
      <3>3. << >> \o disk = disk
        <4> HIDE DEF disk
        <4> QED BY <1>3, Empties
      <3> HIDE DEF read, head, size
      <3> QED BY <1>2, <1>4, <3>1, <3>2, <3>3
    <2> QED BY <2>1, <2>2
  <1> HIDE DEF head, size, read, disk
  <1>8. /\ written \in Seq(Stores) /\ k2 \in Stores
        /\ OnDisk(k2, k2.head, k2.size) = (R \o disk) \o W
    <2>1. CASE writeBuffer = << >>
      <3>1. written = read /\ k2 = k1
        BY <2>1
      <3>2. R \o disk \in Seq(Items)
        BY <1>3, ThreeParts
      <3>3. (R \o disk) \o << >> = R \o disk
        BY <3>2, Empties
      <3> HIDE DEF k1, k2
      <3> QED BY <1>7, <2>1, <3>1, <3>3
    <2>2. CASE writeBuffer # << >>
      <3> DEFINE more == AppendStores(k1, head, size)
      <3>1. writeBuffer \in Page
        BY <2>2, BufferIsPage
      <3>2. size \in 0..(MaxDiskPage - 1) /\ size # MaxDiskPage /\ size \in 0..MaxDiskPage
        BY <1>2, <1>6, <2>2
      <3>3. /\ more \in Seq(Stores) /\ more # << >> /\ Last(more) \in Stores
            /\ Last(more).page = Put(AppendBase(k1, head, size), diskPageTail, writeBuffer)
            /\ Last(more).size = (IF size = MaxDiskPage THEN size ELSE size + 1)
            /\ Last(more).head = (IF size = MaxDiskPage THEN Slot(head, 1) ELSE k1.head)
        <4> HIDE DEF k1
        <4> QED BY <1>2, <1>6, <1>7, <3>1, AppendIs
      <3>4. written = read \o more
        BY <2>2
      <3>5. read \o more \in Seq(Stores) /\ Last(read \o more) = Last(more)
        <4> HIDE DEF more
        <4>1. read \o more \in Seq(Stores) /\ Len(read \o more) = Len(read) + Len(more)
              /\ Len(more) \in Nat \ {0} /\ Len(read) \in Nat
          BY <1>7, <3>3
        <4>2. (read \o more)[Len(read) + Len(more)] = more[Len(more)]
          BY <1>7, <3>3, <4>1
        <4> QED BY <4>1, <4>2 DEF Last
      <3>6. k2 = Last(more)
        BY <3>4, <3>5
      <3> HIDE DEF more, k1, k2
      <3>7. k2.page = Put(k1.page, Slot(head, size), writeBuffer)
        BY <1>6, <3>2, <3>3, <3>6 DEF AppendBase
      <3>8. k2.size = size + 1 /\ k2.head = head
        BY <1>7, <3>2, <3>3, <3>6
      <3>9. k1.page \in PageMap
        BY <1>7, StoreFields
      <3>10. size \in 0..(MaxDiskPage - 1)
        BY <3>2
      <3>11. head \in Slots
        BY <1>6
      <3>12. OnDisk(k2, head, size + 1) = Cat(OnDisk(k1, head, size), writeBuffer)
        BY <3>1, <3>7, <3>9, <3>10, <3>11, RingPut
      <3> QED BY <1>7, <3>3, <3>4, <3>5, <3>6, <3>8, <3>12 DEF Cat
    <2> QED BY <2>1, <2>2
  <1> HIDE DEF written, k1
  <1>9. final \in Stores /\ final.page = k2.page /\ final.head = k2.head /\ final.size = k2.size
    <2> DEFINE c == CacheLength - dropped
    <2>1. c \in Int
      BY <1>6
    <2>2. final = [k2 EXCEPT !.cacheLength = c]
      OBVIOUS
    <2> HIDE DEF c, final, k2
    <2>3. /\ [k2 EXCEPT !.cacheLength = c] \in Stores
          /\ [k2 EXCEPT !.cacheLength = c].page = k2.page
          /\ [k2 EXCEPT !.cacheLength = c].size = k2.size
          /\ [k2 EXCEPT !.cacheLength = c].head = k2.head
      BY <1>8, <2>1, WithCount
    <2> QED BY <2>2, <2>3
  <1> HIDE DEF final
  <1>10. Last(FlushStores) = final
    BY <1>1, <1>8, <1>9, AppendProperties DEF Last
  <1>11. OnDisk(final, k2.head, k2.size) = OnDisk(k2, k2.head, k2.size)
    <2>1. k2.size \in Nat
      <3>1. k2.size \in 0..MaxDiskPage
        BY <1>8, StoreFields
      <3> QED BY <1>2, <3>1
    <2>2. \A s : PageAt(final, s) = PageAt(k2, s)
      BY <1>9 DEF PageAt
    <2> HIDE DEF k2
    <2> QED BY <2>1, <2>2, OnDiskSame
  <1> HIDE DEF k2
  <1> QED BY <1>5, <1>8, <1>9, <1>10, <1>11

-----------------------------------------------------------------------------
(* The cache under a user that calls it in any order.                      *)

CacheInv ==
    /\ up \in BOOLEAN /\ starts \in 1..MaxStarts /\ added \in 0..MaxItems
    /\ Parts(added)
    /\ up => Ring
    /\ ~up => Down /\ starts < MaxStarts
    /\ FirstRun => Full

LEMMA InitHasParts ==
    ASSUME CacheInit
    PROVE  Parts(0) /\ Ring /\ Full /\ Contents = << >>
  <1>1. /\ readBuffer = << >> /\ writeBuffer = << >> /\ diskSize = 0 /\ diskPageHead = 0
        /\ diskPageTail = 0 /\ CacheLength = 0 /\ kv = EmptyStore /\ popped = {}
        /\ overflowed = {}
    BY DEF CacheInit
  <1>2. kv \in Stores /\ PagesApart(kv.page) /\ Within(kv.page) \subseteq {} /\ kv.size = 0
        /\ kv.page \in PageMap
    <2>1. Keeps(EmptyStore, {}) /\ EmptyStore.size = 0
      BY EmptyKeeps
    <2>2. kv \in Stores /\ PagesApart(kv.page) /\ Within(kv.page) \subseteq {} /\ kv.size = 0
      BY <1>1, <2>1 DEF Keeps
    <2> QED BY <2>2, StoreFields
  <1>3. 0 <= BufferPageSize /\ 0 \in 0..MaxDiskPage /\ 0 \in Slots /\ 0 \in Int
    BY CacheAssumption DEF Slots
  <1>4. IsInjective(<< >>) /\ << >> \in Seq(Items) /\ Range(<< >>) = {} /\ Len(<< >>) = 0
    BY DEF IsInjective, Range
  <1>5. CacheTypes
    BY <1>1, <1>2, <1>3, <1>4 DEF CacheTypes
  <1>6. Apart
    BY <1>1, <1>2, <1>4 DEF Apart, Held
  <1>7. UpTo(0)
    BY <1>1, <1>2, <1>4 DEF UpTo, Held
  <1>8. Ring
    <2>1. Slot(0, 0) = 0
      BY <1>3, SlotFacts
    <2> QED BY <1>1, <1>2, <2>1 DEF Ring
  <1>9. Filled(kv, 0, 0) /\ << >> \o OnDisk(kv, 0, 0) \o << >> = << >>
    BY <1>2, EmptyIsFull
  <1>10. Contents = << >>
    BY <1>1, <1>9 DEF Contents
  <1>11. Full
    BY <1>1, <1>4, <1>9, <1>10 DEF Full
  <1> QED BY <1>5, <1>6, <1>7, <1>8, <1>10, <1>11 DEF Parts

LEMMA CacheInvInit == CacheInit => CacheInv
  <1> SUFFICES ASSUME CacheInit PROVE CacheInv
    OBVIOUS
  <1>1. up = TRUE /\ starts = 1 /\ added = 0
    BY DEF CacheInit
  <1>2. 1 \in 1..MaxStarts /\ 0 \in 0..MaxItems
    BY CacheAssumption
  <1> QED BY <1>1, <1>2, InitHasParts DEF CacheInv

LEMMA CacheInvNext ==
    ASSUME CacheInv, [CacheNext]_syncVars
    PROVE  CacheInv'
  <1> PICK n \in Nat : n = added
    BY CacheAssumption DEF CacheInv
  <1>1. /\ up \in BOOLEAN /\ starts \in 1..MaxStarts /\ n \in 0..MaxItems /\ Parts(n)
        /\ (up => Ring) /\ (~up => Down /\ starts < MaxStarts) /\ (FirstRun => Full)
        /\ MaxItems \in Nat /\ MaxStarts \in Nat /\ starts \in Nat
    BY CacheAssumption DEF CacheInv
  <1>2. CASE Add
    <2>1. up /\ n < MaxItems /\ AddCache(n + 1) /\ added' = n + 1 /\ up' = up /\ starts' = starts
      BY <1>2 DEF Add
    <2>2. n + 1 \in Items /\ n + 1 \in 0..MaxItems
      BY <1>1, <2>1 DEF Items
    <2>3. Parts(n + 1)' /\ Ring'
      BY <1>1, <2>1, <2>2, AddKeepsParts
    <2>4. FirstRun' => Full'
      <3>1. FirstRun' = FirstRun
        BY <2>1 DEF FirstRun
      <3>2. ASSUME FirstRun PROVE Full'
        <4>1. CacheTypes
          BY <1>1 DEF Parts
        <4> QED BY <1>1, <2>1, <2>2, <3>2, <4>1, AddIsQueued
      <3> QED BY <3>1, <3>2
    <2>5. Parts(added)'
      BY <2>1, <2>3 DEF Parts, UpTo
    <2> QED BY <1>1, <2>1, <2>2, <2>3, <2>4, <2>5 DEF CacheInv
  <1>3. CASE Pop
    <2>1. up /\ PopCache /\ added' = n /\ up' = up /\ starts' = starts
      BY <1>3 DEF Pop
    <2>2. Parts(n)' /\ Ring'
      BY <1>1, <2>1, PopKeepsParts
    <2>3. FirstRun' => Full'
      <3>1. FirstRun' = FirstRun
        BY <2>1 DEF FirstRun
      <3>2. ASSUME FirstRun PROVE Full'
        <4>1. CacheTypes
          BY <1>1 DEF Parts
        <4> QED BY <1>1, <2>1, <3>2, <4>1, PopIsQueued
      <3> QED BY <3>1, <3>2
    <2>4. Parts(added)'
      BY <2>1, <2>2 DEF Parts, UpTo
    <2> QED BY <1>1, <2>1, <2>2, <2>3, <2>4 DEF CacheInv
  <1>4. CASE Stop \/ Crash
    <2>1. up /\ starts < MaxStarts /\ (Flush \/ CrashCache) /\ added' = n /\ up' = FALSE
          /\ starts' = starts
      BY <1>4 DEF Stop, Crash
    <2>2. Parts(n)' /\ Down'
      BY <1>1, <2>1, EndKeepsParts
    <2>3. ~FirstRun'
      BY <2>1 DEF FirstRun
    <2>4. Parts(added)'
      BY <2>1, <2>2 DEF Parts, UpTo
    <2> QED BY <1>1, <2>1, <2>2, <2>3, <2>4 DEF CacheInv
  <1>5. CASE Start
    <2>1. ~up /\ InitStore /\ added' = n /\ up' = TRUE /\ starts' = starts + 1
      BY <1>5 DEF Start
    <2>2. Parts(n)' /\ Ring'
      BY <1>1, <2>1, StartKeepsParts
    <2>3. starts' \in 1..MaxStarts /\ ~FirstRun'
      BY <1>1, <2>1 DEF FirstRun
    <2>4. Parts(added)'
      BY <2>1, <2>2 DEF Parts, UpTo
    <2> QED BY <1>1, <2>1, <2>2, <2>3, <2>4 DEF CacheInv
  <1>6. CASE UNCHANGED syncVars
    <2>1. /\ UNCHANGED <<readBuffer, writeBuffer, diskSize, diskPageHead, diskPageTail,
                         CacheLength, kv, popped, overflowed, up, starts, added>>
      BY <1>6 DEF syncVars, cacheVars, memory
    <2>2. Parts(added)'
      BY <1>1, <2>1 DEF Parts, CacheTypes, Apart, UpTo, Held
    <2>3. (up => Ring)' /\ (~up => Down /\ starts < MaxStarts)'
      BY <1>1, <2>1 DEF Ring, Down
    <2>4. (FirstRun => Full)'
      BY <1>1, <2>1 DEF FirstRun, Full, Contents
    <2> QED BY <1>1, <2>1, <2>2, <2>3, <2>4 DEF CacheInv
  <1> QED BY <1>2, <1>3, <1>4, <1>5, <1>6 DEF CacheNext

\* The parts of the cache fit together and nothing is held or given out twice, whatever
\* stops and crashes fall between the calls or between the writes of one.
THEOREM CacheInvariant == CacheSpec => []CacheInv
  <1>1. CacheInit => CacheInv
    BY CacheInvInit
  <1>2. CacheInv /\ [CacheNext]_syncVars => CacheInv'
    BY CacheInvNext
  <1> QED BY <1>1, <1>2, PTL DEF CacheSpec

LEMMA CacheInvType == CacheInv => CacheTypeOK
  <1> SUFFICES ASSUME CacheInv PROVE CacheTypeOK
    OBVIOUS
  <1>1. /\ up \in BOOLEAN /\ starts \in 1..MaxStarts /\ added \in 0..MaxItems /\ CacheTypes
    BY DEF CacheInv, Parts
  <1>2. /\ kv \in Stores
        /\ readBuffer \in Seq(Items) /\ Len(readBuffer) <= BufferPageSize
        /\ writeBuffer \in Seq(Items) /\ Len(writeBuffer) <= BufferPageSize
        /\ diskSize \in 0..MaxDiskPage /\ diskPageHead \in Slots /\ diskPageTail \in Slots
        /\ CacheLength \in Int
        /\ popped \subseteq Items /\ overflowed \subseteq Items
    BY <1>1 DEF CacheTypes
  <1>3. Len(readBuffer) \in Nat /\ Len(writeBuffer) \in Nat /\ BufferPageSize \in Nat
    BY <1>1, BufferIsPage
  <1>4. {Len(readBuffer), Len(writeBuffer)} \subseteq 0..BufferPageSize
    <2>1. Len(readBuffer) \in 0..BufferPageSize
      BY <1>2, <1>3
    <2>2. Len(writeBuffer) \in 0..BufferPageSize
      BY <1>2, <1>3
    <2> QED BY <2>1, <2>2
  <1>5. /\ kv.page \in PageMap /\ kv.size \in 0..MaxDiskPage /\ kv.head \in Slots
        /\ kv.cacheLength \in Int
    BY <1>2, StoreFields
  <1>6. kv.page \in [DOMAIN kv.page -> Seq(Items) \ {<< >>}] /\ DOMAIN kv.page \subseteq Slots
    <2> DEFINE m == kv.page
    <2>1. m \in PageMap
      BY <1>5
    <2> HIDE DEF m
    <2>2. m \in [DOMAIN m -> Page] /\ DOMAIN m \subseteq Slots
      BY <2>1, PageMapIs
    <2>3. Page \subseteq Seq(Items) \ {<< >>}
      BY DEF Page
    <2>4. m \in [DOMAIN m -> Seq(Items) \ {<< >>}]
      BY <2>2, <2>3
    <2> QED BY <2>2, <2>4 DEF m
  <1>7. {readBuffer, writeBuffer} \subseteq Seq(Items)
    BY <1>2
  <1>8. {diskPageHead, diskPageTail} \subseteq Slots
    BY <1>2
  <1> QED BY <1>1, <1>2, <1>4, <1>5, <1>6, <1>7, <1>8 DEF CacheTypeOK

\* No item is in two places of the queue.
LEMMA ContentsApart ==
    ASSUME CacheTypes, Apart
    PROVE  IsInjective(Contents) /\ Range(Contents) \subseteq Held
  <1> DEFINE disk == OnDisk(kv, diskPageHead, diskSize)
             R == readBuffer
             W == writeBuffer
  <1>1. R \in Seq(Items) /\ W \in Seq(Items) /\ disk \in Seq(Items)
    BY ContentsType
  <1>2. /\ PagesApart(kv.page) /\ IsInjective(R) /\ IsInjective(W)
        /\ Range(R) \cap Range(W) = {} /\ Within(kv.page) \cap Range(R) = {}
        /\ Within(kv.page) \cap Range(W) = {}
    BY DEF Apart
  <1>3. IsInjective(disk) /\ Range(disk) \subseteq Within(kv.page)
    BY <1>2, BufferIsPage, OnDiskApart DEF CacheTypes
  <1>4. Contents = R \o disk \o W /\ Held = Within(kv.page) \cup Range(R) \cup Range(W)
    BY DEF Contents, Held
  <1> HIDE DEF disk, R, W
  <1>5. IsInjective(R \o disk)
    <2>1. Range(R) \cap Range(disk) = {}
      BY <1>2, <1>3
    <2> QED BY <1>1, <1>2, <1>3, <2>1, ConcatInjective
  <1>6. R \o disk \in Seq(Items) /\ Range(R \o disk) = Range(R) \cup Range(disk)
    BY <1>1, ConcatProperties, RangeConcatenation
  <1> DEFINE p == R \o disk
  <1> HIDE DEF p
  <1>7. IsInjective(p \o W)
    <2>1. Range(p) \cap Range(W) = {}
      BY <1>2, <1>3, <1>6 DEF p
    <2>2. p \in Seq(Items) /\ IsInjective(p)
      BY <1>5, <1>6 DEF p
    <2> QED BY <1>1, <1>2, <2>1, <2>2, ConcatInjective
  <1>8. Range(p \o W) = Range(p) \cup Range(W)
    <2>1. p \in Seq(Items)
      BY <1>6 DEF p
    <2> QED BY <1>1, <2>1, RangeConcatenation
  <1> QED BY <1>3, <1>4, <1>6, <1>7, <1>8 DEF p

\* What a start finds has nothing twice either.
LEMMA RestorableApart ==
    ASSUME CacheTypes, Apart
    PROVE  IsInjective(Restorable) /\ Range(Restorable) \subseteq Held
  <1>1. kv.page \in PageMap /\ kv.head \in Slots /\ kv.size \in 0..MaxDiskPage
    BY StoreFields DEF CacheTypes
  <1>2. PagesApart(kv.page)
    BY DEF Apart
  <1>3. IsInjective(OnDisk(kv, kv.head, kv.size))
        /\ Range(OnDisk(kv, kv.head, kv.size)) \subseteq Within(kv.page)
    BY <1>1, <1>2, OnDiskApart
  <1> QED BY <1>3 DEF Restorable, Held

LEMMA CacheInvSound == CacheInv => DiskCacheSound
  <1> SUFFICES ASSUME CacheInv PROVE DiskCacheSound
    OBVIOUS
  <1>1. CacheTypes /\ Apart /\ (FirstRun => Full) /\ popped \cap Held = {}
    BY DEF CacheInv, Parts, Apart
  <1>2. LengthIsTrue
    BY <1>1 DEF LengthIsTrue, Full
  <1>3. SomethingOnDisk
    <2> SUFFICES ASSUME FirstRun, diskSize > 0 PROVE diskPageHead \in DOMAIN kv.page
      BY DEF SomethingOnDisk
    <2>1. Filled(kv, diskPageHead, diskSize) /\ diskPageHead \in Slots
          /\ diskSize \in 0..MaxDiskPage /\ MaxDiskPage \in Nat
      BY <1>1, CacheAssumption DEF Full, CacheTypes
    <2>2. 0 \in 0..(diskSize - 1) /\ Slot(diskPageHead, 0) = diskPageHead
      BY <2>1, SlotFacts
    <2> QED BY <2>1, <2>2 DEF Filled
  <1>4. NeverTwice
    <2>1. IsInjective(Contents) /\ popped \cap Range(Contents) = {}
      BY <1>1, ContentsApart
    <2>2. IsInjective(Restorable) /\ popped \cap Range(Restorable) = {}
      BY <1>1, RestorableApart
    <2> QED BY <2>1, <2>2 DEF NeverTwice
  <1> QED BY <1>2, <1>3, <1>4, CacheInvType DEF DiskCacheSound

\* The number of items and the head of the ring are those of its pages while a first run
\* lasts, and whatever stops and crashes fall between the calls or between the writes of
\* one, no item is held twice and none that was taken out comes back
\* (sync_cache.go:100-379).
THEOREM DiskCacheIsSound == CacheSpec => []DiskCacheSound
  BY CacheInvariant, CacheInvSound, PTL

-----------------------------------------------------------------------------
(* The cache implements the queue of LossyQueue.                           *)

LEMMA LastAdded ==
    ASSUME NEW S, NEW s \in Seq(S), NEW x \in S
    PROVE  /\ Append(s, x) # << >>
           /\ Queue!Last(Append(s, x)) = x /\ Queue!Front(Append(s, x)) = s
  <1>1. Len(Append(s, x)) = Len(s) + 1 /\ Append(s, x)[Len(s) + 1] = x /\ Len(s) \in Nat
        /\ Append(s, x) # << >>
    BY AppendProperties
  <1>2. SubSeq(Append(s, x), 1, Len(s)) = s
    OBVIOUS
  <1>3. (Len(s) + 1) - 1 = Len(s)
    BY <1>1
  <1> QED BY <1>1, <1>2, <1>3 DEF Last, Front, Queue!Last, Queue!Front

LEMMA RestOf ==
    ASSUME NEW S, NEW p \in Seq(S), NEW r \in Seq(S)
    PROVE  SubSeq(p \o r, Len(p) + 1, Len(p \o r)) = r
  OBVIOUS

LEMMA QueueInit == CacheInit => Queue!Init
  <1> SUFFICES ASSUME CacheInit PROVE Queue!Init
    OBVIOUS
  <1>1. Contents = << >>
    BY InitHasParts
  <1>2. FirstRun = TRUE
    BY DEF CacheInit, FirstRun
  <1> QED BY <1>1, <1>2 DEF Queue!Init

LEMMA QueueStep ==
    ASSUME CacheInv, [CacheNext]_syncVars
    PROVE  [Queue!Next]_(Queue!vars)
  <1>1. CacheTypes /\ (up => Ring) /\ (FirstRun => Full) /\ added \in 0..MaxItems
        /\ MaxItems \in Nat /\ starts \in Nat \ {0}
    BY CacheAssumption DEF CacheInv, Parts
  <1>2. CASE ~FirstRun
    <2>1. ~FirstRun'
      <3>1. ~up \/ starts # 1
        BY <1>2 DEF FirstRun
      <3>2. CASE Start
        <4>1. starts' = starts + 1
          BY <3>2 DEF Start
        <4> QED BY <1>1, <4>1 DEF FirstRun
      <3>3. CASE Stop \/ Crash
        BY <3>3 DEF FirstRun, Stop, Crash
      <3>4. CASE Add \/ Pop
        BY <3>1, <3>4 DEF FirstRun, Add, Pop
      <3>5. CASE UNCHANGED syncVars
        BY <3>1, <3>5 DEF FirstRun, syncVars
      <3> QED BY <3>2, <3>3, <3>4, <3>5 DEF CacheNext
    <2>2. UNCHANGED <<IF FirstRun THEN Contents ELSE << >>, FirstRun>>
      <3>1. (IF FirstRun THEN Contents ELSE << >>) = << >>
        BY <1>2
      <3>2. (IF FirstRun THEN Contents ELSE << >>)' = << >>
        BY <2>1
      <3>3. FirstRun' = FirstRun
        BY <1>2, <2>1 DEF FirstRun
      <3> DEFINE q == IF FirstRun THEN Contents ELSE << >>
      <3>4. q' = q
        BY <3>1, <3>2
      <3> HIDE DEF q
      <3>5. UNCHANGED <<q, FirstRun>>
        BY <3>3, <3>4
      <3> QED BY <3>5 DEF q
    <2> QED BY <2>2 DEF Queue!vars
  <1>3. CASE FirstRun
    <2>1. up /\ Ring /\ Full
      BY <1>1, <1>3 DEF FirstRun
    <2>2. CASE Add
      <3>1. FirstRun' /\ AddCache(added + 1)
        BY <1>3, <2>2 DEF FirstRun, Add
      <3> DEFINE x == added + 1
      <3>2. x \in Items
        BY <1>1, <2>2 DEF Add, Items
      <3> HIDE DEF x
      <3>3. AddCache(x)
        BY <3>1 DEF x
      <3>4. \/ Contents' = Append(Contents, x) /\ overflowed' = overflowed
            \/ \E gone, rest \in Seq(Items) :
                   /\ Contents = gone \o rest /\ Contents' = Append(rest, x)
                   /\ overflowed' = overflowed \cup Range(gone)
                   /\ Len(gone) \in 1..(Len(Contents) - (MaxDiskPage + 1) * BufferPageSize
                                            + BufferPageSize)
                   /\ Len(Contents) >= (MaxDiskPage + 1) * BufferPageSize
        BY <1>1, <2>1, <3>2, <3>3, AddIsQueued
      <3>5. CASE Contents' = Append(Contents, x)
        <4>1. Contents \in Seq(Items)
          BY <1>1, ContentsType
        <4>2. /\ Append(Contents, x) # << >> /\ Queue!Last(Append(Contents, x)) = x
              /\ Queue!Front(Append(Contents, x)) = Contents
          BY <3>2, <4>1, LastAdded
        <4>3. Queue!Put
          <5>1. (IF FirstRun THEN Contents ELSE << >>) = Contents
            BY <1>3
          <5>2. (IF FirstRun THEN Contents ELSE << >>)' = Append(Contents, x)
            BY <3>1, <3>5
          <5> QED BY <3>2, <4>2, <5>1, <5>2 DEF Queue!Put
        <4>4. Queue!Next
          BY <1>3, <3>1, <4>3 DEF Queue!Next
        <4> QED BY <4>4
      <3>6. ASSUME NEW gone \in Seq(Items), NEW rest \in Seq(Items),
                   Contents = gone \o rest, Contents' = Append(rest, x),
                   Len(gone) \in 1..(Len(Contents) - (MaxDiskPage + 1) * BufferPageSize
                                            + BufferPageSize),
                   Len(Contents) >= (MaxDiskPage + 1) * BufferPageSize
            PROVE  Queue!Next
        <4>1. /\ Append(rest, x) # << >> /\ Queue!Last(Append(rest, x)) = x
              /\ Queue!Front(Append(rest, x)) = rest
          BY <3>2, LastAdded
        <4>2. SubSeq(Contents, Len(gone) + 1, Len(Contents)) = rest
          BY <3>6, RestOf
        <4>3. Queue!PutWhenFull
          <5>1. (IF FirstRun THEN Contents ELSE << >>) = Contents
            BY <1>3
          <5>2. (IF FirstRun THEN Contents ELSE << >>)' = Append(rest, x)
            BY <3>1, <3>6
          <5> QED BY <3>2, <3>6, <4>1, <4>2, <5>1, <5>2 DEF Queue!PutWhenFull
        <4> QED BY <1>3, <3>1, <4>3 DEF Queue!Next
      <3> QED BY <3>4, <3>5, <3>6
    <2>3. CASE Pop
      <3>1. FirstRun' /\ PopCache
        BY <1>3, <2>3 DEF FirstRun, Pop
      <3>2. /\ Contents # << >> => Contents' = Tail(Contents)
            /\ Contents = << >> => Contents' = << >>
        BY <1>1, <2>1, <3>1, PopIsQueued
      <3>3. CASE Contents = << >>
        BY <1>3, <3>1, <3>2, <3>3 DEF Queue!vars
      <3>4. CASE Contents # << >>
        <4>1. Queue!Take
          BY <1>3, <3>1, <3>2, <3>4 DEF Queue!Take
        <4> QED BY <1>3, <3>1, <4>1 DEF Queue!Next
      <3> QED BY <3>3, <3>4
    <2>4. CASE Stop \/ Crash
      <3>1. ~FirstRun'
        BY <2>4 DEF FirstRun, Stop, Crash
      <3>2. Queue!End
        BY <3>1 DEF Queue!End
      <3> QED BY <1>3, <3>2 DEF Queue!Next
    <2>5. CASE Start
      BY <2>1, <2>5 DEF Start
    <2>6. CASE UNCHANGED syncVars
      <3>1. FirstRun' = FirstRun /\ Contents' = Contents
        BY <2>6 DEF syncVars, cacheVars, memory, FirstRun, Contents
      <3> QED BY <3>1 DEF Queue!vars
    <2> QED BY <2>2, <2>3, <2>4, <2>5, <2>6 DEF CacheNext
  <1> QED BY <1>2, <1>3

LEMMA StopStep ==
    ASSUME CacheInv, [CacheNext]_syncVars
    PROVE  [Stop /\ ~CleanCacheAtStop /\ RoomForBuffers => Restorable' = Contents]_syncVars
  <1> SUFFICES ASSUME Stop, ~CleanCacheAtStop, RoomForBuffers PROVE Restorable' = Contents
    OBVIOUS
  <1>1. CacheTypes /\ Ring
    BY DEF CacheInv, Parts, Stop
  <1>2. kv' = Last(FlushStores)
    BY DEF Stop, Flush
  <1> DEFINE f == Last(FlushStores)
  <1>3. OnDisk(f, f.head, f.size) = Contents
    BY <1>1, FlushIsContents
  <1> HIDE DEF f
  <1>4. Restorable' = OnDisk(f, f.head, f.size)
    BY <1>2 DEF Restorable, f
  <1> QED BY <1>3, <1>4

\* While the rule runs, the read buffer, the ring of pages and the write buffer are one
\* first-in, first-out queue that only an overflow shortens, and only at its old end; and a
\* stop that has room for its buffers keeps what is in it (sync_cache.go:100-379).
THEOREM CacheIsOneQueue == CacheSpec => CacheIsQueue
  <1>1. CacheInv /\ [CacheNext]_syncVars => [Queue!Next]_(Queue!vars)
    BY QueueStep
  <1>2. CacheInv /\ [CacheNext]_syncVars =>
            [Stop /\ ~CleanCacheAtStop /\ RoomForBuffers => Restorable' = Contents]_syncVars
    BY StopStep
  <1>3. CacheSpec => ImplementsQueue
    BY <1>1, QueueInit, CacheInvariant, PTL DEF CacheSpec, ImplementsQueue, Queue!Spec
  <1>4. CacheSpec => StopKeepsItems
    BY <1>2, CacheInvariant, PTL DEF CacheSpec, StopKeepsItems
  <1> QED BY <1>3, <1>4 DEF CacheIsQueue

-----------------------------------------------------------------------------
(* The way of the items through the cache node: they are in the order of   *)
(* their arrival, and those that are not on it are accounted for.          *)

LEMMA AscendingConcat ==
    ASSUME NEW s \in Seq(Items), NEW t \in Seq(Items)
    PROVE  Ascending(s \o t) <=>
               /\ Ascending(s) /\ Ascending(t)
               /\ \A x \in Range(s), y \in Range(t) : x < y
  <1>1. /\ s \o t \in Seq(Items) /\ Len(s) \in Nat /\ Len(t) \in Nat
        /\ Len(s \o t) = Len(s) + Len(t)
        /\ DOMAIN (s \o t) = 1..(Len(s) + Len(t)) /\ DOMAIN s = 1..Len(s) /\ DOMAIN t = 1..Len(t)
        /\ \A i \in 1..(Len(s) + Len(t)) :
               (s \o t)[i] = IF i <= Len(s) THEN s[i] ELSE t[i - Len(s)]
    BY ConcatProperties, LenProperties
  <1> DEFINE u == s \o t
             m == Len(s)
             n == Len(t)
  <1>2. \A i \in 1..m : u[i] = s[i] /\ i \in DOMAIN u
    BY <1>1
  <1>3. \A i \in 1..n : u[m + i] = t[i] /\ m + i \in DOMAIN u
    BY <1>1
  <1>4. \A i \in DOMAIN u : i \in 1..m \/ \E j \in 1..n : i = m + j
    <2> SUFFICES ASSUME NEW i \in DOMAIN u, i \notin 1..m PROVE \E j \in 1..n : i = m + j
      OBVIOUS
    <2>1. i - m \in 1..n /\ i = m + (i - m)
      BY <1>1
    <2> QED BY <2>1
  <1>5. m \in Nat /\ n \in Nat /\ DOMAIN s = 1..m /\ DOMAIN t = 1..n /\ DOMAIN u \subseteq Nat
    BY <1>1
  <1> HIDE DEF u, m, n
  <1>6. ASSUME Ascending(u)
        PROVE  /\ Ascending(s) /\ Ascending(t)
               /\ \A x \in Range(s), y \in Range(t) : x < y
    <2>1. Ascending(s)
      BY <1>2, <1>5, <1>6 DEF Ascending
    <2>2. Ascending(t)
      <3> SUFFICES ASSUME NEW i \in 1..n, NEW j \in 1..n, i < j PROVE t[i] < t[j]
        BY <1>5 DEF Ascending
      <3>1. m + i < m + j
        BY <1>5
      <3> QED BY <1>3, <1>6, <3>1 DEF Ascending
    <2>3. ASSUME NEW x \in Range(s), NEW y \in Range(t) PROVE x < y
      <3>1. PICK i \in 1..m : x = s[i]
        BY <1>5 DEF Range
      <3>2. PICK j \in 1..n : y = t[j]
        BY <1>5 DEF Range
      <3>3. i < m + j
        BY <1>5
      <3> QED BY <1>2, <1>3, <1>6, <3>1, <3>2, <3>3 DEF Ascending
    <2> QED BY <2>1, <2>2, <2>3
  <1>7. ASSUME Ascending(s), Ascending(t), \A x \in Range(s), y \in Range(t) : x < y
        PROVE  Ascending(u)
    <2> SUFFICES ASSUME NEW i \in DOMAIN u, NEW j \in DOMAIN u, i < j PROVE u[i] < u[j]
      BY DEF Ascending
    <2>1. CASE i \in 1..m /\ j \in 1..m
      BY <1>2, <1>5, <1>7, <2>1 DEF Ascending
    <2>2. CASE i \in 1..m /\ j \notin 1..m
      <3>1. PICK l \in 1..n : j = m + l
        BY <1>4, <2>2
      <3>2. s[i] \in Range(s) /\ t[l] \in Range(t)
        BY <1>5, <2>2 DEF Range
      <3> QED BY <1>2, <1>3, <1>7, <2>2, <3>1, <3>2
    <2>3. CASE i \notin 1..m
      <3>2. PICK k \in 1..n : i = m + k
        BY <1>4, <2>3
      <3>1. j \notin 1..m
        BY <1>5, <3>2
      <3>3. PICK l \in 1..n : j = m + l
        BY <1>4, <3>1
      <3>4. k < l
        BY <1>5, <3>2, <3>3
      <3> QED BY <1>3, <1>5, <1>7, <3>2, <3>3, <3>4 DEF Ascending
    <2> QED BY <2>1, <2>2, <2>3
  <1> QED BY <1>6, <1>7 DEF u

Way(way, lost, n) ==
    way \in Seq(Items) /\ Ascending(way) /\ Range(way) \cup lost = 1..n

LEMMA WayGrows ==
    ASSUME NEW way, NEW lost, NEW n \in Nat, Way(way, lost, n), n + 1 \in Items
    PROVE  Way(Append(way, n + 1), lost, n + 1)
  <1> DEFINE x == n + 1
  <1>1. way \in Seq(Items) /\ Ascending(way) /\ Range(way) \cup lost = 1..n
    BY DEF Way
  <1>2. x \in Items /\ \A y \in 1..n : y < x
    OBVIOUS
  <1>3. 1..x = (1..n) \cup {x}
    OBVIOUS
  <1> HIDE DEF x
  <1>4. <<x>> \in Seq(Items) /\ Range(<<x>>) = {x} /\ Ascending(<<x>>)
    BY <1>2 DEF Range, Ascending
  <1>5. way \o <<x>> = Append(way, x)
    BY <1>1, <1>2, AppendIsConcat
  <1>6. \A y \in Range(way), z \in Range(<<x>>) : y < z
    BY <1>1, <1>2, <1>4
  <1>7. Ascending(way \o <<x>>)
    BY <1>1, <1>4, <1>6, AscendingConcat
  <1>8. Range(Append(way, x)) = Range(way) \cup {x} /\ Append(way, x) \in Seq(Items)
    BY <1>1, <1>2, AppendElement, AppendProperties
  <1>9. Way(Append(way, x), lost, x)
    BY <1>1, <1>3, <1>5, <1>7, <1>8 DEF Way
  <1> QED BY <1>9 DEF x

LEMMA WayLoses ==
    ASSUME NEW a \in Seq(Items), NEW g \in Seq(Items), NEW r \in Seq(Items), NEW lost, NEW n,
           Way(a \o (g \o r), lost, n)
    PROVE  Way(a \o r, lost \cup Range(g), n)
  <1> DEFINE gr == g \o r
  <1>1. gr \in Seq(Items) /\ Range(gr) = Range(g) \cup Range(r)
    BY ConcatProperties, RangeConcatenation
  <1>2. Ascending(gr) => Ascending(r)
    BY AscendingConcat
  <1>3. Way(a \o gr, lost, n)
    OBVIOUS
  <1> HIDE DEF gr
  <1>4. Ascending(a) /\ Ascending(gr) /\ \A x \in Range(a), y \in Range(gr) : x < y
    BY <1>1, <1>3, AscendingConcat DEF Way
  <1>5. Range(a \o gr) = Range(a) \cup Range(gr)
    BY <1>1, RangeConcatenation
  <1>6. a \o r \in Seq(Items) /\ Range(a \o r) = Range(a) \cup Range(r)
    BY ConcatProperties, RangeConcatenation
  <1>7. \A x \in Range(a), y \in Range(r) : x < y
    BY <1>1, <1>4
  <1>8. Ascending(a \o r)
    BY <1>2, <1>4, <1>7, AscendingConcat
  <1>9. Range(a \o gr) \cup lost = 1..n
    BY <1>3 DEF Way
  <1> QED BY <1>1, <1>5, <1>6, <1>8, <1>9 DEF Way

-----------------------------------------------------------------------------
(* The items of a channel.                                                 *)

Passing == Items \cup {Control, Nothing}
AsItem(x) == IF x \in Items THEN <<x>> ELSE << >>
AsItems(s) == [i \in DOMAIN s |-> AsItem(s[i])]

LEMMA ControlIsNoItem == Control \notin Items /\ Nothing \notin Items /\ Control \in Passing
  <1>1. 0 \notin 1..MaxItems
    BY CacheAssumption
  <1> QED BY <1>1, CacheAssumption DEF Control, Items, Passing

LEMMA AsItemIs ==
    ASSUME NEW x
    PROVE  AsItem(x) \in Seq(Items) /\ Range(AsItem(x)) = {x} \cap Items
  <1>1. CASE x \in Items
    <2>1. <<x>> \in Seq(Items) /\ Range(<<x>>) = {x}
      BY <1>1 DEF Range
    <2> QED BY <1>1, <2>1 DEF AsItem
  <1>2. CASE x \notin Items
    <2>1. << >> \in Seq(Items) /\ Range(<< >>) = {}
      BY DEF Range
    <2> QED BY <1>2, <2>1 DEF AsItem
  <1> QED BY <1>1, <1>2

LEMMA AsItemsIs ==
    ASSUME NEW s \in Seq(Passing)
    PROVE  /\ AsItems(s) \in Seq(Seq(Items)) /\ Len(AsItems(s)) = Len(s)
           /\ \A i \in 1..Len(s) : AsItems(s)[i] = AsItem(s[i])
           /\ ItemsIn(s) = FlattenSeq(AsItems(s)) /\ ItemsIn(s) \in Seq(Items)
  <1>1. Len(s) \in Nat /\ DOMAIN s = 1..Len(s)
    BY LenProperties
  <1>2. AsItems(s) = [i \in 1..Len(s) |-> AsItem(s[i])]
    BY <1>1 DEF AsItems
  <1>3. \A i \in 1..Len(s) : AsItem(s[i]) \in Seq(Items)
    BY AsItemIs
  <1>4. AsItems(s) \in Seq(Seq(Items)) /\ Len(AsItems(s)) = Len(s)
        /\ \A i \in 1..Len(s) : AsItems(s)[i] = AsItem(s[i])
    BY <1>1, <1>2, <1>3
  <1>5. ItemsIn(s) = FlattenSeq(AsItems(s))
    BY DEF ItemsIn, AsItems, AsItem
  <1> HIDE DEF AsItems
  <1> QED BY <1>4, <1>5, FlattenType

LEMMA ItemsInEmpty == ItemsIn(<< >>) = << >>
  <1>1. << >> \in Seq(Passing) /\ Len(<< >>) = 0
    OBVIOUS
  <1>2. AsItems(<< >>) \in Seq(Seq(Items)) /\ Len(AsItems(<< >>)) = 0
        /\ ItemsIn(<< >>) = FlattenSeq(AsItems(<< >>))
    BY <1>1, AsItemsIs
  <1>3. AsItems(<< >>) = << >>
    BY <1>2, EmptySeq
  <1> QED BY <1>2, <1>3, FlattenEmpty

LEMMA ItemsInRange ==
    ASSUME NEW s \in Seq(Passing)
    PROVE  Range(ItemsIn(s)) = Range(s) \cap Items
  <1> DEFINE a == AsItems(s)
  <1>1. /\ a \in Seq(Seq(Items)) /\ Len(a) = Len(s)
        /\ \A i \in 1..Len(s) : a[i] = AsItem(s[i])
        /\ ItemsIn(s) = FlattenSeq(a)
    BY AsItemsIs
  <1> HIDE DEF a
  <1>2. Range(FlattenSeq(a)) = UNION {Range(a[i]) : i \in 1..Len(a)}
    BY <1>1, FlattenRange
  <1>3. \A i \in 1..Len(s) : Range(a[i]) = {s[i]} \cap Items
    BY <1>1, AsItemIs
  <1>4. Range(s) = {s[i] : i \in 1..Len(s)}
    BY LenProperties DEF Range
  <1> QED BY <1>1, <1>2, <1>3, <1>4

LEMMA ItemsInAppend ==
    ASSUME NEW s \in Seq(Passing), NEW x \in Passing
    PROVE  ItemsIn(Append(s, x)) = ItemsIn(s) \o AsItem(x)
  <1> DEFINE t == Append(s, x)
             a == AsItems(s)
             b == AsItems(t)
  <1>1. /\ t \in Seq(Passing) /\ Len(t) = Len(s) + 1 /\ Len(s) \in Nat
        /\ (\A i \in 1..Len(s) : t[i] = s[i]) /\ t[Len(s) + 1] = x
    BY AppendProperties, LenProperties
  <1> HIDE DEF t
  <1>2. /\ a \in Seq(Seq(Items)) /\ Len(a) = Len(s)
        /\ \A i \in 1..Len(s) : a[i] = AsItem(s[i])
        /\ ItemsIn(s) = FlattenSeq(a)
    BY AsItemsIs
  <1>3. /\ b \in Seq(Seq(Items)) /\ Len(b) = Len(t)
        /\ \A i \in 1..Len(t) : b[i] = AsItem(t[i])
        /\ ItemsIn(t) = FlattenSeq(b)
    BY <1>1, AsItemsIs
  <1> HIDE DEF a, b
  <1>4. AsItem(x) \in Seq(Items)
    BY AsItemIs
  <1> DEFINE p == AsItem(x)
  <1> HIDE DEF p
  <1>5. b = Append(a, p)
    <2>1. Append(a, p) \in Seq(Seq(Items)) /\ Len(Append(a, p)) = Len(b)
      BY <1>1, <1>2, <1>3, <1>4, AppendProperties DEF p
    <2>2. \A i \in 1..Len(b) : b[i] = Append(a, p)[i]
      <3> SUFFICES ASSUME NEW i \in 1..Len(b) PROVE b[i] = Append(a, p)[i]
        OBVIOUS
      <3>1. CASE i = Len(s) + 1
        BY <1>1, <1>2, <1>3, <1>4, <3>1, AppendProperties DEF p
      <3>2. CASE i # Len(s) + 1
        <4>1. i \in 1..Len(s)
          BY <1>1, <1>3, <3>2
        <4> QED BY <1>1, <1>2, <1>3, <1>4, <4>1, AppendProperties DEF p
      <3> QED BY <3>1, <3>2
    <2> QED BY <1>3, <2>1, <2>2, SeqEqual
  <1>6. FlattenSeq(Append(a, p)) = FlattenSeq(a) \o p
    BY <1>2, <1>4, FlattenAppend DEF p
  <1> QED BY <1>2, <1>3, <1>5, <1>6 DEF p, t

LEMMA ItemsInHead ==
    ASSUME NEW s \in Seq(Passing), s # << >>
    PROVE  /\ ItemsIn(<<Head(s)>>) = AsItem(Head(s))
           /\ ItemsIn(s) = AsItem(Head(s)) \o ItemsIn(Tail(s))
  <1> DEFINE h == Head(s)
             t == Tail(s)
             a == AsItems(s)
             b == AsItems(t)
             p == AsItem(h)
  <1>1. /\ h \in Passing /\ t \in Seq(Passing) /\ Len(s) = Len(t) + 1 /\ Len(t) \in Nat
        /\ s[1] = h /\ \A i \in 1..Len(t) : s[i + 1] = t[i]
    OBVIOUS
  <1> HIDE DEF h, t
  <1>2. /\ a \in Seq(Seq(Items)) /\ Len(a) = Len(s)
        /\ \A i \in 1..Len(s) : a[i] = AsItem(s[i])
        /\ ItemsIn(s) = FlattenSeq(a)
    BY AsItemsIs
  <1>3. /\ b \in Seq(Seq(Items)) /\ Len(b) = Len(t)
        /\ \A i \in 1..Len(t) : b[i] = AsItem(t[i])
        /\ ItemsIn(t) = FlattenSeq(b)
    BY <1>1, AsItemsIs
  <1>4. p \in Seq(Items)
    BY AsItemIs
  <1> HIDE DEF a, b, p
  <1>5. a = <<p>> \o b
    <2>1. /\ <<p>> \in Seq(Seq(Items)) /\ Len(<<p>>) = 1 /\ <<p>>[1] = p
      BY <1>4
    <2> DEFINE q == <<p>>
    <2> HIDE DEF q
    <2>2. /\ q \o b \in Seq(Seq(Items)) /\ Len(q \o b) = 1 + Len(b)
          /\ \A i \in 1..(1 + Len(b)) : (q \o b)[i] = IF i <= 1 THEN q[i] ELSE b[i - 1]
      BY <1>3, <2>1, ConcatProperties DEF q
    <2>3. Len(q \o b) = Len(a) /\ Len(b) \in Nat
      BY <1>1, <1>2, <1>3, <2>2
    <2>4. \A i \in 1..Len(a) : a[i] = (q \o b)[i]
      <3> SUFFICES ASSUME NEW i \in 1..Len(a) PROVE a[i] = (q \o b)[i]
        OBVIOUS
      <3>1. CASE i = 1
        BY <1>1, <1>2, <1>3, <2>1, <2>2, <2>3, <3>1 DEF p, q
      <3>2. CASE i # 1
        <4>1. i - 1 \in 1..Len(t) /\ (i - 1) + 1 = i /\ ~(i <= 1) /\ i \in 1..(1 + Len(b))
          BY <1>1, <1>2, <1>3, <3>2
        <4>2. s[i] = t[i - 1]
          BY <1>1, <4>1
        <4> QED BY <1>1, <1>2, <1>3, <2>2, <4>1, <4>2
      <3> QED BY <3>1, <3>2
    <2> QED BY <1>2, <2>2, <2>3, <2>4, SeqEqual DEF q
  <1>6. FlattenSeq(<<p>> \o b) = p \o FlattenSeq(b)
    BY <1>3, <1>4, FlattenHead
  <1>7. ItemsIn(<<h>>) = p
    <2>1. << >> \in Seq(Passing) /\ <<h>> = Append(<< >>, h)
      OBVIOUS
    <2>2. ItemsIn(Append(<< >>, h)) = ItemsIn(<< >>) \o AsItem(h)
      BY <1>1, <2>1, ItemsInAppend
    <2>3. << >> \o p = p
      BY <1>4, Empties
    <2> QED BY <2>1, <2>2, <2>3, ItemsInEmpty DEF p
  <1> QED BY <1>2, <1>3, <1>5, <1>6, <1>7 DEF p, h, t

-----------------------------------------------------------------------------
(* The cache node, in the first run or with a cache that is cleaned.       *)

OpTypes ==
    /\ currItem \in Items \cup {Nothing}
    /\ hasCache \in BOOLEAN /\ cancelled \in BOOLEAN
    /\ pc \in {"select", "send", "broadcast"}
    /\ out \in Seq(Passing) /\ Len(out) <= MemoryCacheThreshold
    /\ controls \in 0..MaxControls
    /\ delivered \in Seq(Items) /\ forgone \subseteq Items

\* Who waits for whom: an item waits to be sent only while the node sends, holds a cache, or
\* ends; and there is nothing in a cache that the node does not know it has.
OpControl ==
    /\ pc = "broadcast" => currItem # Nothing
    /\ pc = "select" /\ ~hasCache /\ currItem # Nothing => cancelled
    /\ ~hasCache => Contents = << >>
    /\ cancelled => starts < MaxStarts
    /\ up => Full
    /\ ~up => /\ CleanCacheAtStop /\ out = << >> /\ currItem = Nothing /\ pc = "select"
              /\ ~hasCache /\ ~cancelled

AllOnWay == Way(delivered \o Pipeline, overflowed \cup forgone, added)

OpInv == CacheInv /\ OpTypes /\ OpControl /\ AllOnWay

\* What an instance is about: its first run, or runs that share nothing.
OneRun == CleanCacheAtStop \/ MaxStarts = 1

LEMMA PipelineIs ==
    ASSUME CacheTypes, OpTypes
    PROVE  /\ ItemsIn(out) \in Seq(Items) /\ Current \in Seq(Items) /\ Contents \in Seq(Items)
           /\ Range(Current) = Unsent /\ Pipeline = (ItemsIn(out) \o Current) \o Contents
           /\ Pipeline \in Seq(Items) /\ delivered \in Seq(Items)
           /\ Range(ItemsIn(out)) = Range(out) \cap Items
  <1>1. currItem \in Items \cup {Nothing} /\ out \in Seq(Passing) /\ delivered \in Seq(Items)
    BY DEF OpTypes
  <1>2. ItemsIn(out) \in Seq(Items) /\ Range(ItemsIn(out)) = Range(out) \cap Items
    BY <1>1, AsItemsIs, ItemsInRange
  <1>3. Current \in Seq(Items) /\ Range(Current) = Unsent
    <2>1. CASE currItem = Nothing
      <3>1. << >> \in Seq(Items) /\ Range(<< >>) = {}
        BY DEF Range
      <3> QED BY <2>1, <3>1, ControlIsNoItem DEF Current, Unsent
    <2>2. CASE currItem # Nothing
      <3>1. <<currItem>> \in Seq(Items) /\ Range(<<currItem>>) = {currItem} /\ currItem \in Items
        BY <1>1, <2>2 DEF Range
      <3> QED BY <2>2, <3>1 DEF Current, Unsent
    <2> QED BY <2>1, <2>2
  <1>4. Contents \in Seq(Items)
    BY ContentsType
  <1>5. Pipeline = (ItemsIn(out) \o Current) \o Contents
    BY DEF Pipeline
  <1> DEFINE i == ItemsIn(out)
  <1> HIDE DEF i
  <1>6. i \in Seq(Items)
    BY <1>2 DEF i
  <1>7. i \o Current \in Seq(Items)
    BY <1>3, <1>6, ConcatProperties
  <1> DEFINE ic == i \o Current
  <1> HIDE DEF ic
  <1>8. ic \o Contents \in Seq(Items)
    <2>1. ic \in Seq(Items)
      BY <1>7 DEF ic
    <2> QED BY <1>4, <2>1, ConcatProperties
  <1> QED BY <1>1, <1>2, <1>3, <1>4, <1>5, <1>8 DEF i, ic

LEMMA OpInvInit == OpInit => OpInv
  <1> SUFFICES ASSUME OpInit PROVE OpInv
    OBVIOUS
  <1>1. /\ CacheInit /\ currItem = Nothing /\ hasCache = FALSE /\ pc = "select"
        /\ out = << >> /\ cancelled = FALSE /\ controls = 0
        /\ delivered = << >> /\ forgone = {}
    BY DEF OpInit
  <1>2. CacheInv /\ Parts(0) /\ Full /\ Contents = << >>
    BY <1>1, CacheInvInit, InitHasParts
  <1>3. up = TRUE /\ added = 0 /\ overflowed = {}
    BY <1>1 DEF CacheInit
  <1>4. << >> \in Seq(Items) /\ << >> \in Seq(Passing) /\ Len(<< >>) = 0 /\ Range(<< >>) = {}
        /\ << >> \o << >> = << >> /\ Ascending(<< >>)
    BY DEF Range, Ascending
  <1>5. OpTypes
    <2>1. 0 <= MemoryCacheThreshold /\ 0 \in 0..MaxControls
      BY CacheOpAssumption
    <2>2. out \in Seq(Passing) /\ Len(out) <= MemoryCacheThreshold
      BY <1>1, <1>4, <2>1
    <2>3. delivered \in Seq(Items)
      BY <1>1, <1>4
    <2> QED BY <1>1, <2>1, <2>2, <2>3 DEF OpTypes
  <1>6. OpControl
    BY <1>1, <1>2, <1>3 DEF OpControl
  <1>7. delivered \o Pipeline = << >>
    <2>1. Current = << >>
      BY <1>1 DEF Current
    <2>2. Pipeline = << >>
      BY <1>1, <1>2, <1>4, <2>1, ItemsInEmpty DEF Pipeline
    <2> QED BY <1>1, <1>4, <2>2
  <1>8. AllOnWay
    <2>1. Way(<< >>, {}, 0)
      BY <1>4 DEF Way
    <2>2. overflowed \cup forgone = {}
      BY <1>1, <1>3
    <2> QED BY <1>3, <1>7, <2>1, <2>2 DEF AllOnWay
  <1> QED BY <1>2, <1>5, <1>6, <1>8 DEF OpInv

\* A step that leaves the cache alone leaves what is known of it.
LEMMA CacheRests ==
    ASSUME UNCHANGED cacheVars
    PROVE  /\ Contents' = Contents /\ overflowed' = overflowed
           /\ Full => Full'
           /\ CacheTypes => CacheTypes'
  BY DEF cacheVars, memory, Contents, Full, CacheTypes

\* An item that is not cached has only to be counted.
LEMMA CountedOnly ==
    ASSUME CacheInv, up, added < MaxItems, added' = added + 1, UNCHANGED <<cacheVars, up, starts>>
    PROVE  CacheInv'
  <1> PICK n \in Nat : n = added
    BY CacheAssumption DEF CacheInv
  <1>1. /\ UNCHANGED <<readBuffer, writeBuffer, diskSize, diskPageHead, diskPageTail,
                       CacheLength, kv, popped, overflowed, up, starts>>
    BY DEF cacheVars, memory
  <1>2. added' \in 0..MaxItems /\ 1..n \subseteq 1..(n + 1) /\ added' = n + 1
    BY CacheAssumption DEF CacheInv
  <1>3. Parts(added)'
    BY <1>1, <1>2 DEF CacheInv, Parts, CacheTypes, Apart, UpTo, Held
  <1>4. (up => Ring)' /\ (~up => Down /\ starts < MaxStarts)'
    BY <1>1 DEF CacheInv, Ring, Down
  <1>5. (FirstRun => Full)'
    BY <1>1 DEF CacheInv, FirstRun, Full, Contents
  <1> QED BY <1>1, <1>2, <1>3, <1>4, <1>5 DEF CacheInv

LEMMA OpCache ==
    ASSUME OpInv, [OpNext]_allVars
    PROVE  CacheInv'
  <1>1. CacheInv
    BY DEF OpInv
  <1>2. CASE Receive
    <2>1. up /\ added < MaxItems /\ added' = added + 1 /\ up' = up /\ starts' = starts
      BY <1>2 DEF Receive
    <2>2. CASE hasCache
      <3>1. AddCache(added + 1)
        BY <1>2, <2>1, <2>2 DEF Receive
      <3>2. Add
        BY <2>1, <3>1 DEF Add
      <3> QED BY <1>1, <3>2, CacheInvNext DEF CacheNext
    <2>3. CASE ~hasCache
      <3>1. UNCHANGED <<cacheVars, up, starts>>
        BY <1>2, <2>1, <2>3 DEF Receive
      <3> QED BY <1>1, <2>1, <3>1, CountedOnly
    <2> QED BY <2>2, <2>3
  <1>3. CASE Send
    <2>1. up /\ UNCHANGED <<up, starts, added>>
      BY <1>3 DEF Send
    <2>2. CASE SendCached
      <3>1. Pop
        BY <2>1, <2>2 DEF SendCached, Pop
      <3> QED BY <1>1, <3>1, CacheInvNext DEF CacheNext
    <2>3. CASE SendCurrent \/ AllSent
      <3>1. UNCHANGED syncVars
        BY <2>1, <2>3 DEF SendCurrent, AllSent, syncVars
      <3> QED BY <1>1, <3>1, CacheInvNext
    <2> QED BY <1>3, <2>2, <2>3 DEF Send
  <1>4. CASE Close
    <2>1. Stop
      <3>1. up /\ cancelled /\ Flush /\ up' = FALSE /\ UNCHANGED <<starts, added>>
        BY <1>4 DEF Close, End
      <3>2. starts < MaxStarts
        BY <3>1 DEF OpInv, OpControl
      <3> QED BY <3>1, <3>2 DEF Stop
    <2> QED BY <1>1, <2>1, CacheInvNext DEF CacheNext
  <1>5. CASE CrashNode
    <2>1. Crash
      BY <1>5 DEF CrashNode, End, Crash
    <2> QED BY <1>1, <2>1, CacheInvNext DEF CacheNext
  <1>6. CASE StartNode
    <2>1. Start
      BY <1>6 DEF StartNode
    <2> QED BY <1>1, <2>1, CacheInvNext DEF CacheNext
  <1>7. CASE ReceiveControl \/ Tick \/ Broadcast \/ Collect \/ Cancel \/ UNCHANGED allVars
    <2>1. UNCHANGED syncVars
      BY <1>7 DEF ReceiveControl, Tick, Broadcast, Collect, Cancel, allVars
    <2> QED BY <1>1, <2>1, CacheInvNext
  <1> QED BY <1>2, <1>3, <1>4, <1>5, <1>6, <1>7 DEF OpNext

\* What a step finds: the parts of the invariant, one by one.
LEMMA OpFacts ==
    ASSUME OpInv
    PROVE  /\ CacheTypes /\ OpTypes /\ added \in Nat /\ overflowed \subseteq Items
           /\ (up => Ring) /\ (up => Full)
           /\ ItemsIn(out) \in Seq(Items) /\ Current \in Seq(Items) /\ Contents \in Seq(Items)
           /\ Range(Current) = Unsent /\ Pipeline = (ItemsIn(out) \o Current) \o Contents
           /\ Pipeline \in Seq(Items) /\ delivered \in Seq(Items)
           /\ Way(delivered \o Pipeline, overflowed \cup forgone, added)
  <1>1. CacheTypes /\ OpTypes /\ added \in Nat /\ overflowed \subseteq Items
    BY CacheAssumption DEF OpInv, CacheInv, Parts, CacheTypes
  <1>2. (up => Ring) /\ (up => Full)
    BY DEF OpInv, CacheInv, OpControl
  <1>3. Way(delivered \o Pipeline, overflowed \cup forgone, added)
    BY DEF OpInv, AllOnWay
  <1> QED BY <1>1, <1>2, <1>3, PipelineIs

LEMMA WaySame ==
    ASSUME AllOnWay, delivered' \o Pipeline' = delivered \o Pipeline,
           overflowed' = overflowed, forgone' = forgone, added' = added
    PROVE  AllOnWay'
  BY DEF AllOnWay

LEMMA MidParts ==
    \A S : \A d, i, c, k \in Seq(S) :
        Cat(d, Cat(Cat(i, c), k)) = Cat(Cat(d, i), Cat(c, k))
  <1> SUFFICES ASSUME NEW S, NEW d \in Seq(S), NEW i \in Seq(S), NEW c \in Seq(S),
                      NEW k \in Seq(S)
               PROVE  Cat(d, Cat(Cat(i, c), k)) = Cat(Cat(d, i), Cat(c, k))
    OBVIOUS
  <1>1. Cat(c, k) \in Seq(S)
    BY ConcatProperties DEF Cat
  <1> QED BY <1>1, CatAssociative

LEMMA PartTypes ==
    ASSUME NEW S, NEW d \in Seq(S), NEW i \in Seq(S), NEW c \in Seq(S)
    PROVE  d \o (i \o c) \in Seq(S) /\ d \o i \in Seq(S) /\ i \o c \in Seq(S)
  OBVIOUS

\* Every item of a sequence may be lost.
LEMMA AllLost ==
    ASSUME NEW a \in Seq(Items), NEW g \in Seq(Items), NEW lost, NEW n, Way(a \o g, lost, n)
    PROVE  Way(a, lost \cup Range(g), n)
  <1>1. g \o << >> = g /\ a \o << >> = a /\ << >> \in Seq(Items)
    BY Empties
  <1>2. Way(a \o (g \o << >>), lost, n)
    BY <1>1
  <1>3. Way(a \o << >>, lost \cup Range(g), n)
    BY <1>1, <1>2, WayLoses
  <1> QED BY <1>1, <1>3

LEMMA ReceiveKeeps ==
    ASSUME OpInv, Receive
    PROVE  OpTypes' /\ OpControl' /\ AllOnWay'
  <1> DEFINE x == added + 1
             I == ItemsIn(out)
             C == Current
             K == Contents
             D == delivered
             lost == overflowed \cup forgone
  <1>1. /\ CacheTypes /\ OpTypes /\ added \in Nat /\ Ring /\ Full /\ up
        /\ overflowed \subseteq Items
    BY OpFacts DEF Receive
  <1>2. D \in Seq(Items)
    BY OpFacts
  <1>7. I \in Seq(Items)
    BY OpFacts
  <1>8. C \in Seq(Items)
    BY OpFacts
  <1>9. K \in Seq(Items)
    BY OpFacts
  <1>3. Way(D \o ((I \o C) \o K), lost, added)
    BY OpFacts
  <1>4. /\ pc = "select" /\ added < MaxItems /\ added' = x /\ pc' = "send"
        /\ UNCHANGED <<up, starts, hasCache, out, cancelled, controls, delivered>>
    BY DEF Receive
  <1>5. x \in Items /\ x # Nothing
    <2>1. x \in Items
      BY <1>1, <1>4, CacheAssumption DEF Items
    <2> QED BY <2>1, ControlIsNoItem
  <1>6. OpTypes' /\ OpControl' /\ AllOnWay'
    <2>1. CASE hasCache
      <3>1. AddCache(x) /\ currItem' = currItem /\ forgone' = forgone
        BY <1>4, <2>1 DEF Receive
      <3> HIDE DEF x
      <3>2. /\ Full'
            /\ \/ Contents' = Append(Contents, x) /\ overflowed' = overflowed
               \/ \E gone, rest \in Seq(Items) :
                      /\ Contents = gone \o rest /\ Contents' = Append(rest, x)
                      /\ overflowed' = overflowed \cup Range(gone)
                      /\ Len(gone) \in 1..(Len(Contents) - (MaxDiskPage + 1) * BufferPageSize
                                               + BufferPageSize)
                      /\ Len(Contents) >= (MaxDiskPage + 1) * BufferPageSize
        BY <1>1, <1>5, <3>1, AddIsQueued
      <3>3. OpTypes'
        BY <1>1, <1>4, <3>1 DEF OpTypes
      <3>4. OpControl'
        <4>1. OpControl
          BY DEF OpInv
        <4> QED BY <1>1, <1>4, <2>1, <3>1, <3>2, <4>1 DEF OpControl
      <3> DEFINE A == D \o (I \o C)
      <3>5. D \o ((I \o C) \o K) = A \o K /\ A \in Seq(Items)
        <4>1. A \in Seq(Items)
          BY <1>2, <1>7, <1>8, PartTypes
        <4> HIDE DEF I, C, K, D
        <4>2. D \o ((I \o C) \o K) = (D \o (I \o C)) \o K
          <5> DEFINE ic == I \o C
          <5>1. ic \in Seq(Items)
            BY <1>7, <1>8, PartTypes
          <5> HIDE DEF ic
          <5>2. Cat(D, Cat(ic, K)) = Cat(Cat(D, ic), K)
            BY <1>2, <1>9, <5>1, CatAssociative
          <5> QED BY <5>2 DEF Cat, ic
        <4> QED BY <4>1, <4>2
      <3>6. delivered' \o Pipeline' = D \o ((I \o C) \o Contents')
        <4>1. Current' = C
          BY <3>1 DEF Current
        <4> QED BY <1>4, <4>1 DEF Pipeline
      <3> HIDE DEF I, C, K, D, A, lost
      <3>7. ASSUME NEW t \in Seq(Items), Contents' = Append(t, x)
            PROVE  delivered' \o Pipeline' = Append(A \o t, x)
        <4>1. Append(t, x) \in Seq(Items)
          BY <1>5, AppendProperties
        <4>2. D \o ((I \o C) \o Append(t, x)) = A \o Append(t, x)
          <5> DEFINE q == Append(t, x)
                     ic == I \o C
          <5>1. q \in Seq(Items)
            BY <4>1
          <5>2. ic \in Seq(Items)
            BY <1>7, <1>8, PartTypes
          <5> HIDE DEF q, ic
          <5>3. Cat(D, Cat(ic, q)) = Cat(Cat(D, ic), q)
            BY <1>2, <5>1, <5>2, CatAssociative
          <5> QED BY <5>3 DEF Cat, A, q, ic
        <4>3. A \o Append(t, x) = Append(A \o t, x)
          <5>1. << >> \o A = A
            BY <3>5, Empties
          <5>2. << >> \o A \o Append(t, x) = Append(<< >> \o A \o t, x)
            <6>1. << >> \in Seq(Items)
              OBVIOUS
            <6> QED BY <1>5, <3>5, <6>1, Behind
          <5> QED BY <5>1, <5>2
        <4> QED BY <3>6, <3>7, <4>2, <4>3
      <3>8. ASSUME NEW t \in Seq(Items), NEW gone, Way(A \o t, gone, added)
            PROVE  Way(Append(A \o t, x), gone, x)
        BY <1>1, <1>5, <3>8, WayGrows DEF x
      <3>9. CASE Contents' = Append(K, x) /\ overflowed' = overflowed
        <4>1. Way(Append(A \o K, x), lost, x)
          BY <1>9, <1>3, <3>5, <3>8
        <4>2. delivered' \o Pipeline' = Append(A \o K, x)
          BY <1>9, <3>7, <3>9
        <4> QED BY <1>4, <3>1, <3>3, <3>4, <3>9, <4>1, <4>2 DEF AllOnWay, lost
      <3>10. ASSUME NEW gone \in Seq(Items), NEW rest \in Seq(Items),
                    K = gone \o rest, Contents' = Append(rest, x),
                    overflowed' = overflowed \cup Range(gone)
             PROVE  AllOnWay'
        <4>1. Way(A \o (gone \o rest), lost, added)
          BY <1>3, <3>5, <3>10
        <4>2. Way(A \o rest, lost \cup Range(gone), added)
          BY <3>5, <4>1, WayLoses
        <4>3. Way(Append(A \o rest, x), lost \cup Range(gone), x)
          BY <3>8, <4>2
        <4>4. delivered' \o Pipeline' = Append(A \o rest, x)
          BY <3>7, <3>10
        <4>5. overflowed' \cup forgone' = lost \cup Range(gone)
          BY <3>1, <3>10 DEF lost
        <4> QED BY <1>4, <4>3, <4>4, <4>5 DEF AllOnWay
      <3> QED BY <3>2, <3>3, <3>4, <3>9, <3>10 DEF K
    <2>2. CASE ~hasCache
      <3>1. /\ currItem' = x /\ UNCHANGED cacheVars
            /\ forgone' = forgone \cup (IF cancelled THEN Unsent ELSE {})
        BY <1>4, <2>2 DEF Receive
      <3>2. Contents' = Contents /\ overflowed' = overflowed /\ Full'
        BY <1>1, <3>1, CacheRests
      <3>3. Contents = << >> /\ (currItem # Nothing => cancelled)
        BY <1>4, <2>2 DEF OpInv, OpControl
      <3>4. Range(C) = Unsent /\ (IF cancelled THEN Unsent ELSE {}) = Range(C)
        <4>1. Range(C) = Unsent
          BY OpFacts
        <4>2. ~cancelled => Unsent = {}
          BY <3>3, ControlIsNoItem DEF Unsent
        <4> QED BY <4>1, <4>2
      <3>5. OpTypes'
        <4>1. Unsent \subseteq Items
          BY DEF Unsent
        <4> QED BY <1>1, <1>4, <1>5, <3>1, <4>1 DEF OpTypes
      <3>6. OpControl'
        <4>1. OpControl
          BY DEF OpInv
        <4> QED BY <1>1, <1>4, <3>1, <3>2, <3>3, <4>1 DEF OpControl
      <3>7. Current' = <<x>>
        BY <1>5, <3>1 DEF Current
      <3>8. delivered' \o Pipeline' = D \o ((I \o <<x>>) \o << >>)
        BY <1>4, <3>2, <3>3, <3>7 DEF Pipeline
      <3> DEFINE xs == <<x>>
      <3>9. xs \in Seq(Items)
        BY <1>5
      <3>10. D \o I \in Seq(Items) /\ (D \o I) \o <<x>> = Append(D \o I, x)
        <4>1. D \o I \in Seq(Items)
          BY <1>2, <1>7, ConcatProperties
        <4> DEFINE di == D \o I
        <4>2. di \in Seq(Items)
          BY <4>1
        <4> HIDE DEF di, x
        <4>3. Append(di, x) = di \o <<x>>
          BY <1>5, <4>2, AppendIsConcat
        <4> QED BY <4>1, <4>3 DEF di
      <3> HIDE DEF I, C, K, D, lost, x, xs
      <3>11. D \o ((I \o xs) \o << >>) = (D \o I) \o (xs \o << >>) /\ xs \o << >> = xs
        <4>1. << >> \in Seq(Items)
          OBVIOUS
        <4>2. xs \o << >> = xs
          BY <3>9, Empties
        <4>3. D \o ((I \o xs) \o << >>) = (D \o I) \o (xs \o << >>)
          <5> DEFINE e == << >>
          <5>1. e \in Seq(Items)
            BY <4>1
          <5> HIDE DEF e
          <5>2. Cat(D, Cat(Cat(I, xs), e)) = Cat(Cat(D, I), Cat(xs, e))
            BY <1>2, <1>7, <3>9, <5>1, MidParts
          <5> QED BY <5>2 DEF Cat, e
        <4> QED BY <4>2, <4>3
      <3>12. D \o ((I \o C) \o K) = (D \o I) \o C
        <4>1. << >> \in Seq(Items)
          OBVIOUS
        <4>2. C \o << >> = C
          BY <1>8, Empties
        <4>3. D \o ((I \o C) \o << >>) = (D \o I) \o (C \o << >>)
          <5> DEFINE e == << >>
          <5>1. e \in Seq(Items)
            BY <4>1
          <5> HIDE DEF e
          <5>2. Cat(D, Cat(Cat(I, C), e)) = Cat(Cat(D, I), Cat(C, e))
            BY <1>2, <1>7, <1>8, <5>1, MidParts
          <5> QED BY <5>2 DEF Cat, e
        <4> QED BY <3>3, <4>2, <4>3 DEF K
      <3>13. Way(D \o I, lost \cup Range(C), added)
        <4> DEFINE di == D \o I
        <4>1. di \in Seq(Items) /\ Way(di \o C, lost, added)
          BY <1>3, <3>10, <3>12
        <4> HIDE DEF di
        <4>2. Way(di, lost \cup Range(C), added)
          BY <1>8, <4>1, AllLost
        <4> QED BY <4>2 DEF di
      <3>14. Way(Append(D \o I, x), lost \cup Range(C), x)
        <4> DEFINE di == D \o I
                   l == lost \cup Range(C)
        <4>1. Way(di, l, added) /\ added + 1 \in Items
          BY <1>5, <3>13 DEF x
        <4> HIDE DEF di, l
        <4>2. Way(Append(di, added + 1), l, added + 1)
          BY <1>1, <4>1, WayGrows
        <4> QED BY <4>2 DEF di, l, x
      <3>15. overflowed' \cup forgone' = lost \cup Range(C)
        BY <3>1, <3>2, <3>4 DEF lost
      <3>16. delivered' \o Pipeline' = Append(D \o I, x)
        BY <3>8, <3>10, <3>11 DEF xs
      <3>17. AllOnWay'
        BY <1>4, <3>14, <3>15, <3>16 DEF AllOnWay
      <3> QED BY <3>5, <3>6, <3>17
    <2> QED BY <2>1, <2>2
  <1> QED BY <1>6

\* A control tuple in the channel is no item on the way.
LEMMA ControlIsNotCounted ==
    ASSUME NEW s \in Seq(Passing)
    PROVE  ItemsIn(Append(s, Control)) = ItemsIn(s)
  <1>1. ItemsIn(Append(s, Control)) = ItemsIn(s) \o AsItem(Control)
    BY ControlIsNoItem, ItemsInAppend
  <1>2. AsItem(Control) = << >>
    BY ControlIsNoItem DEF AsItem
  <1>3. ItemsIn(s) \in Seq(Items)
    BY AsItemsIs
  <1>4. ItemsIn(s) \o << >> = ItemsIn(s)
    BY <1>3, Empties
  <1> QED BY <1>1, <1>2, <1>4

\* What leaves the channel was the first on the way.
LEMMA ChannelHead ==
    ASSUME OpInv, out # << >>
    PROVE  /\ Head(out) \in Passing /\ Tail(out) \in Seq(Passing) /\ Len(out) \in Nat
           /\ Len(Tail(out)) = Len(out) - 1
           /\ AsItem(Head(out)) \in Seq(Items) /\ (ItemsIn(Tail(out)) \o Current) \o Contents \in Seq(Items)
           /\ Pipeline = AsItem(Head(out)) \o ((ItemsIn(Tail(out)) \o Current) \o Contents)
  <1> DEFINE h == Head(out)
             t == Tail(out)
             g == AsItem(h)
             i == ItemsIn(t)
             c == Current
             k == Contents
  <1>1. out \in Seq(Passing)
    BY DEF OpInv, OpTypes
  <1>2. h \in Passing /\ t \in Seq(Passing) /\ Len(out) \in Nat /\ Len(t) = Len(out) - 1
    BY <1>1, HeadTailProperties
  <1>3. g \in Seq(Items)
    BY AsItemIs
  <1>4. i \in Seq(Items)
    BY <1>2, AsItemsIs
  <1>5. c \in Seq(Items)
    BY OpFacts
  <1>6. k \in Seq(Items)
    BY OpFacts
  <1>7. ItemsIn(out) = g \o i
    BY <1>1, ItemsInHead
  <1>8. Pipeline = ((g \o i) \o c) \o k
    BY <1>7, OpFacts
  <1> HIDE DEF g, i, c, k
  <1>9. ((g \o i) \o c) \o k = g \o ((i \o c) \o k)
    <2> DEFINE ic == i \o c
    <2>1. ic \in Seq(Items)
      BY <1>4, <1>5, ConcatProperties
    <2>2. Cat(Cat(g, i), c) = Cat(g, Cat(i, c))
      BY <1>3, <1>4, <1>5, CatAssociative
    <2> HIDE DEF ic
    <2>3. Cat(Cat(g, ic), k) = Cat(g, Cat(ic, k))
      BY <1>3, <1>6, <2>1, CatAssociative
    <2> QED BY <2>2, <2>3 DEF Cat, ic
  <1>10. (i \o c) \o k \in Seq(Items)
    <2> DEFINE ic == i \o c
    <2>1. ic \in Seq(Items)
      BY <1>4, <1>5, ConcatProperties
    <2> HIDE DEF ic
    <2>2. ic \o k \in Seq(Items)
      BY <1>6, <2>1, ConcatProperties
    <2> QED BY <2>2 DEF ic
  <1> QED BY <1>2, <1>3, <1>8, <1>9, <1>10 DEF g, i, c, k

LEMMA ReceiveControlKeeps ==
    ASSUME OpInv, ReceiveControl
    PROVE  OpTypes' /\ OpControl' /\ AllOnWay'
  <1>1. /\ CacheTypes /\ OpTypes /\ OpControl /\ AllOnWay /\ added \in Nat
        /\ overflowed \subseteq Items /\ Contents \in Seq(Items) /\ Current \in Seq(Items)
    BY OpFacts DEF OpInv
  <1>2. /\ up /\ pc = "select" /\ controls < MaxControls /\ controls' = controls + 1
        /\ UNCHANGED <<syncVars, currItem, hasCache, pc, cancelled, delivered>>
    BY DEF ReceiveControl
  <1>3. /\ UNCHANGED cacheVars /\ up' = up /\ starts' = starts /\ added' = added
    BY <1>2 DEF syncVars
  <1>4. Contents' = Contents /\ overflowed' = overflowed /\ (Full => Full')
    BY <1>1, <1>3, CacheRests
  <1>5. Current' = Current
    BY <1>2 DEF Current
  <1>6. OpControl'
    BY <1>1, <1>2, <1>3, <1>4 DEF OpControl
  <1>7. controls' \in 0..MaxControls /\ out \in Seq(Passing) /\ Len(out) <= MemoryCacheThreshold
        /\ Len(out) \in Nat /\ MemoryCacheThreshold \in Nat \ {0} /\ forgone \subseteq Items
    BY <1>1, <1>2, CacheOpAssumption, LenProperties DEF OpTypes
  <1>8. ASSUME out' \in Seq(Passing), Len(out') <= MemoryCacheThreshold, forgone' \subseteq Items
        PROVE  OpTypes'
    BY <1>1, <1>2, <1>7, <1>8 DEF OpTypes
  <1>9. CASE Len(out) < MemoryCacheThreshold /\ out' = Append(out, Control) /\ forgone' = forgone
    <2>1. out' \in Seq(Passing) /\ Len(out') = Len(out) + 1
      BY <1>7, <1>9, ControlIsNoItem, AppendProperties
    <2>2. Len(out') <= MemoryCacheThreshold
      BY <1>7, <1>9, <2>1
    <2>3. ItemsIn(out') = ItemsIn(out)
      BY <1>7, <1>9, ControlIsNotCounted
    <2>4. Pipeline' = Pipeline
      BY <1>4, <1>5, <2>3 DEF Pipeline
    <2>5. AllOnWay'
      BY <1>1, <1>2, <1>3, <1>4, <1>9, <2>4, WaySame
    <2> QED BY <1>6, <1>7, <1>8, <1>9, <2>1, <2>2, <2>5
  <1>10. CASE /\ Len(out) = MemoryCacheThreshold /\ out' = Append(Tail(out), Control)
              /\ forgone' = forgone \cup ({Head(out)} \cap Items)
    <2> DEFINE g == AsItem(Head(out))
               r == (ItemsIn(Tail(out)) \o Current) \o Contents
               lost == overflowed \cup forgone
    <2>1. out # << >>
      BY <1>7, <1>10
    <2>2. /\ Tail(out) \in Seq(Passing) /\ Len(Tail(out)) = Len(out) - 1
          /\ g \in Seq(Items) /\ r \in Seq(Items) /\ Pipeline = g \o r
      BY <2>1, ChannelHead
    <2>3. out' \in Seq(Passing) /\ Len(out') = Len(Tail(out)) + 1
      BY <1>10, <2>2, ControlIsNoItem, AppendProperties
    <2>4. Len(out') <= MemoryCacheThreshold
      BY <1>7, <1>10, <2>2, <2>3
    <2>5. ItemsIn(out') = ItemsIn(Tail(out))
      BY <1>10, <2>2, ControlIsNotCounted
    <2>6. Pipeline' = r
      BY <1>4, <1>5, <2>5 DEF Pipeline
    <2>7. Range(g) = {Head(out)} \cap Items
      BY AsItemIs
    <2>8. overflowed' \cup forgone' = lost \cup Range(g) /\ forgone' \subseteq Items
      BY <1>4, <1>7, <1>10, <2>7
    <2>9. Way(delivered \o (g \o r), lost, added) /\ delivered \in Seq(Items)
      BY <2>2, OpFacts
    <2> HIDE DEF g, r, lost
    <2>10. Way(delivered \o r, lost \cup Range(g), added)
      BY <2>2, <2>9, WayLoses
    <2>11. AllOnWay'
      BY <1>2, <1>3, <2>6, <2>8, <2>10 DEF AllOnWay
    <2> QED BY <1>6, <1>8, <2>3, <2>4, <2>8, <2>11
  <1>11. CASE out' = out /\ forgone' = forgone
    <2>1. Pipeline' = Pipeline
      BY <1>4, <1>5, <1>11 DEF Pipeline
    <2>2. AllOnWay'
      BY <1>1, <1>2, <1>3, <1>4, <1>11, <2>1, WaySame
    <2> QED BY <1>6, <1>7, <1>8, <1>11, <2>2
  <1> QED BY <1>9, <1>10, <1>11 DEF ReceiveControl

LEMMA TickKeeps ==
    ASSUME OpInv, Tick
    PROVE  OpTypes' /\ OpControl' /\ AllOnWay'
  <1>1. OpTypes /\ OpControl /\ AllOnWay /\ CacheTypes
    BY OpFacts DEF OpInv
  <1>2. /\ up /\ hasCache /\ pc' = "send"
        /\ UNCHANGED <<syncVars, currItem, hasCache, out, cancelled, controls, delivered, forgone>>
    BY DEF Tick
  <1>3. UNCHANGED cacheVars /\ up' = up /\ starts' = starts /\ added' = added
    BY <1>2 DEF syncVars
  <1>4. Contents' = Contents /\ overflowed' = overflowed /\ (Full => Full')
    BY <1>1, <1>3, CacheRests
  <1>5. OpTypes'
    BY <1>1, <1>2 DEF OpTypes
  <1>6. OpControl'
    BY <1>1, <1>2, <1>3, <1>4 DEF OpControl
  <1>7. Pipeline' = Pipeline
    BY <1>2, <1>4 DEF Pipeline, Current
  <1>8. AllOnWay'
    BY <1>1, <1>2, <1>3, <1>4, <1>7, WaySame
  <1> QED BY <1>5, <1>6, <1>8

LEMMA SendKeeps ==
    ASSUME OpInv, Send
    PROVE  OpTypes' /\ OpControl' /\ AllOnWay'
  <1>1. /\ CacheTypes /\ OpTypes /\ OpControl /\ AllOnWay /\ added \in Nat
        /\ (up => Ring) /\ (up => Full)
    BY OpFacts DEF OpInv
  <1>2. /\ up /\ pc = "send"
        /\ UNCHANGED <<up, starts, added, out, cancelled, controls, delivered, forgone>>
    BY DEF Send
  <1>3. Len(Contents) \in Nat /\ CacheLength = Len(Contents) /\ Contents \in Seq(Items)
    <2>1. Contents \in Seq(Items)
      BY OpFacts
    <2> QED BY <1>1, <1>2, <2>1, LenProperties DEF Full
  <1>4. CASE SendCurrent
    <2>1. /\ currItem # Nothing /\ pc' = "broadcast"
          /\ UNCHANGED <<cacheVars, currItem, hasCache>>
      BY <1>4 DEF SendCurrent
    <2>2. Contents' = Contents /\ overflowed' = overflowed /\ (Full => Full')
      BY <1>1, <2>1, CacheRests
    <2>3. OpTypes'
      BY <1>1, <1>2, <2>1 DEF OpTypes
    <2>4. OpControl'
      BY <1>1, <1>2, <2>1, <2>2 DEF OpControl
    <2>5. Pipeline' = Pipeline
      BY <1>2, <2>1, <2>2 DEF Pipeline, Current
    <2>6. AllOnWay'
      BY <1>1, <1>2, <2>2, <2>5, WaySame
    <2> QED BY <2>3, <2>4, <2>6
  <1>5. CASE SendCached
    <2>1. /\ currItem = Nothing /\ CacheLength > 0 /\ PopCache
          /\ currItem' = PopResult /\ pc' = "broadcast" /\ hasCache' = hasCache
      BY <1>5 DEF SendCached
    <2>2. Contents # << >>
      BY <1>3, <2>1
    <2>3. /\ Full' /\ overflowed' = overflowed
          /\ PopResult = Head(Contents) /\ Contents' = Tail(Contents)
      BY <1>1, <1>2, <2>1, <2>2, PopIsQueued
    <2> DEFINE h == Head(Contents)
               t == Tail(Contents)
               I == ItemsIn(out)
               K == Contents
    <2>4. h \in Items /\ t \in Seq(Items) /\ Contents = <<h>> \o t
      BY <1>3, <2>2
    <2>5. currItem' = h /\ currItem' # Nothing
      BY <2>1, <2>3, <2>4, ControlIsNoItem
    <2>6. hasCache
      BY <1>1, <2>2 DEF OpControl
    <2>7. OpTypes'
      BY <1>1, <1>2, <2>1, <2>4, <2>5 DEF OpTypes
    <2>8. OpControl'
      BY <1>1, <1>2, <2>1, <2>3, <2>5, <2>6 DEF OpControl
    <2>9. Current = << >> /\ Current' = <<h>>
      BY <2>1, <2>5 DEF Current
    <2>10. I \in Seq(Items)
      BY OpFacts
    <2>11. I \o << >> = I
      BY <2>10, Empties
    <2>12. Pipeline = I \o K /\ Pipeline' = (I \o <<h>>) \o t
      BY <1>2, <2>3, <2>9, <2>11 DEF Pipeline
    <2>13. (I \o <<h>>) \o t = I \o (<<h>> \o t)
      <3> DEFINE x == <<h>>
      <3>1. x \in Seq(Items)
        BY <2>4
      <3> HIDE DEF x, I, t
      <3>2. Cat(Cat(I, x), t) = Cat(I, Cat(x, t))
        BY <2>4, <2>10, <3>1, CatAssociative
      <3> QED BY <3>2 DEF Cat, x
    <2>14. Pipeline' = Pipeline
      BY <2>4, <2>12, <2>13
    <2>15. AllOnWay'
      BY <1>1, <1>2, <2>3, <2>14, WaySame
    <2> QED BY <2>7, <2>8, <2>15
  <1>6. CASE AllSent
    <2>1. /\ currItem = Nothing /\ CacheLength <= 0 /\ hasCache' = FALSE /\ pc' = "select"
          /\ UNCHANGED <<cacheVars, currItem>>
      BY <1>6 DEF AllSent
    <2>2. Contents' = Contents /\ overflowed' = overflowed /\ (Full => Full')
      BY <1>1, <2>1, CacheRests
    <2>3. Contents = << >>
      <3>1. Len(Contents) = 0
        BY <1>3, <2>1
      <3> QED BY <1>3, <3>1, EmptySeq
    <2>4. OpTypes'
      BY <1>1, <1>2, <2>1 DEF OpTypes
    <2>5. OpControl'
      BY <1>1, <1>2, <2>1, <2>2, <2>3 DEF OpControl
    <2>6. Pipeline' = Pipeline
      BY <1>2, <2>1, <2>2 DEF Pipeline, Current
    <2>7. AllOnWay'
      BY <1>1, <1>2, <2>2, <2>6, WaySame
    <2> QED BY <2>4, <2>5, <2>7
  <1> QED BY <1>4, <1>5, <1>6 DEF Send

LEMMA BroadcastKeeps ==
    ASSUME OpInv, Broadcast
    PROVE  OpTypes' /\ OpControl' /\ AllOnWay'
  <1>1. /\ CacheTypes /\ OpTypes /\ OpControl /\ AllOnWay /\ added \in Nat
    BY OpFacts DEF OpInv
  <1>2. /\ up /\ pc = "broadcast" /\ pc' = "select"
        /\ UNCHANGED <<syncVars, cancelled, controls, delivered, forgone>>
    BY DEF Broadcast
  <1>3. UNCHANGED cacheVars /\ up' = up /\ starts' = starts /\ added' = added
    BY <1>2 DEF syncVars
  <1>4. Contents' = Contents /\ overflowed' = overflowed /\ (Full => Full')
    BY <1>1, <1>3, CacheRests
  <1>5. currItem \in Items
    BY <1>1, <1>2 DEF OpTypes, OpControl
  <1>6. CASE SentThrough
    <2>1. /\ Len(out) < MemoryCacheThreshold /\ out' = Append(out, currItem) /\ currItem' = Nothing
          /\ hasCache' = hasCache
      BY <1>6 DEF SentThrough
    <2>2. out \in Seq(Passing) /\ Len(out) \in Nat /\ MemoryCacheThreshold \in Nat
          /\ currItem \in Passing
      BY <1>1, <1>5, CacheOpAssumption, LenProperties DEF OpTypes, Passing
    <2>3. out' \in Seq(Passing) /\ Len(out') = Len(out) + 1
      BY <2>1, <2>2, AppendProperties
    <2>4. OpTypes'
      <3>1. Len(out') <= MemoryCacheThreshold
        BY <2>1, <2>2, <2>3
      <3> QED BY <1>1, <1>2, <2>1, <2>3, <3>1 DEF OpTypes
    <2>5. OpControl'
      BY <1>1, <1>2, <1>3, <1>4, <2>1 DEF OpControl
    <2> DEFINE I == ItemsIn(out)
               x == <<currItem>>
    <2>6. AsItem(currItem) = x
      BY <1>5 DEF AsItem
    <2>7. ItemsIn(out') = I \o x
      BY <2>1, <2>2, <2>6, ItemsInAppend
    <2>8. Current = x /\ Current' = << >>
      BY <1>5, <2>1, ControlIsNoItem DEF Current
    <2>9. (I \o x) \o << >> = I \o x
      <3>1. I \in Seq(Items) /\ x \in Seq(Items)
        BY <1>5, <2>2, AsItemsIs
      <3> DEFINE ix == I \o x
      <3>2. ix \in Seq(Items)
        BY <3>1, ConcatProperties
      <3> HIDE DEF ix
      <3> QED BY <3>2, Empties DEF ix
    <2>10. Pipeline' = Pipeline
      BY <1>4, <2>7, <2>8, <2>9 DEF Pipeline
    <2>11. AllOnWay'
      BY <1>1, <1>2, <1>3, <1>4, <2>10, WaySame
    <2> QED BY <2>4, <2>5, <2>11
  <1>7. CASE StopsWaiting \/ StartsCache
    <2>1. /\ UNCHANGED <<out, currItem>> /\ hasCache' \in BOOLEAN
          /\ (~hasCache' => ~hasCache /\ cancelled)
      BY <1>1, <1>7 DEF StopsWaiting, StartsCache, OpTypes
    <2>2. OpTypes'
      BY <1>1, <1>2, <2>1 DEF OpTypes
    <2>3. OpControl'
      BY <1>1, <1>2, <1>3, <1>4, <2>1 DEF OpControl
    <2>4. Pipeline' = Pipeline
      BY <1>4, <2>1 DEF Pipeline, Current
    <2>5. AllOnWay'
      BY <1>1, <1>2, <1>3, <1>4, <2>4, WaySame
    <2> QED BY <2>2, <2>3, <2>5
  <1> QED BY <1>6, <1>7 DEF Broadcast

LEMMA CollectKeeps ==
    ASSUME OpInv, Collect
    PROVE  OpTypes' /\ OpControl' /\ AllOnWay'
  <1>1. /\ CacheTypes /\ OpTypes /\ OpControl /\ AllOnWay /\ added \in Nat
    BY OpFacts DEF OpInv
  <1>2. /\ up /\ out # << >> /\ out' = Tail(out)
        /\ delivered' = delivered \o ItemsIn(<<Head(out)>>)
        /\ UNCHANGED <<syncVars, currItem, hasCache, pc, cancelled, controls, forgone>>
    BY DEF Collect
  <1>3. UNCHANGED cacheVars /\ up' = up /\ starts' = starts /\ added' = added
    BY <1>2 DEF syncVars
  <1>4. Contents' = Contents /\ overflowed' = overflowed /\ (Full => Full')
    BY <1>1, <1>3, CacheRests
  <1> DEFINE g == AsItem(Head(out))
             r == (ItemsIn(Tail(out)) \o Current) \o Contents
             D == delivered
  <1>5. /\ Tail(out) \in Seq(Passing) /\ Len(out) \in Nat /\ Len(Tail(out)) = Len(out) - 1
        /\ g \in Seq(Items) /\ r \in Seq(Items) /\ Pipeline = g \o r
    BY <1>2, ChannelHead
  <1>6. ItemsIn(<<Head(out)>>) = g
    <2>1. out \in Seq(Passing)
      BY <1>1 DEF OpTypes
    <2> QED BY <1>2, <2>1, ItemsInHead
  <1>7. D \in Seq(Items)
    BY OpFacts
  <1>8. Pipeline' = r
    BY <1>2, <1>4 DEF Pipeline, Current
  <1> HIDE DEF g, r, D
  <1>9. (D \o g) \o r = D \o (g \o r) /\ D \o g \in Seq(Items)
    <2>1. Cat(Cat(D, g), r) = Cat(D, Cat(g, r))
      BY <1>5, <1>7, CatAssociative
    <2> QED BY <1>5, <1>7, <2>1, ConcatProperties DEF Cat
  <1>10. delivered' \o Pipeline' = delivered \o Pipeline
    BY <1>2, <1>5, <1>6, <1>8, <1>9 DEF D
  <1>11. delivered' \in Seq(Items)
    BY <1>2, <1>6, <1>9 DEF D
  <1>12. OpTypes'
    <2>1. Len(out') <= MemoryCacheThreshold
      BY <1>1, <1>2, <1>5, CacheOpAssumption DEF OpTypes
    <2> QED BY <1>1, <1>2, <1>5, <1>11, <2>1 DEF OpTypes
  <1>13. OpControl'
    BY <1>1, <1>2, <1>3, <1>4 DEF OpControl
  <1>14. AllOnWay'
    BY <1>1, <1>2, <1>3, <1>4, <1>10, WaySame
  <1> QED BY <1>12, <1>13, <1>14

LEMMA CancelKeeps ==
    ASSUME OpInv, Cancel
    PROVE  OpTypes' /\ OpControl' /\ AllOnWay'
  <1>1. OpTypes /\ OpControl /\ AllOnWay /\ CacheTypes
    BY OpFacts DEF OpInv
  <1>2. /\ up /\ starts < MaxStarts /\ cancelled' = TRUE
        /\ UNCHANGED <<syncVars, currItem, hasCache, pc, out, controls, delivered, forgone>>
    BY DEF Cancel
  <1>3. UNCHANGED cacheVars /\ up' = up /\ starts' = starts /\ added' = added
    BY <1>2 DEF syncVars
  <1>4. Contents' = Contents /\ overflowed' = overflowed /\ (Full => Full')
    BY <1>1, <1>3, CacheRests
  <1>5. OpTypes'
    BY <1>1, <1>2 DEF OpTypes
  <1>6. OpControl'
    BY <1>1, <1>2, <1>3, <1>4 DEF OpControl
  <1>7. Pipeline' = Pipeline
    BY <1>2, <1>4 DEF Pipeline, Current
  <1>8. AllOnWay'
    BY <1>1, <1>2, <1>3, <1>4, <1>7, WaySame
  <1> QED BY <1>5, <1>6, <1>8

LEMMA Emptied ==
    ASSUME CacheInv', readBuffer' = << >>, writeBuffer' = << >>, diskSize' = 0
    PROVE  Contents' = << >> /\ (CacheLength' = 0 => Full')
  <1>1. kv'.page \in PageMap
    <2>1. kv' \in Stores
      BY DEF CacheInv, Parts, CacheTypes
    <2> QED BY <2>1, StoreFields
  <1> DEFINE k == kv'
             h == diskPageHead'
  <1>2. k.page \in PageMap
    BY <1>1
  <1> HIDE DEF k, h
  <1>3. Filled(k, h, 0) /\ << >> \o OnDisk(k, h, 0) \o << >> = << >> /\ Len(<< >>) = 0
    BY <1>2, EmptyIsFull
  <1>4. Contents' = << >>
    BY <1>3 DEF k, h, Contents
  <1> QED BY <1>3, <1>4 DEF k, h, Full

\* With the topology goes what is in the channel, the item to send, and the cache, which
\* nobody opens again.
LEMMA EndKeeps ==
    ASSUME OneRun, OpInv, CacheInv', up, starts < MaxStarts, Fresh, overflowed' = overflowed, End
    PROVE  OpTypes' /\ OpControl' /\ AllOnWay'
  <1>1. OpTypes /\ OpControl /\ CacheTypes /\ added \in Nat
    BY OpFacts DEF OpInv
  <1>2. CleanCacheAtStop
    <2>1. starts \in 1..MaxStarts /\ MaxStarts \in Nat
      BY CacheAssumption DEF OpInv, CacheInv
    <2> QED BY <2>1 DEF OneRun
  <1>3. /\ up' = FALSE /\ out' = << >> /\ currItem' = Nothing /\ hasCache' = FALSE
        /\ pc' = "select" /\ cancelled' = FALSE
        /\ UNCHANGED <<starts, added, controls, delivered>>
        /\ forgone' = forgone \cup (Range(out) \cap Items) \cup Unsent \cup Range(Contents)
    BY <1>2 DEF End
  <1>4. Contents' = << >>
    BY Emptied DEF Fresh
  <1> DEFINE I == ItemsIn(out)
             C == Current
             K == Contents
             D == delivered
             lost == overflowed \cup forgone
  <1>5. I \in Seq(Items) /\ Range(I) = Range(out) \cap Items
    BY OpFacts, PipelineIs
  <1>6. C \in Seq(Items) /\ Range(C) = Unsent
    BY OpFacts
  <1>7. K \in Seq(Items)
    BY OpFacts
  <1>8. D \in Seq(Items)
    BY OpFacts
  <1>9. Way(D \o ((I \o C) \o K), lost, added)
    BY OpFacts
  <1>10. overflowed' \cup forgone' = lost \cup (Range(I) \cup Range(C) \cup Range(K))
    BY <1>3, <1>5, <1>6
  <1>11. OpTypes'
    <2>1. << >> \in Seq(Passing) /\ Len(<< >>) = 0 /\ 0 <= MemoryCacheThreshold
      BY CacheOpAssumption
    <2>2. Range(K) \subseteq Items /\ Unsent \subseteq Items /\ forgone \subseteq Items
      BY <1>1, <1>7, LenProperties DEF Unsent, OpTypes, Range
    <2>3. forgone' \subseteq Items
      BY <1>3, <2>2
    <2> QED BY <1>1, <1>3, <2>1, <2>3 DEF OpTypes
  <1>12. OpControl'
    BY <1>2, <1>3, <1>4 DEF OpControl
  <1>13. delivered' \o Pipeline' = D
    <2>1. Current' = << >>
      BY <1>3 DEF Current
    <2>2. << >> \o << >> = << >>
      OBVIOUS
    <2>3. Pipeline' = << >>
      BY <1>3, <1>4, <2>1, <2>2, ItemsInEmpty DEF Pipeline
    <2> HIDE DEF D
    <2>4. D \o << >> = D
      BY <1>8, Empties
    <2> QED BY <1>3, <2>3, <2>4 DEF D
  <1> HIDE DEF I, C, K, D, lost
  <1>14. Way(D, lost \cup (Range(I) \cup Range(C) \cup Range(K)), added)
    <2> DEFINE ic == I \o C
    <2>1. ic \in Seq(Items) /\ Range(ic) = Range(I) \cup Range(C)
      BY <1>5, <1>6, ConcatProperties, RangeConcatenation
    <2>2. Way(D \o (ic \o K), lost, added)
      BY <1>9
    <2> HIDE DEF ic
    <2> DEFINE g == ic \o K
    <2>3. g \in Seq(Items) /\ Range(g) = Range(ic) \cup Range(K)
      BY <1>7, <2>1, ConcatProperties, RangeConcatenation
    <2>4. Way(D \o g, lost, added)
      BY <2>2
    <2> HIDE DEF g
    <2>5. Way(D, lost \cup Range(g), added)
      BY <1>8, <2>3, <2>4, AllLost
    <2> QED BY <2>1, <2>3, <2>5
  <1>15. AllOnWay'
    BY <1>3, <1>10, <1>13, <1>14 DEF AllOnWay
  <1> QED BY <1>11, <1>12, <1>15

LEMMA StartNodeKeeps ==
    ASSUME OneRun, OpInv, CacheInv', StartNode
    PROVE  OpTypes' /\ OpControl' /\ AllOnWay'
  <1>1. OpTypes /\ OpControl /\ AllOnWay
    BY DEF OpInv
  <1>2. /\ ~up /\ InitStore /\ up' = TRUE /\ added' = added
        /\ UNCHANGED opVars
    BY DEF StartNode, Start
  <1>3. UNCHANGED <<currItem, hasCache, pc, out, cancelled, controls, delivered, forgone>>
    BY <1>2 DEF opVars
  <1>4. CleanCacheAtStop /\ out = << >> /\ currItem = Nothing /\ pc = "select" /\ ~hasCache
        /\ ~cancelled /\ Contents = << >>
    BY <1>1, <1>2 DEF OpControl
  <1>5. /\ readBuffer' = << >> /\ writeBuffer' = << >> /\ diskSize' = 0 /\ CacheLength' = 0
        /\ overflowed' = overflowed
    BY <1>2, <1>4 DEF InitStore
  <1>6. Contents' = << >> /\ Full'
    BY <1>5, Emptied
  <1>7. OpTypes'
    BY <1>1, <1>3 DEF OpTypes
  <1>8. OpControl'
    BY <1>2, <1>3, <1>4, <1>6 DEF OpControl
  <1>9. Pipeline' = Pipeline
    BY <1>3, <1>4, <1>6 DEF Pipeline, Current
  <1>10. AllOnWay'
    BY <1>1, <1>2, <1>3, <1>5, <1>9, WaySame
  <1> QED BY <1>7, <1>8, <1>10

LEMMA OpInvNext ==
    ASSUME OneRun, OpInv, [OpNext]_allVars
    PROVE  OpInv'
  <1>1. CacheInv'
    BY OpCache
  <1>2. OpTypes' /\ OpControl' /\ AllOnWay'
    <2>1. CASE Receive
      BY <2>1, ReceiveKeeps
    <2>2. CASE ReceiveControl
      BY <2>2, ReceiveControlKeeps
    <2>3. CASE Tick
      BY <2>3, TickKeeps
    <2>4. CASE Send
      BY <2>4, SendKeeps
    <2>5. CASE Broadcast
      BY <2>5, BroadcastKeeps
    <2>6. CASE Collect
      BY <2>6, CollectKeeps
    <2>7. CASE Cancel
      BY <2>7, CancelKeeps
    <2>8. CASE Close
      <3>1. up /\ cancelled /\ Flush /\ End
        BY <2>8 DEF Close
      <3>2. starts < MaxStarts
        BY <3>1 DEF OpInv, OpControl
      <3>3. Fresh /\ overflowed' = overflowed
        BY <3>1 DEF Flush
      <3> QED BY <1>1, <3>1, <3>2, <3>3, EndKeeps
    <2>9. CASE CrashNode
      <3>1. up /\ starts < MaxStarts /\ CrashCache /\ End
        BY <2>9 DEF CrashNode
      <3>2. Fresh /\ overflowed' = overflowed
        BY <3>1 DEF CrashCache
      <3> QED BY <1>1, <3>1, <3>2, EndKeeps
    <2>10. CASE StartNode
      BY <1>1, <2>10, StartNodeKeeps
    <2>11. CASE UNCHANGED allVars
      <3>1. /\ UNCHANGED <<currItem, hasCache, pc, out, cancelled, controls, delivered, forgone>>
            /\ UNCHANGED cacheVars /\ up' = up /\ starts' = starts /\ added' = added
        BY <2>11 DEF allVars, opVars, syncVars
      <3>2. OpTypes /\ OpControl /\ AllOnWay /\ CacheTypes
        BY OpFacts DEF OpInv
      <3>3. Contents' = Contents /\ overflowed' = overflowed /\ (Full => Full')
        BY <3>1, <3>2, CacheRests
      <3>4. OpTypes' /\ OpControl'
        BY <3>1, <3>2, <3>3 DEF OpTypes, OpControl
      <3>5. Pipeline' = Pipeline
        BY <3>1, <3>3 DEF Pipeline, Current
      <3> QED BY <3>1, <3>2, <3>3, <3>4, <3>5, WaySame
    <2> QED BY <2>1, <2>2, <2>3, <2>4, <2>5, <2>6, <2>7, <2>8, <2>9, <2>10, <2>11 DEF OpNext
  <1> QED BY <1>1, <1>2 DEF OpInv

LEMMA OpInvSound == OpInv => CacheOpSound
  <1> SUFFICES ASSUME OpInv PROVE CacheOpSound
    OBVIOUS
  <1>1. /\ OpTypes /\ OpControl /\ added \in Nat /\ delivered \in Seq(Items)
        /\ Pipeline \in Seq(Items)
        /\ Way(delivered \o Pipeline, overflowed \cup forgone, added)
    BY OpFacts DEF OpInv
  <1>2. OpTypeOK
    <2>1. CacheTypeOK
      BY CacheInvType DEF OpInv
    <2>2. /\ currItem \in Items \cup {Nothing} /\ {hasCache, cancelled} \subseteq BOOLEAN
          /\ pc \in {"select", "send", "broadcast"}
      BY <1>1 DEF OpTypes
    <2>3. /\ out \in Seq(Items \cup {Control, Nothing}) /\ Len(out) <= MemoryCacheThreshold
          /\ controls \in 0..MaxControls
      BY <1>1 DEF OpTypes, Passing
    <2>4. delivered \in Seq(Items) /\ forgone \subseteq Items
      BY <1>1 DEF OpTypes
    <2> QED BY <2>1, <2>2, <2>3, <2>4 DEF OpTypeOK
  <1>3. InOrder
    BY <1>1 DEF Way, InOrder
  <1>4. NothingLost
    <2>1. Range(delivered \o Pipeline) = Range(delivered) \cup Range(Pipeline)
      BY <1>1, RangeConcatenation
    <2>2. Range(delivered) \cup Range(Pipeline) \cup overflowed \cup forgone = 1..added
      BY <1>1, <2>1 DEF Way
    <2>3. Cardinality(1..added) = added
      <3>1. 1 \in Int /\ added \in Int /\ added - 1 + 1 = added /\ (1 > added => added = 0)
        BY <1>1
      <3> QED BY <3>1, FS_Interval
    <2> QED BY <2>2, <2>3 DEF NothingLost
  <1>5. NilNeverSent
    BY <1>1 DEF OpControl, NilNeverSent
  <1> QED BY <1>2, <1>3, <1>4, <1>5 DEF CacheOpSound

\* What the cache node knows of its cache and of the way of the items is kept by every step of
\* it, of the sink behind it and of the rule around it.
THEOREM CacheOpInvariant == ASSUME OneRun PROVE OpSpec => []OpInv
  <1>1. OpInit => OpInv
    BY OpInvInit
  <1>2. OpInv /\ [OpNext]_allVars => OpInv'
    BY OpInvNext
  <1> QED BY <1>1, <1>2, PTL DEF OpSpec

\* The sink gets the items in the order of their arrival and each at most once, and what
\* does not reach it was cost by a full disk, an end of the rule or a control tuple: the node
\* before it never overtakes its own cache and never sends a nil (cache_op.go:60-190).
THEOREM CacheOpIsSound == ASSUME OneRun PROVE OpSpec => []CacheOpSound
  <1>1. OpSpec => []OpInv
    BY CacheOpInvariant
  <1>2. OpInv => CacheOpSound
    BY OpInvSound
  <1> QED BY <1>1, <1>2, PTL
-----------------------------------------------------------------------------
(* Slots in the order of time.                                             *)

InTime(s) ==
    /\ \A i \in 1..Len(s) : s[i][1] <= s[i][2]
    /\ \A i, j \in 1..Len(s) : i < j => s[i][2] <= s[j][1]

\* What is said of slots is said of numbers.
LEMMA SlotTypes ==
    ASSUME NEW s \in SlotSeqs
    PROVE  /\ Len(s) \in Nat /\ DOMAIN s = 1..Len(s)
           /\ \A i \in 1..Len(s) : s[i] \in Nat \X Nat /\ s[i][1] \in Nat /\ s[i][2] \in Nat
  BY DEF SlotSeqs

LEMMA MomentsAre ==
    ASSUME NEW s \in SlotSeqs, NEW m
    PROVE  m \in AllMoments(s) <=>
               m \in Int /\ \E i \in 1..Len(s) : s[i][1] <= m /\ m < s[i][2]
  <1>1. m \in AllMoments(s) <=> \E i \in 1..Len(s) : m \in Moments(s[i])
    BY SlotTypes DEF AllMoments
  <1>2. ASSUME NEW i \in 1..Len(s)
        PROVE  m \in Moments(s[i]) <=> m \in Int /\ s[i][1] <= m /\ m < s[i][2]
    <2>1. s[i][1] \in Int /\ s[i][2] \in Int
      BY SlotTypes
    <2> DEFINE a == s[i][1]
               b == s[i][2]
    <2> HIDE DEF a, b
    <2>2. m \in a..(b - 1) <=> m \in Int /\ a <= m /\ m < b
      <3>1. a \in Int /\ b \in Int
        BY <2>1 DEF a, b
      <3> QED BY <3>1
    <2> QED BY <2>2 DEF a, b, Moments
  <1> QED BY <1>1, <1>2

LEMMA TypedSlots ==
    ASSUME NEW n \in Nat, NEW s, s = [i \in 1..n |-> s[i]], \A i \in 1..n : s[i] \in Nat \X Nat
    PROVE  s \in SlotSeqs /\ Len(s) = n
  <1>1. s \in [1..n -> Nat \X Nat]
    OBVIOUS
  <1> QED BY <1>1 DEF SlotSeqs

\* No slots, and one.
LEMMA FewSlots ==
    /\ << >> \in SlotSeqs /\ InTime(<< >>) /\ AllMoments(<< >>) = {}
    /\ \A a, b \in Nat :
          a <= b => /\ <<<<a, b>>>> \in SlotSeqs /\ InTime(<<<<a, b>>>>)
                    /\ Len(<<<<a, b>>>>) = 1 /\ <<<<a, b>>>>[1] = <<a, b>>
  <1>1. << >> \in SlotSeqs /\ Len(<< >>) = 0
    BY DEF SlotSeqs
  <1>2. InTime(<< >>)
    BY <1>1 DEF InTime
  <1>3. AllMoments(<< >>) = {}
    BY <1>1, MomentsAre
  <1>4. ASSUME NEW a \in Nat, NEW b \in Nat, a <= b
        PROVE  /\ <<<<a, b>>>> \in SlotSeqs /\ InTime(<<<<a, b>>>>)
               /\ Len(<<<<a, b>>>>) = 1 /\ <<<<a, b>>>>[1] = <<a, b>>
    BY <1>4 DEF SlotSeqs, InTime
  <1> QED BY <1>1, <1>2, <1>3, <1>4

\* One after the other.
LEMMA InTimeConcat ==
    ASSUME NEW s \in SlotSeqs, NEW t \in SlotSeqs, InTime(s), InTime(t),
           \A i \in 1..Len(s), j \in 1..Len(t) : s[i][2] <= t[j][1]
    PROVE  /\ s \o t \in SlotSeqs /\ InTime(s \o t) /\ Len(s \o t) = Len(s) + Len(t)
           /\ AllMoments(s \o t) = AllMoments(s) \cup AllMoments(t)
           /\ \A i \in 1..Len(s) : (s \o t)[i] = s[i]
           /\ \A j \in 1..Len(t) : (s \o t)[Len(s) + j] = t[j]
  <1> DEFINE u == s \o t
             n == Len(s)
             k == Len(t)
  <1>1. /\ u \in SlotSeqs /\ Len(u) = n + k /\ n \in Nat /\ k \in Nat
        /\ \A i \in 1..n : u[i] = s[i]
        /\ \A j \in 1..k : u[n + j] = t[j]
    BY DEF SlotSeqs
  <1>2. \A i \in 1..(n + k) : i \in 1..n \/ (i - n \in 1..k /\ n + (i - n) = i)
    BY <1>1
  <1> HIDE DEF u, n, k
  <1>3. \A i \in 1..(n + k) : i \notin 1..n => u[i] = t[i - n] /\ i - n \in 1..k
    BY <1>1, <1>2
  <1>4. \A i \in 1..(n + k) : u[i][1] <= u[i][2]
    <2> SUFFICES ASSUME NEW i \in 1..(n + k) PROVE u[i][1] <= u[i][2]
      OBVIOUS
    <2>1. CASE i \in 1..n
      BY <1>1, <2>1 DEF InTime, n
    <2>2. CASE i \notin 1..n
      BY <1>3, <2>2 DEF InTime, k
    <2> QED BY <2>1, <2>2
  <1>5. ASSUME NEW i \in 1..(n + k), NEW j \in 1..(n + k), i < j PROVE u[i][2] <= u[j][1]
    <2>1. CASE i \in 1..n /\ j \in 1..n
      BY <1>1, <1>5, <2>1 DEF InTime, n
    <2>2. CASE i \in 1..n /\ j \notin 1..n
      BY <1>1, <1>3, <2>2 DEF n, k
    <2>3. CASE i \notin 1..n
      <3>1. j \notin 1..n /\ i - n < j - n
        BY <1>1, <1>5, <2>3
      <3>2. u[i] = t[i - n] /\ i - n \in 1..k /\ u[j] = t[j - n] /\ j - n \in 1..k
        BY <1>3, <2>3, <3>1
      <3> QED BY <3>1, <3>2 DEF InTime, k
    <2> QED BY <2>1, <2>2, <2>3
  <1>6. InTime(u)
    BY <1>1, <1>4, <1>5 DEF InTime
  <1>7. ASSUME NEW m PROVE m \in AllMoments(u) <=> m \in AllMoments(s) \/ m \in AllMoments(t)
    <2>1. /\ m \in AllMoments(u) <=>
                m \in Int /\ \E i \in 1..(n + k) : u[i][1] <= m /\ m < u[i][2]
          /\ m \in AllMoments(s) <=> m \in Int /\ \E i \in 1..n : s[i][1] <= m /\ m < s[i][2]
          /\ m \in AllMoments(t) <=> m \in Int /\ \E i \in 1..k : t[i][1] <= m /\ m < t[i][2]
      BY <1>1, MomentsAre DEF n, k
    <2>2. ASSUME m \in AllMoments(u) PROVE m \in AllMoments(s) \/ m \in AllMoments(t)
      <3>1. PICK i \in 1..(n + k) : u[i][1] <= m /\ m < u[i][2]
        BY <2>1, <2>2
      <3>2. CASE i \in 1..n
        BY <1>1, <2>1, <2>2, <3>1, <3>2
      <3>3. CASE i \notin 1..n
        BY <1>3, <2>1, <2>2, <3>1, <3>3
      <3> QED BY <3>2, <3>3
    <2>3. ASSUME m \in AllMoments(s) PROVE m \in AllMoments(u)
      <3>1. PICK i \in 1..n : s[i][1] <= m /\ m < s[i][2]
        BY <2>1, <2>3
      <3>2. i \in 1..(n + k) /\ u[i] = s[i]
        BY <1>1
      <3> QED BY <2>1, <2>3, <3>1, <3>2
    <2>4. ASSUME m \in AllMoments(t) PROVE m \in AllMoments(u)
      <3>1. PICK i \in 1..k : t[i][1] <= m /\ m < t[i][2]
        BY <2>1, <2>4
      <3>2. n + i \in 1..(n + k) /\ u[n + i] = t[i]
        BY <1>1
      <3> QED BY <2>1, <2>4, <3>1, <3>2
    <2> QED BY <2>2, <2>3, <2>4
  <1>8. AllMoments(u) = AllMoments(s) \cup AllMoments(t)
    BY <1>7
  <1> QED BY <1>1, <1>6, <1>8 DEF u, n, k

\* A stretch of them.
LEMMA InTimeSub ==
    ASSUME NEW s \in SlotSeqs, InTime(s), NEW p \in 1..(Len(s) + 1), NEW q \in 0..Len(s), p <= q + 1
    PROVE  /\ SubSeq(s, p, q) \in SlotSeqs /\ InTime(SubSeq(s, p, q))
           /\ Len(SubSeq(s, p, q)) = q - p + 1
           /\ \A i \in 1..(q - p + 1) : SubSeq(s, p, q)[i] = s[p + i - 1]
  <1> DEFINE u == SubSeq(s, p, q)
  <1>1. /\ u \in SlotSeqs /\ Len(u) = q - p + 1 /\ Len(s) \in Nat
        /\ \A i \in 1..(q - p + 1) : u[i] = s[p + i - 1]
    <2>1. s \in Seq(Nat \X Nat) /\ Len(s) \in Nat /\ p \in Int /\ q \in Int
      BY DEF SlotSeqs
    <2>2. p..q \subseteq 1..Len(s)
      BY <2>1
    <2>3. \A i \in p..q : s[i] \in Nat \X Nat
      BY <2>1, <2>2
    <2>4. /\ SubSeq(s, p, q) \in Seq(Nat \X Nat)
          /\ Len(SubSeq(s, p, q)) = IF p <= q THEN q - p + 1 ELSE 0
          /\ \A i \in 1..(q - p + 1) : SubSeq(s, p, q)[i] = s[p + i - 1]
      BY <2>1, <2>3, SubSeqProperties
    <2> HIDE DEF u
    <2>5. u \in Seq(Nat \X Nat) /\ \A i \in 1..(q - p + 1) : u[i] = s[p + i - 1]
      BY <2>4 DEF u
    <2>6. Len(u) = q - p + 1
      <3>1. Len(u) = IF p <= q THEN q - p + 1 ELSE 0
        BY <2>4 DEF u
      <3> QED BY <2>1, <3>1
    <2> QED BY <2>1, <2>5, <2>6 DEF SlotSeqs
  <1>2. \A i \in 1..(q - p + 1) : p + i - 1 \in 1..Len(s)
    BY <1>1
  <1> HIDE DEF u
  <1>3. \A i, j \in 1..(q - p + 1) : i < j => p + i - 1 < p + j - 1
    BY <1>1
  <1>4. \A i \in 1..(q - p + 1) : u[i][1] <= u[i][2]
    BY <1>1, <1>2 DEF InTime
  <1>5. ASSUME NEW i \in 1..(q - p + 1), NEW j \in 1..(q - p + 1), i < j
        PROVE  u[i][2] <= u[j][1]
    <2>1. p + i - 1 \in 1..Len(s) /\ p + j - 1 \in 1..Len(s) /\ p + i - 1 < p + j - 1
      BY <1>2, <1>3, <1>5
    <2> QED BY <1>1, <2>1 DEF InTime
  <1>6. InTime(u)
    BY <1>1, <1>4, <1>5 DEF InTime
  <1> QED BY <1>1, <1>6 DEF u

\* The first number up to n in S, or the one behind n.
LEMMA FirstExists ==
    ASSUME NEW n \in Nat, NEW S
    PROVE  \E i \in 1..(n + 1) : (i <= n => i \in S) /\ \A j \in 1..(i - 1) : j \notin S
  <1> DEFINE T == (S \cap (1..n)) \cup {n + 1}
  <1>1. T \in SUBSET Nat /\ T # {}
    OBVIOUS
  <1>2. PICK i \in T : \A j \in T : i <= j
    BY <1>1, LeastNumber
  <1>3. i \in 1..(n + 1) /\ (i <= n => i \in S)
    OBVIOUS
  <1>4. ASSUME NEW j \in 1..(i - 1), j \in S PROVE FALSE
    <2>1. j \in 1..n /\ j < i
      BY <1>3
    <2>2. j \in T
      BY <1>4, <2>1
    <2> QED BY <1>2, <2>1, <2>2
  <1> QED BY <1>3, <1>4

-----------------------------------------------------------------------------
(* What a request meets in the histogram.                                  *)

LEMMA RequestIs ==
    ASSUME NEW r \in Requests
    PROVE  /\ r.start \in Nat /\ r.end \in Nat /\ r.now \in Nat \ {0} /\ r.start < r.end
           /\ Leftmost(r) \in Int
  <1>1. PICK s \in Spans, n \in Nows : r = [start |-> s[1], end |-> s[2], now |-> n]
    BY DEF Requests
  <1>2. s[1] \in Nat /\ s[2] \in Nat /\ s[1] < s[2] /\ n \in Nat \ {0} /\ Expire \in Nat
    BY DedupAssumption
  <1> QED BY <1>1, <1>2 DEF Leftmost

\* The slots left..taken of kept are those that the time from start to end touches.
Touches(t, r) ==
    LET n == Len(t.kept) IN
    /\ t.start \in Nat /\ r.start <= t.start /\ Leftmost(r) <= t.start /\ t.start <= r.end
    /\ t.start = LaterOf(r.start, Leftmost(r))
    /\ t.kept \in SlotSeqs /\ InTime(t.kept)
    /\ t.left \in 1..(n + 1) /\ t.taken \in 0..n /\ t.left <= t.taken + 1
    /\ t.inLeft \in BOOLEAN /\ t.inRight \in BOOLEAN
    /\ \A j \in 1..(t.left - 1) : t.kept[j][2] <= t.start
    /\ \A j \in (t.taken + 1)..n : r.end <= t.kept[j][1]
    /\ t.left <= n => t.start < t.kept[t.left][2]
    /\ t.inLeft <=> t.left <= n /\ t.start >= t.kept[t.left][1]
    /\ t.inRight => t.left <= t.taken /\ t.kept[t.taken][1] < r.end /\ r.end <= t.kept[t.taken][2]
    /\ ~t.inRight /\ t.left <= t.taken => t.kept[t.taken][2] < r.end

\* What Touched finds is so, and of what a request may reach nothing is cut off.
LEMMA TouchedIs ==
    ASSUME NEW h \in SlotSeqs, InTime(h), NEW r \in Requests, ~(r.end < Leftmost(r))
    PROVE  /\ Touches(Touched(r, h), r)
           /\ \A m \in Int : m >= Leftmost(r) =>
                  (m \in AllMoments(Touched(r, h).kept) <=> m \in AllMoments(h))
  <1> DEFINE x     == Leftmost(r)
             e     == r.end
             start == LaterOf(r.start, x)
             f     == FirstSlot(h, LAMBDA s : s[2] >= x)
             kept  == SubSeq(h, f, Len(h))
             left  == FirstSlot(kept, LAMBDA s : start < s[2])
             ahead == SubSeq(kept, left, Len(kept))
             g     == FirstSlot(ahead, LAMBDA s : e <= s[2])
             right == left - 1 + g
             inLeft  == left <= Len(kept) /\ start >= kept[left][1]
             inRight == right <= Len(kept) /\ e > kept[right][1]
             taken   == IF inRight THEN right ELSE right - 1
             n == Len(kept)
  <1>1. /\ x \in Int /\ e \in Nat /\ start \in Nat /\ r.start <= start /\ x <= start /\ start <= e
    BY RequestIs DEF LaterOf
  <1>2. Touched(r, h) = [start |-> start, kept |-> kept, left |-> left, inLeft |-> inLeft,
                         inRight |-> inRight, taken |-> taken]
    BY DEF Touched
  <1>3. /\ f \in 1..(Len(h) + 1) /\ (f <= Len(h) => h[f][2] >= x)
        /\ \A j \in 1..(f - 1) : ~(h[j][2] >= x)
    <2> DEFINE S == {i \in 1..Len(h) : h[i][2] >= x}
    <2>1. Len(h) \in Nat
      BY SlotTypes
    <2> HIDE DEF S
    <2>2. PICK i \in 1..(Len(h) + 1) : (i <= Len(h) => i \in S) /\ \A j \in 1..(i - 1) : j \notin S
      BY <2>1, FirstExists
    <2>3. /\ i <= Len(h) => h[i][2] >= x
          /\ \A j \in 1..(i - 1) : ~(h[j][2] >= x)
      BY <2>1, <2>2 DEF S
    <2> QED BY <2>3 DEF FirstSlot
  <1>4. /\ kept \in SlotSeqs /\ InTime(kept) /\ n = Len(h) - f + 1
        /\ \A i \in 1..n : kept[i] = h[f + i - 1]
    <2>1. Len(h) \in Nat /\ Len(h) \in 0..Len(h) /\ f <= Len(h) + 1
      BY <1>3, SlotTypes
    <2> HIDE DEF f
    <2> QED BY <1>3, <2>1, InTimeSub
  <1>5. ASSUME NEW m \in Int, m >= x
        PROVE  m \in AllMoments(kept) <=> m \in AllMoments(h)
    <2> HIDE DEF f, kept, x
    <2>0. Len(h) \in Nat /\ n \in Nat
      BY <1>4, SlotTypes
    <2>1. /\ m \in AllMoments(h) <=> \E i \in 1..Len(h) : h[i][1] <= m /\ m < h[i][2]
          /\ m \in AllMoments(kept) <=> \E i \in 1..n : kept[i][1] <= m /\ m < kept[i][2]
      BY <1>4, MomentsAre
    <2>2. ASSUME m \in AllMoments(kept) PROVE m \in AllMoments(h)
      <3>1. PICK i \in 1..n : kept[i][1] <= m /\ m < kept[i][2]
        BY <2>1, <2>2
      <3>2. f + i - 1 \in 1..Len(h) /\ kept[i] = h[f + i - 1]
        BY <1>3, <1>4, <2>0
      <3> QED BY <2>1, <3>1, <3>2
    <2>3. ASSUME m \in AllMoments(h) PROVE m \in AllMoments(kept)
      <3>1. PICK i \in 1..Len(h) : h[i][1] <= m /\ m < h[i][2]
        BY <2>1, <2>3
      <3>2. h[i][2] \in Nat /\ h[i][2] >= x
        BY <1>1, <1>5, <3>1, SlotTypes
      <3>3. i >= f
        BY <1>3, <2>0, <3>2
      <3>4. i - f + 1 \in 1..n /\ f + (i - f + 1) - 1 = i
        BY <1>3, <1>4, <2>0, <3>3
      <3>5. kept[i - f + 1] = h[i]
        BY <1>4, <3>4
      <3> QED BY <2>1, <3>1, <3>4, <3>5
    <2> QED BY <2>2, <2>3
  <1>6. /\ left \in 1..(n + 1) /\ (left <= n => start < kept[left][2])
        /\ \A j \in 1..(left - 1) : ~(start < kept[j][2])
    <2> DEFINE S == {i \in 1..n : start < kept[i][2]}
    <2>1. n \in Nat
      BY <1>4, SlotTypes
    <2> HIDE DEF kept, start, S
    <2>2. PICK i \in 1..(n + 1) : (i <= n => i \in S) /\ \A j \in 1..(i - 1) : j \notin S
      BY <2>1, FirstExists
    <2>3. /\ i <= n => start < kept[i][2]
          /\ \A j \in 1..(i - 1) : ~(start < kept[j][2])
      BY <2>1, <2>2 DEF S
    <2> QED BY <2>3 DEF FirstSlot
  <1>7. /\ ahead \in SlotSeqs /\ Len(ahead) = n - left + 1
        /\ \A i \in 1..(n - left + 1) : ahead[i] = kept[left + i - 1]
    <2> HIDE DEF kept, left
    <2>1. n \in Nat /\ n \in 0..n /\ left <= n + 1
      BY <1>4, <1>6, SlotTypes
    <2> QED BY <1>4, <1>6, <2>1, InTimeSub
  <1>8. /\ g \in 1..(Len(ahead) + 1) /\ (g <= Len(ahead) => e <= ahead[g][2])
        /\ \A j \in 1..(g - 1) : ~(e <= ahead[j][2])
    <2> DEFINE S == {i \in 1..Len(ahead) : e <= ahead[i][2]}
    <2>1. Len(ahead) \in Nat
      BY <1>7, SlotTypes
    <2> HIDE DEF ahead, e, S
    <2>2. PICK i \in 1..(Len(ahead) + 1) :
              (i <= Len(ahead) => i \in S) /\ \A j \in 1..(i - 1) : j \notin S
      BY <2>1, FirstExists
    <2>3. /\ i <= Len(ahead) => e <= ahead[i][2]
          /\ \A j \in 1..(i - 1) : ~(e <= ahead[j][2])
      BY <2>1, <2>2 DEF S
    <2> QED BY <2>3 DEF FirstSlot
  <1>9. n \in Nat /\ \A i \in 1..n : kept[i][1] \in Nat /\ kept[i][2] \in Nat
    BY <1>4, SlotTypes
  <1> HIDE DEF x, e, f, kept, left, ahead, g, start
  <1>0. /\ g \in 1..(n - left + 2) /\ left \in 1..(n + 1) /\ n \in Nat
        /\ Len(ahead) = n - left + 1
    BY <1>6, <1>7, <1>8, <1>9
  <1>10. /\ right \in left..(n + 1) /\ (right <= n => e <= kept[right][2])
         /\ \A j \in left..(right - 1) : kept[j][2] < e
    <2>1. right \in left..(n + 1)
      BY <1>0
    <2>2. ASSUME right <= n PROVE e <= kept[right][2]
      <3>1. g \in 1..(n - left + 1)
        BY <1>0, <2>2
      <3>2. ahead[g] = kept[left + g - 1] /\ left + g - 1 = left - 1 + g
        BY <1>7, <1>0, <3>1
      <3>3. e <= ahead[g][2]
        BY <1>8, <1>0, <3>1
      <3> QED BY <3>2, <3>3
    <2>3. ASSUME NEW j \in left..(right - 1) PROVE kept[j][2] < e
      <3>1. /\ j - left + 1 \in 1..(g - 1) /\ j - left + 1 \in 1..(n - left + 1)
            /\ left + (j - left + 1) - 1 = j /\ j \in 1..n
        BY <1>0
      <3>2. ahead[j - left + 1] = kept[j]
        BY <1>7, <3>1
      <3>3. ~(e <= kept[j][2])
        BY <1>8, <3>1, <3>2
      <3> QED BY <1>1, <1>9, <3>1, <3>3
    <2> QED BY <2>1, <2>2, <2>3
  <1> HIDE DEF right
  <1>11. /\ taken \in 0..n /\ left <= taken + 1
         /\ inRight => left <= taken /\ kept[taken][1] < e /\ e <= kept[taken][2]
         /\ ~inRight /\ left <= taken => kept[taken][2] < e
    <2>1. CASE inRight
      <3>1. taken = right /\ right \in 1..n
        BY <1>6, <1>9, <1>10, <2>1
      <3> QED BY <1>1, <1>6, <1>9, <1>10, <2>1, <3>1
    <2>2. CASE ~inRight
      <3>1. taken = right - 1
        BY <2>2
      <3>2. taken \in 0..n /\ left <= taken + 1
        BY <1>6, <1>9, <1>10, <3>1
      <3>3. left <= taken => kept[taken][2] < e
        BY <1>6, <1>9, <1>10, <3>1, <3>2
      <3> QED BY <2>2, <3>2, <3>3
    <2> QED BY <2>1, <2>2
  <1>12. ASSUME NEW j \in (taken + 1)..n PROVE e <= kept[j][1]
    <2>0. j \in 1..n
      BY <1>9, <1>11
    <2>1. CASE inRight
      <3>1. taken = right /\ right \in 1..n /\ right < j
        BY <1>6, <1>9, <1>10, <2>1
      <3>2. kept[right][2] <= kept[j][1] /\ e <= kept[right][2]
        BY <1>4, <1>10, <2>0, <3>1 DEF InTime
      <3> QED BY <1>1, <1>9, <2>0, <3>1, <3>2
    <2>2. CASE ~inRight
      <3>1. taken = right - 1 /\ right <= j /\ right \in 1..n
        BY <1>6, <1>9, <1>10, <2>0, <2>2
      <3>2. e <= kept[right][1]
        BY <1>1, <1>9, <2>2, <3>1
      <3>3. right # j => kept[right][1] <= kept[right][2] /\ kept[right][2] <= kept[j][1]
        BY <1>4, <2>0, <3>1 DEF InTime
      <3> DEFINE u == kept[right]
                 w == kept[j]
      <3>4. /\ u[1] \in Nat /\ u[2] \in Nat /\ w[1] \in Nat
            /\ e \in Nat /\ e <= u[1]
            /\ right # j => u[1] <= u[2] /\ u[2] <= w[1]
            /\ right = j => u = w
        BY <1>1, <1>9, <2>0, <3>1, <3>2, <3>3
      <3> HIDE DEF u, w
      <3>5. e <= w[1]
        BY <3>4
      <3> QED BY <3>5 DEF w
    <2> QED BY <2>1, <2>2
  <1>13. \A j \in 1..(left - 1) : kept[j][2] <= start
    BY <1>1, <1>6, <1>9
  <1> DEFINE t == Touched(r, h)
  <1>14. /\ t.start = start /\ t.kept = kept /\ t.left = left /\ t.taken = taken
         /\ t.inLeft = inLeft /\ t.inRight = inRight
    BY <1>2
  <1>15. t.inLeft \in BOOLEAN /\ t.inRight \in BOOLEAN /\ (t.inLeft <=> inLeft) /\ (t.inRight <=> inRight)
    BY <1>14
  <1> HIDE DEF taken, inRight, t
  <1>16. Touches(t, r)
    BY <1>1, <1>4, <1>6, <1>11, <1>12, <1>13, <1>14, <1>15 DEF Touches, x, e, start
  <1> QED BY <1>5, <1>14, <1>16 DEF t, x

-----------------------------------------------------------------------------
(* What becomes of the histogram, and what is sent.                        *)

\* The two ends of the request, as the slots they lie in.
LEMMA TouchesMeets ==
    ASSUME NEW r \in Requests, NEW t, Touches(t, r)
    PROVE  LET n == Len(t.kept) IN
           /\ t.inLeft => t.left <= n /\ t.start >= t.kept[t.left][1]
           /\ ~t.inLeft /\ t.left <= n => t.start < t.kept[t.left][1]
           /\ t.left <= n => t.start < t.kept[t.left][2]
           /\ t.inRight => t.left <= t.taken /\ t.kept[t.taken][1] < r.end
                           /\ r.end <= t.kept[t.taken][2]
           /\ ~t.inRight /\ t.left <= t.taken => t.kept[t.taken][2] < r.end
  <1> DEFINE n == Len(t.kept)
             x == t.kept[t.left]
             y == t.kept[t.taken]
             left == t.left
             taken == t.taken
             inLeft == t.inLeft
             inRight == t.inRight
             st == t.start
  <1>1. /\ t.kept \in SlotSeqs /\ left \in 1..(n + 1) /\ st \in Nat
        /\ inLeft <=> left <= n /\ st >= x[1]
        /\ left <= n => st < x[2]
    BY DEF Touches
  <1>2. /\ inRight => left <= taken /\ y[1] < r.end /\ r.end <= y[2]
        /\ ~inRight /\ left <= taken => y[2] < r.end
    BY DEF Touches
  <1>3. n \in Nat /\ (left <= n => x[1] \in Nat)
    BY <1>1, SlotTypes
  <1> HIDE DEF n, x, y, left, taken, inLeft, inRight, st
  <1>4. inLeft => left <= n /\ st >= x[1]
    BY <1>1
  <1>5. ~inLeft /\ left <= n => st < x[1]
    BY <1>1, <1>3
  <1> QED BY <1>1, <1>2, <1>4, <1>5 DEF n, x, y, left, taken, inLeft, inRight, st

\* The new histogram: in order, with what it had and the time of the request.
LEMMA MergedIs ==
    ASSUME NEW r \in Requests, NEW t, Touches(t, r)
    PROVE  /\ Merged(t, r.end) \in SlotSeqs /\ InTime(Merged(t, r.end))
           /\ \A m \in Int : m \in AllMoments(Merged(t, r.end)) <=>
                  m \in AllMoments(t.kept) \/ (t.start <= m /\ m < r.end)
  <1> DEFINE k == t.kept
             n == Len(k)
             e == r.end
             st == t.start
             left == t.left
             taken == t.taken
             lo == IF t.inLeft THEN k[left][1] ELSE st
             hi == IF t.inRight THEN k[taken][2] ELSE e
             a == SubSeq(k, 1, left - 1)
             b == <<<<lo, hi>>>>
             c == SubSeq(k, taken + 1, n)
  <1>1. /\ k \in SlotSeqs /\ InTime(k) /\ st \in Nat /\ st <= e
        /\ left \in 1..(n + 1) /\ taken \in 0..n /\ left <= taken + 1
        /\ \A j \in 1..(left - 1) : k[j][2] <= st
        /\ \A j \in (taken + 1)..n : e <= k[j][1]
    BY DEF Touches
  <1>2. /\ t.inLeft => left <= n /\ st >= k[left][1]
        /\ ~t.inLeft /\ left <= n => st < k[left][1]
        /\ left <= n => st < k[left][2]
        /\ t.inRight => left <= taken /\ k[taken][1] < e /\ e <= k[taken][2]
        /\ ~t.inRight /\ left <= taken => k[taken][2] < e
    BY TouchesMeets
  <1>3. n \in Nat /\ e \in Nat /\ \A i \in 1..n : k[i][1] \in Nat /\ k[i][2] \in Nat
    BY <1>1, SlotTypes, RequestIs
  <1>4. Merged(t, r.end) = (a \o b) \o c
    BY DEF Merged
  <1> HIDE DEF k, n, e, st, left, taken
  <1>5. lo \in Nat /\ hi \in Nat /\ lo <= st /\ e <= hi
    <2>1. lo \in Nat /\ lo <= st
      <3>1. CASE t.inLeft
        <4>1. left \in 1..n
          BY <1>1, <1>2, <1>3, <3>1
        <4> QED BY <1>2, <1>3, <3>1, <4>1
      <3>2. CASE ~t.inLeft
        BY <1>1, <3>2
      <3> QED BY <3>1, <3>2
    <2>2. hi \in Nat /\ e <= hi
      <3>1. CASE t.inRight
        <4>1. taken \in 1..n
          BY <1>1, <1>2, <1>3, <3>1
        <4> QED BY <1>2, <1>3, <3>1, <4>1
      <3>2. CASE ~t.inRight
        BY <1>3, <3>2
      <3> QED BY <3>1, <3>2
    <2> QED BY <2>1, <2>2
  <1>6. \A i \in 1..(left - 1) : i \in 1..n /\ k[i][2] <= lo
    <2> SUFFICES ASSUME NEW i \in 1..(left - 1) PROVE i \in 1..n /\ k[i][2] <= lo
      OBVIOUS
    <2>1. i \in 1..n /\ i < left
      BY <1>1, <1>3
    <2>2. CASE t.inLeft
      <3>1. left \in 1..n
        BY <1>1, <1>2, <1>3, <2>2
      <3> QED BY <1>1, <2>1, <2>2, <3>1 DEF InTime, n
    <2>3. CASE ~t.inLeft
      BY <1>1, <2>1, <2>3
    <2> QED BY <2>2, <2>3
  <1>7. \A j \in (taken + 1)..n : j \in 1..n /\ hi <= k[j][1]
    <2> SUFFICES ASSUME NEW j \in (taken + 1)..n PROVE j \in 1..n /\ hi <= k[j][1]
      OBVIOUS
    <2>1. j \in 1..n /\ taken < j
      BY <1>1, <1>3
    <2>2. CASE t.inRight
      <3>1. taken \in 1..n
        BY <1>1, <1>2, <1>3, <2>2
      <3> QED BY <1>1, <2>1, <2>2, <3>1 DEF InTime, n
    <2>3. CASE ~t.inRight
      BY <1>1, <2>1, <2>3
    <2> QED BY <2>2, <2>3
  <1>8. /\ a \in SlotSeqs /\ InTime(a) /\ Len(a) = left - 1
        /\ \A i \in 1..(left - 1) : a[i] = k[i]
    <2>1. 1 \in 1..(Len(k) + 1) /\ left - 1 \in 0..Len(k) /\ 1 <= (left - 1) + 1
      BY <1>1, <1>3 DEF n
    <2>2. /\ a \in SlotSeqs /\ InTime(a) /\ Len(a) = (left - 1) - 1 + 1
          /\ \A i \in 1..((left - 1) - 1 + 1) : a[i] = k[1 + i - 1]
      BY <1>1, <2>1, InTimeSub
    <2>3. (left - 1) - 1 + 1 = left - 1 /\ \A i \in 1..(left - 1) : 1 + i - 1 = i
      BY <1>1, <1>3
    <2> HIDE DEF a
    <2> QED BY <2>2, <2>3
  <1>9. /\ c \in SlotSeqs /\ InTime(c) /\ Len(c) = n - taken
        /\ \A i \in 1..(n - taken) : c[i] = k[taken + i]
    <2>1. taken + 1 \in 1..(Len(k) + 1) /\ n \in 0..Len(k) /\ taken + 1 <= n + 1
      BY <1>1, <1>3 DEF n
    <2>2. /\ c \in SlotSeqs /\ InTime(c) /\ Len(c) = n - (taken + 1) + 1
          /\ \A i \in 1..(n - (taken + 1) + 1) : c[i] = k[taken + 1 + i - 1]
      BY <1>1, <2>1, InTimeSub
    <2>3. n - (taken + 1) + 1 = n - taken /\ \A i \in 1..(n - taken) : taken + 1 + i - 1 = taken + i
      BY <1>1, <1>3
    <2> HIDE DEF c
    <2> QED BY <2>2, <2>3
  <1>10. b \in SlotSeqs /\ InTime(b) /\ Len(b) = 1 /\ b[1] = <<lo, hi>>
    <2>1. lo <= hi
      BY <1>1, <1>3, <1>5
    <2> HIDE DEF lo, hi
    <2> QED BY <1>5, <2>1, FewSlots
  <1> HIDE DEF a, b, c, lo, hi
  <1>11. b[1][1] = lo /\ b[1][2] = hi
    BY <1>10
  <1> DEFINE ab == a \o b
  <1>12. /\ ab \in SlotSeqs /\ InTime(ab) /\ Len(ab) = left
         /\ AllMoments(ab) = AllMoments(a) \cup AllMoments(b)
         /\ \A i \in 1..(left - 1) : ab[i] = k[i]
         /\ ab[left] = <<lo, hi>>
    <2>1. \A i \in 1..Len(a), j \in 1..Len(b) : a[i][2] <= b[j][1]
      BY <1>6, <1>8, <1>10, <1>11
    <2>2. /\ ab \in SlotSeqs /\ InTime(ab) /\ Len(ab) = Len(a) + Len(b)
          /\ AllMoments(ab) = AllMoments(a) \cup AllMoments(b)
          /\ \A i \in 1..Len(a) : ab[i] = a[i]
          /\ \A j \in 1..Len(b) : ab[Len(a) + j] = b[j]
      BY <1>8, <1>10, <2>1, InTimeConcat
    <2> HIDE DEF ab
    <2>3. Len(a) + 1 = left /\ 1 \in 1..Len(b)
      BY <1>1, <1>3, <1>8, <1>10
    <2> QED BY <1>8, <1>10, <2>2, <2>3
  <1> HIDE DEF ab
  <1>13. \A i \in 1..Len(ab), j \in 1..Len(c) : ab[i][2] <= c[j][1]
    <2> SUFFICES ASSUME NEW i \in 1..left, NEW j \in 1..(n - taken) PROVE ab[i][2] <= k[taken + j][1]
      BY <1>9, <1>12
    <2>1. taken + j \in (taken + 1)..n /\ taken + j \in 1..n
      BY <1>1, <1>3
    <2>2. hi <= k[taken + j][1] /\ k[taken + j][1] \in Nat
      BY <1>3, <1>7, <2>1
    <2>3. CASE i = left
      BY <1>12, <2>2, <2>3
    <2>4. CASE i # left
      <3>1. i \in 1..(left - 1) /\ i \in 1..n /\ i < taken + j
        BY <1>1, <1>3, <2>1, <2>4
      <3>2. k[i][2] <= k[taken + j][1]
        BY <1>1, <2>1, <3>1 DEF InTime, n
      <3> QED BY <1>12, <3>1, <3>2
    <2> QED BY <2>3, <2>4
  <1>14. /\ ab \o c \in SlotSeqs /\ InTime(ab \o c)
         /\ AllMoments(ab \o c) = AllMoments(ab) \cup AllMoments(c)
    BY <1>9, <1>12, <1>13, InTimeConcat
  <1>15. ASSUME NEW m \in Int
         PROVE  m \in AllMoments(ab \o c) <=> m \in AllMoments(k) \/ (st <= m /\ m < e)
    <2>1. /\ m \in AllMoments(k) <=> \E i \in 1..n : k[i][1] <= m /\ m < k[i][2]
          /\ m \in AllMoments(a) <=> \E i \in 1..(left - 1) : a[i][1] <= m /\ m < a[i][2]
          /\ m \in AllMoments(c) <=> \E i \in 1..(n - taken) : c[i][1] <= m /\ m < c[i][2]
          /\ m \in AllMoments(b) <=> \E i \in 1..1 : b[i][1] <= m /\ m < b[i][2]
      BY <1>1, <1>8, <1>9, <1>10, MomentsAre DEF n
    <2>2. m \in AllMoments(b) <=> lo <= m /\ m < hi
      BY <1>11, <2>1
    <2>3. m \in AllMoments(ab \o c) <=>
              m \in AllMoments(a) \/ m \in AllMoments(b) \/ m \in AllMoments(c)
      BY <1>12, <1>14
    <2>4. ASSUME m \in AllMoments(a) PROVE m \in AllMoments(k)
      <3>1. PICK i \in 1..(left - 1) : k[i][1] <= m /\ m < k[i][2]
        BY <1>8, <2>1, <2>4
      <3> QED BY <1>6, <2>1, <3>1
    <2>5. ASSUME m \in AllMoments(c) PROVE m \in AllMoments(k)
      <3>1. PICK i \in 1..(n - taken) : k[taken + i][1] <= m /\ m < k[taken + i][2]
        BY <1>9, <2>1, <2>5
      <3>2. taken + i \in 1..n
        BY <1>1, <1>3
      <3> QED BY <2>1, <3>1, <3>2
    <2>6. ASSUME lo <= m, m < hi PROVE m \in AllMoments(k) \/ (st <= m /\ m < e)
      <3>1. CASE m < st
        <4>1. t.inLeft
          BY <1>1, <2>6, <3>1 DEF lo
        <4>2. left \in 1..n /\ k[left][1] <= m /\ m < k[left][2]
          BY <1>1, <1>2, <1>3, <2>6, <3>1, <4>1 DEF lo
        <4> QED BY <2>1, <4>2
      <3>2. CASE m >= e
        <4>1. t.inRight
          BY <1>3, <2>6, <3>2 DEF hi
        <4>2. taken \in 1..n /\ k[taken][1] <= m /\ m < k[taken][2]
          BY <1>1, <1>2, <1>3, <2>6, <3>2, <4>1 DEF hi
        <4> QED BY <2>1, <4>2
      <3> QED BY <1>1, <1>3, <3>1, <3>2
    <2>7. ASSUME st <= m, m < e PROVE m \in AllMoments(b)
      BY <1>1, <1>3, <1>5, <2>2, <2>7
    <2>8. ASSUME m \in AllMoments(k)
          PROVE  m \in AllMoments(a) \/ m \in AllMoments(b) \/ m \in AllMoments(c)
      <3>1. PICK i \in 1..n : k[i][1] <= m /\ m < k[i][2]
        BY <2>1, <2>8
      <3>2. CASE i < left
        <4>1. i \in 1..(left - 1) /\ a[i] = k[i]
          BY <1>1, <1>3, <1>8, <3>2
        <4> QED BY <2>1, <3>1, <4>1
      <3>3. CASE i > taken
        <4>1. i - taken \in 1..(n - taken) /\ taken + (i - taken) = i
          BY <1>1, <1>3, <3>3
        <4>2. c[i - taken] = k[i]
          BY <1>9, <4>1
        <4> QED BY <2>1, <3>1, <4>1, <4>2
      <3>4. CASE left <= i /\ i <= taken
        <4>0. left \in 1..n /\ taken \in 1..n
          BY <1>1, <1>3, <3>4
        <4>1. lo <= k[i][1]
          <5>1. k[left][1] <= k[i][1]
            <6>1. CASE i = left
              BY <1>3, <4>0, <6>1
            <6>2. CASE i # left
              <7>1. k[left][1] <= k[left][2] /\ k[left][2] <= k[i][1]
                BY <1>1, <3>4, <4>0, <6>2 DEF InTime, n
              <7> QED BY <1>3, <4>0, <7>1
            <6> QED BY <6>1, <6>2
          <5>2. lo <= k[left][1]
            BY <1>1, <1>2, <1>3, <4>0 DEF lo
          <5> QED BY <1>3, <1>5, <4>0, <5>1, <5>2
        <4>2. k[i][2] <= hi
          <5>1. k[i][2] <= k[taken][2]
            <6>1. CASE i = taken
              BY <1>3, <4>0, <6>1
            <6>2. CASE i # taken
              <7>1. k[i][2] <= k[taken][1] /\ k[taken][1] <= k[taken][2]
                BY <1>1, <3>4, <4>0, <6>2 DEF InTime, n
              <7> QED BY <1>3, <4>0, <7>1
            <6> QED BY <6>1, <6>2
          <5>2. k[taken][2] <= hi
            BY <1>2, <1>3, <3>4, <4>0 DEF hi
          <5> QED BY <1>3, <1>5, <4>0, <5>1, <5>2
        <4>3. lo <= m /\ m < hi
          BY <1>3, <1>5, <3>1, <4>1, <4>2
        <4> QED BY <2>2, <4>3
      <3> QED BY <1>1, <1>3, <3>2, <3>3, <3>4
    <2> QED BY <2>2, <2>3, <2>4, <2>5, <2>6, <2>7, <2>8
  <1> QED BY <1>4, <1>14, <1>15 DEF ab, k, e, st

\* In order of time both ends of the slots rise.
LEMMA InTimeRises ==
    ASSUME NEW s \in SlotSeqs, InTime(s), NEW i \in 1..Len(s), NEW j \in 1..Len(s), i <= j
    PROVE  s[i][1] <= s[j][1] /\ s[i][2] <= s[j][2]
  <1>1. s[i][1] \in Nat /\ s[i][2] \in Nat /\ s[j][1] \in Nat /\ s[j][2] \in Nat
    BY SlotTypes
  <1>2. CASE i = j
    BY <1>1, <1>2
  <1>3. CASE i # j
    <2>1. i < j
      BY <1>3, SlotTypes
    <2>2. s[i][1] <= s[i][2] /\ s[i][2] <= s[j][1] /\ s[j][1] <= s[j][2]
      BY <2>1 DEF InTime
    <2> QED BY <1>1, <2>2
  <1> QED BY <1>2, <1>3

\* The gaps are what lies between two slots and in none.
LEMMA GapsAre ==
    ASSUME NEW k \in SlotSeqs, InTime(k), NEW p \in 1..Len(k), NEW q \in p..Len(k)
    PROVE  /\ Gaps(k, p, q) \in SlotSeqs /\ InTime(Gaps(k, p, q)) /\ Len(Gaps(k, p, q)) = q - p
           /\ \A i \in 1..(q - p) :
                 k[p][1] <= Gaps(k, p, q)[i][1] /\ Gaps(k, p, q)[i][2] <= k[q][1]
           /\ \A m \in Int : m \in AllMoments(Gaps(k, p, q)) <=>
                  k[p][2] <= m /\ m < k[q][1] /\ m \notin AllMoments(k)
  <1> DEFINE g == Gaps(k, p, q)
             n == Len(k)
  <1>1. n \in Nat /\ \A i \in 1..n : k[i][1] \in Nat /\ k[i][2] \in Nat
    BY SlotTypes
  <1>2. q \in 1..n /\ p <= q
    BY <1>1
  <1>3. \A i \in 1..(q - p) : p + i - 1 \in 1..n /\ p + i \in 1..n /\ p + i - 1 < p + i
    BY <1>1, <1>2
  <1>4. g = [i \in 1..(q - p) |-> <<k[p + i - 1][2], k[p + i][1]>>]
    BY DEF Gaps
  <1>5. /\ \A i \in 1..(q - p) : g[i] = <<k[p + i - 1][2], k[p + i][1]>>
        /\ g = [i \in 1..(q - p) |-> g[i]]
    BY <1>4
  <1>6. \A i \in 1..(q - p) : /\ g[i][1] = k[p + i - 1][2] /\ g[i][2] = k[p + i][1]
                              /\ g[i] \in Nat \X Nat
    <2> SUFFICES ASSUME NEW i \in 1..(q - p)
                 PROVE  /\ g[i][1] = k[p + i - 1][2] /\ g[i][2] = k[p + i][1]
                        /\ g[i] \in Nat \X Nat
      OBVIOUS
    <2>1. k[p + i - 1][2] \in Nat /\ k[p + i][1] \in Nat
      BY <1>1, <1>3
    <2>2. g[i] = <<k[p + i - 1][2], k[p + i][1]>>
      BY <1>5
    <2> QED BY <2>1, <2>2
  <1> HIDE DEF g
  <1>7. g \in SlotSeqs /\ Len(g) = q - p
    <2>1. q - p \in Nat
      BY <1>1, <1>2
    <2> QED BY <1>5, <1>6, <2>1, TypedSlots
  <1> HIDE DEF n
  <1>8. \A i, j \in 1..n : i <= j => k[i][1] <= k[j][1] /\ k[i][2] <= k[j][2]
    BY InTimeRises DEF n
  <1>9. /\ \A i \in 1..n : k[i][1] <= k[i][2]
        /\ \A i, j \in 1..n : i < j => k[i][2] <= k[j][1]
    BY DEF InTime, n
  <1>10. \A i \in 1..(q - p) : g[i][1] <= g[i][2]
    BY <1>3, <1>6, <1>9
  <1>11. ASSUME NEW i \in 1..(q - p), NEW j \in 1..(q - p), i < j PROVE g[i][2] <= g[j][1]
    <2>1. p + i <= p + j - 1 /\ p + i \in 1..n /\ p + j - 1 \in 1..n
      BY <1>1, <1>2, <1>3, <1>11
    <2>2. k[p + i][1] <= k[p + j - 1][1] /\ k[p + j - 1][1] <= k[p + j - 1][2]
      BY <1>8, <1>9, <2>1
    <2>3. g[i][2] = k[p + i][1] /\ g[j][1] = k[p + j - 1][2]
      BY <1>6
    <2>4. k[p + i][1] \in Nat /\ k[p + j - 1][1] \in Nat /\ k[p + j - 1][2] \in Nat
      BY <1>1, <2>1
    <2> DEFINE x == k[p + i]
               y == k[p + j - 1]
    <2>5. x[1] <= y[1] /\ y[1] <= y[2] /\ x[1] \in Nat /\ y[1] \in Nat /\ y[2] \in Nat
      BY <2>2, <2>4
    <2> HIDE DEF x, y
    <2>6. x[1] <= y[2]
      BY <2>5
    <2> QED BY <2>3, <2>6 DEF x, y
  <1>12. InTime(g)
    BY <1>7, <1>10, <1>11 DEF InTime
  <1>13. ASSUME NEW i \in 1..(q - p) PROVE k[p][1] <= g[i][1] /\ g[i][2] <= k[q][1]
    <2>1. p <= p + i - 1 /\ p + i <= q /\ p + i - 1 \in 1..n /\ p + i \in 1..n
      BY <1>1, <1>2, <1>3
    <2>2. k[p][1] <= k[p + i - 1][1] /\ k[p + i - 1][1] <= k[p + i - 1][2] /\ k[p + i][1] <= k[q][1]
      BY <1>2, <1>8, <1>9, <2>1 DEF n
    <2>3. g[i][1] = k[p + i - 1][2] /\ g[i][2] = k[p + i][1]
      BY <1>6
    <2>4. k[p][1] \in Nat /\ k[p + i - 1][1] \in Nat /\ k[p + i - 1][2] \in Nat
      BY <1>1, <2>1 DEF n
    <2> DEFINE x == k[p]
               y == k[p + i - 1]
    <2>5. x[1] <= y[1] /\ y[1] <= y[2] /\ x[1] \in Nat /\ y[1] \in Nat /\ y[2] \in Nat
      BY <2>2, <2>4
    <2> HIDE DEF x, y
    <2>6. x[1] <= y[2]
      BY <2>5
    <2> QED BY <2>2, <2>3, <2>6 DEF x, y
  <1>14. ASSUME NEW m \in Int
         PROVE  m \in AllMoments(g) <=> k[p][2] <= m /\ m < k[q][1] /\ m \notin AllMoments(k)
    <2>1. /\ m \in AllMoments(g) <=> \E i \in 1..(q - p) : g[i][1] <= m /\ m < g[i][2]
          /\ m \in AllMoments(k) <=> \E i \in 1..n : k[i][1] <= m /\ m < k[i][2]
      BY <1>7, MomentsAre DEF n
    <2>2. ASSUME m \in AllMoments(g)
          PROVE  k[p][2] <= m /\ m < k[q][1] /\ m \notin AllMoments(k)
      <3>1. PICK i \in 1..(q - p) : k[p + i - 1][2] <= m /\ m < k[p + i][1]
        BY <1>6, <2>1, <2>2
      <3>2. p <= p + i - 1 /\ p + i <= q /\ p + i - 1 \in 1..n /\ p + i \in 1..n /\ p \in 1..n
        BY <1>1, <1>2, <1>3 DEF n
      <3>3. k[p][2] <= k[p + i - 1][2] /\ k[p + i][1] <= k[q][1]
        BY <1>2, <1>8, <3>2
      <3>4. ASSUME NEW j \in 1..n, k[j][1] <= m, m < k[j][2] PROVE FALSE
        <4>1. CASE j <= p + i - 1
          <5>1. k[j][2] <= k[p + i - 1][2]
            BY <1>8, <3>2, <4>1
          <5> QED BY <1>1, <3>1, <3>2, <3>4, <5>1
        <4>2. CASE p + i <= j
          <5>1. k[p + i][1] <= k[j][1]
            BY <1>8, <3>2, <4>2
          <5> QED BY <1>1, <3>1, <3>2, <3>4, <5>1
        <4> QED BY <1>1, <3>2, <4>1, <4>2
      <3>5. /\ k[p][2] \in Nat /\ k[q][1] \in Nat
            /\ k[p + i - 1][2] \in Nat /\ k[p + i][1] \in Nat
        BY <1>1, <1>2, <3>2
      <3> DEFINE x == k[p + i - 1]
                 y == k[p + i]
                 v == k[p]
                 w == k[q]
      <3>7. /\ x[2] <= m /\ m < y[1] /\ v[2] <= x[2] /\ y[1] <= w[1]
            /\ x[2] \in Nat /\ y[1] \in Nat /\ v[2] \in Nat /\ w[1] \in Nat
        BY <3>1, <3>3, <3>5
      <3> HIDE DEF x, y, v, w
      <3>8. v[2] <= m
        BY <3>7
      <3>9. m < w[1]
        BY <3>7
      <3>6. k[p][2] <= m /\ m < k[q][1]
        BY <3>8, <3>9 DEF v, w
      <3> QED BY <2>1, <3>4, <3>6
    <2>3. ASSUME k[p][2] <= m, m < k[q][1], m \notin AllMoments(k)
          PROVE  m \in AllMoments(g)
      <3> DEFINE S == {j \in 1..n : m < k[j][1]}
      <3>1. S \in SUBSET Nat /\ q \in S
        BY <1>2, <2>3
      <3>2. PICK j \in S : \A l \in S : j <= l
        BY <3>1, LeastNumber
      <3>3. j \in 1..n /\ m < k[j][1] /\ j <= q
        BY <3>1, <3>2
      <3>4. p < j
        <4>1. ASSUME j <= p PROVE FALSE
          <5>1. k[j][1] <= k[p][1] /\ k[p][1] <= k[p][2] /\ p \in 1..n
            BY <1>2, <1>8, <1>9, <3>3, <4>1 DEF n
          <5> QED BY <1>1, <2>3, <3>3, <5>1
        <4> QED BY <1>1, <3>3, <4>1
      <3>5. j - 1 \in 1..n /\ ~(j <= j - 1) /\ j - p \in 1..(q - p)
            /\ p + (j - p) - 1 = j - 1 /\ p + (j - p) = j
        <4>1. p \in Nat /\ q \in Nat /\ n \in Nat /\ j \in Nat /\ 1 <= p /\ q <= n
          BY <1>1, <1>2, <3>3, <3>4
        <4>2. p < j /\ j <= q
          BY <1>1, <1>2, <3>3, <3>4
        <4>3. j - 1 \in 1..n /\ ~(j <= j - 1)
          BY <4>1, <4>2
        <4>4. j - p \in 1..(q - p)
          BY <4>1, <4>2
        <4>5. p + (j - p) - 1 = j - 1 /\ p + (j - p) = j
          BY <4>1
        <4> QED BY <4>3, <4>4, <4>5
      <3>6. ~(m < k[j - 1][1])
        BY <3>2, <3>5
      <3>7. ~(k[j - 1][1] <= m /\ m < k[j - 1][2])
        BY <2>1, <2>3, <3>5
      <3>8. k[j - 1][2] <= m
        <4>1. k[j - 1][1] \in Nat /\ k[j - 1][2] \in Nat
          BY <1>1, <3>5
        <4> DEFINE x == k[j - 1]
        <4>2. /\ ~(m < x[1]) /\ ~(x[1] <= m /\ m < x[2])
              /\ x[1] \in Nat /\ x[2] \in Nat
          BY <3>6, <3>7, <4>1
        <4> HIDE DEF x
        <4>3. x[2] <= m
          BY <4>2
        <4> QED BY <4>3 DEF x
      <3>9. g[j - p][1] = k[j - 1][2] /\ g[j - p][2] = k[j][1]
        BY <1>6, <3>5
      <3> QED BY <2>1, <3>3, <3>5, <3>8, <3>9
    <2> QED BY <2>2, <2>3
  <1> QED BY <1>7, <1>12, <1>13, <1>14 DEF g, n

\* The answer: in order, with what of the request no slot had.
LEMMA FreeIs ==
    ASSUME NEW r \in Requests, NEW t, Touches(t, r)
    PROVE  /\ FreeSlots(t, r.end) \in SlotSeqs /\ InTime(FreeSlots(t, r.end))
           /\ \A m \in Int : m \in AllMoments(FreeSlots(t, r.end)) <=>
                  t.start <= m /\ m < r.end /\ m \notin AllMoments(t.kept)
  <1> DEFINE k == t.kept
             n == Len(k)
             e == r.end
             st == t.start
             left == t.left
             taken == t.taken
             free == FreeSlots(t, e)
  <1>1. /\ k \in SlotSeqs /\ InTime(k) /\ st \in Nat /\ st <= e
        /\ left \in 1..(n + 1) /\ taken \in 0..n /\ left <= taken + 1
        /\ \A j \in 1..(left - 1) : k[j][2] <= st
        /\ \A j \in (taken + 1)..n : e <= k[j][1]
    BY DEF Touches
  <1>2. /\ t.inLeft => left <= n /\ st >= k[left][1]
        /\ ~t.inLeft /\ left <= n => st < k[left][1]
        /\ left <= n => st < k[left][2]
        /\ t.inRight => left <= taken /\ k[taken][1] < e /\ e <= k[taken][2]
        /\ ~t.inRight /\ left <= taken => k[taken][2] < e
    BY TouchesMeets
  <1>3. n \in Nat /\ e \in Nat /\ \A i \in 1..n : k[i][1] \in Nat /\ k[i][2] \in Nat
    BY <1>1, SlotTypes, RequestIs
  <1>4. \A m \in Int : m \in AllMoments(k) <=> \E i \in 1..n : k[i][1] <= m /\ m < k[i][2]
    BY <1>1, MomentsAre
  <1>5. \A i, j \in 1..n : i <= j => k[i][1] <= k[j][1] /\ k[i][2] <= k[j][2]
    BY <1>1, InTimeRises
  <1>6. \A i \in 1..n : k[i][1] <= k[i][2]
    BY <1>1 DEF InTime
  <1>7. CASE taken < left
    <2>1. free = <<<<st, e>>>>
      BY <1>7 DEF FreeSlots
    <2> HIDE DEF k, n, e, st, left, taken, free
    <2>2. /\ free \in SlotSeqs /\ InTime(free) /\ Len(free) = 1 /\ free[1] = <<st, e>>
      BY <1>1, <1>3, <2>1, FewSlots
    <2>3. free[1][1] = st /\ free[1][2] = e
      BY <2>2
    <2>4. ASSUME NEW m \in Int
          PROVE  m \in AllMoments(free) <=> st <= m /\ m < e /\ m \notin AllMoments(k)
      <3>1. m \in AllMoments(free) <=> st <= m /\ m < e
        <4>1. m \in AllMoments(free) <=> \E i \in 1..1 : free[i][1] <= m /\ m < free[i][2]
          BY <2>2, MomentsAre
        <4> QED BY <2>3, <4>1
      <3>2. ASSUME st <= m, m < e, NEW i \in 1..n, k[i][1] <= m, m < k[i][2] PROVE FALSE
        <4>1. k[i][1] \in Nat /\ k[i][2] \in Nat
          BY <1>3
        <4>2. CASE i < left
          <5>1. k[i][2] <= st
            BY <1>1, <1>3, <4>2
          <5> QED BY <1>1, <3>2, <4>1, <5>1
        <4>3. CASE i > taken
          <5>1. e <= k[i][1]
            BY <1>1, <1>3, <4>3
          <5> QED BY <1>3, <3>2, <4>1, <5>1
        <4> QED BY <1>1, <1>3, <1>7, <4>2, <4>3
      <3> QED BY <1>4, <3>1, <3>2
    <2> QED BY <2>2, <2>4 DEF free, e, st, k
  <1>8. CASE left <= taken
    <2> DEFINE a == IF t.inLeft THEN << >> ELSE <<<<st, k[left][1]>>>>
               g == Gaps(k, left, taken)
               c == IF t.inRight THEN << >> ELSE <<<<k[taken][2], e>>>>
               u == k[left]
               w == k[taken]
    <2>0. left \in 1..n /\ taken \in left..n /\ taken \in 1..n
      BY <1>1, <1>3, <1>8
    <2>1. free = (a \o g) \o c
      <3>1. ~(taken < left)
        BY <2>0, <1>3
      <3> QED BY <3>1 DEF FreeSlots
    <2>2. /\ g \in SlotSeqs /\ InTime(g)
          /\ \A i \in 1..Len(g) : u[1] <= g[i][1] /\ g[i][2] <= w[1]
          /\ \A m \in Int : m \in AllMoments(g) <=> u[2] <= m /\ m < w[1] /\ m \notin AllMoments(k)
      BY <1>1, <2>0, GapsAre
    <2>3. /\ u[1] \in Nat /\ u[2] \in Nat /\ w[1] \in Nat /\ w[2] \in Nat
          /\ u[1] <= u[2] /\ w[1] <= w[2] /\ u[1] <= w[1] /\ u[2] <= w[2]
      <3>1. left <= taken /\ left \in 1..n /\ taken \in 1..n
        BY <1>8, <2>0
      <3>2. k[left][1] <= k[taken][1] /\ k[left][2] <= k[taken][2]
        BY <1>5, <3>1
      <3>3. k[left][1] <= k[left][2] /\ k[taken][1] <= k[taken][2]
        BY <1>6, <3>1
      <3>4. /\ k[left][1] \in Nat /\ k[left][2] \in Nat
            /\ k[taken][1] \in Nat /\ k[taken][2] \in Nat
        BY <1>3, <3>1
      <3> QED BY <3>2, <3>3, <3>4
    <2>4. /\ t.inLeft => st >= u[1]
          /\ ~t.inLeft => st < u[1]
          /\ st < u[2]
          /\ t.inRight => w[1] < e /\ e <= w[2]
          /\ ~t.inRight => w[2] < e
      BY <1>2, <1>3, <2>0
    <2>5. w[1] < e /\ st \in Nat /\ e \in Nat
      <3> HIDE DEF u, w, e, st
      <3>1. st \in Nat /\ e \in Nat
        BY <1>1, <1>3
      <3>2. CASE t.inRight
        BY <2>4, <3>1, <3>2
      <3>3. CASE ~t.inRight
        BY <2>3, <2>4, <3>1, <3>3
      <3> QED BY <3>1, <3>2, <3>3
    <2>6. /\ a \in SlotSeqs /\ InTime(a)
          /\ \A i \in 1..Len(a) : a[i][2] <= u[1]
          /\ \A m \in Int : m \in AllMoments(a) <=> ~t.inLeft /\ st <= m /\ m < u[1]
      <3> HIDE DEF u, st
      <3>1. CASE t.inLeft
        <4>1. a = << >>
          BY <3>1
        <4>2. Len(<< >>) = 0
          OBVIOUS
        <4> HIDE DEF a
        <4> QED BY <3>1, <4>1, <4>2, FewSlots
      <3>2. CASE ~t.inLeft
        <4>1. a = <<<<st, u[1]>>>>
          BY <3>2 DEF u
        <4> HIDE DEF a
        <4>2. st <= u[1]
          BY <2>3, <2>4, <2>5, <3>2
        <4>3. /\ a \in SlotSeqs /\ InTime(a) /\ Len(a) = 1 /\ a[1] = <<st, u[1]>>
          BY <2>3, <2>5, <4>1, <4>2, FewSlots
        <4>4. a[1][1] = st /\ a[1][2] = u[1]
          BY <4>3
        <4>5. ASSUME NEW m \in Int PROVE m \in AllMoments(a) <=> st <= m /\ m < u[1]
          <5>1. m \in AllMoments(a) <=> \E i \in 1..1 : a[i][1] <= m /\ m < a[i][2]
            BY <4>3, MomentsAre
          <5> QED BY <4>4, <5>1
        <4>6. \A i \in 1..Len(a) : a[i][2] <= u[1]
          BY <2>3, <4>3, <4>4
        <4> QED BY <3>2, <4>3, <4>5, <4>6
      <3> QED BY <3>1, <3>2
    <2>7. /\ c \in SlotSeqs /\ InTime(c)
          /\ \A i \in 1..Len(c) : w[2] <= c[i][1]
          /\ \A m \in Int : m \in AllMoments(c) <=> ~t.inRight /\ w[2] <= m /\ m < e
      <3> HIDE DEF w, e
      <3>1. CASE t.inRight
        <4>1. c = << >>
          BY <3>1
        <4>2. Len(<< >>) = 0
          OBVIOUS
        <4> HIDE DEF c
        <4> QED BY <3>1, <4>1, <4>2, FewSlots
      <3>2. CASE ~t.inRight
        <4>1. c = <<<<w[2], e>>>>
          BY <3>2 DEF w
        <4> HIDE DEF c
        <4>2. w[2] <= e
          BY <2>3, <2>4, <2>5, <3>2
        <4>3. /\ c \in SlotSeqs /\ InTime(c) /\ Len(c) = 1 /\ c[1] = <<w[2], e>>
          BY <2>3, <2>5, <4>1, <4>2, FewSlots
        <4>4. c[1][1] = w[2] /\ c[1][2] = e
          BY <4>3
        <4>5. ASSUME NEW m \in Int PROVE m \in AllMoments(c) <=> w[2] <= m /\ m < e
          <5>1. m \in AllMoments(c) <=> \E i \in 1..1 : c[i][1] <= m /\ m < c[i][2]
            BY <4>3, MomentsAre
          <5> QED BY <4>4, <5>1
        <4>6. \A i \in 1..Len(c) : w[2] <= c[i][1]
          BY <2>3, <4>3, <4>4
        <4> QED BY <3>2, <4>3, <4>5, <4>6
      <3> QED BY <3>1, <3>2
    <2> HIDE DEF a, g, c, u, w
    <2> DEFINE ag == a \o g
    <2>8. /\ ag \in SlotSeqs /\ InTime(ag) /\ AllMoments(ag) = AllMoments(a) \cup AllMoments(g)
          /\ \A i \in 1..Len(ag) : ag[i][2] <= w[1]
      <3>0. /\ Len(a) \in Nat /\ Len(g) \in Nat
            /\ \A i \in 1..Len(a) : a[i][2] \in Nat
            /\ \A i \in 1..Len(g) : g[i][1] \in Nat
        BY <2>2, <2>6, SlotTypes
      <3>1. \A i \in 1..Len(a), j \in 1..Len(g) : a[i][2] <= g[j][1]
        <4> SUFFICES ASSUME NEW i \in 1..Len(a), NEW j \in 1..Len(g)
                     PROVE  a[i][2] <= g[j][1]
          OBVIOUS
        <4> DEFINE p == a[i][2]
                   q == g[j][1]
        <4>1. p <= u[1] /\ u[1] <= q
          BY <2>2, <2>6
        <4>2. p \in Nat /\ q \in Nat /\ u[1] \in Nat
          BY <2>3, <3>0
        <4> HIDE DEF p, q
        <4>3. p <= q
          BY <4>1, <4>2
        <4> QED BY <4>3 DEF p, q
      <3>2. /\ ag \in SlotSeqs /\ InTime(ag) /\ Len(ag) = Len(a) + Len(g)
            /\ AllMoments(ag) = AllMoments(a) \cup AllMoments(g)
            /\ \A i \in 1..Len(a) : ag[i] = a[i]
            /\ \A j \in 1..Len(g) : ag[Len(a) + j] = g[j]
        BY <2>2, <2>6, <3>1, InTimeConcat
      <3> HIDE DEF ag
      <3>3. ASSUME NEW i \in 1..Len(ag) PROVE ag[i][2] <= w[1]
        <4>1. CASE i <= Len(a)
          <5>1. i \in 1..Len(a) /\ ag[i] = a[i]
            BY <3>0, <3>2, <4>1
          <5>2. ag[i][2] <= u[1] /\ ag[i][2] \in Nat
            BY <2>6, <3>0, <5>1
          <5> QED BY <2>3, <5>2
        <4>2. CASE ~(i <= Len(a))
          <5>1. i - Len(a) \in 1..Len(g) /\ Len(a) + (i - Len(a)) = i
            BY <3>0, <3>2, <4>2
          <5>2. ag[i] = g[i - Len(a)]
            BY <3>2, <5>1
          <5> QED BY <2>2, <5>1, <5>2
        <4> QED BY <4>1, <4>2
      <3> QED BY <3>2, <3>3
    <2> HIDE DEF ag
    <2>9. /\ ag \o c \in SlotSeqs /\ InTime(ag \o c)
          /\ AllMoments(ag \o c) = AllMoments(ag) \cup AllMoments(c)
      <3>0. /\ \A i \in 1..Len(ag) : ag[i][2] \in Nat
            /\ \A i \in 1..Len(c) : c[i][1] \in Nat
        BY <2>7, <2>8, SlotTypes
      <3>1. \A i \in 1..Len(ag), j \in 1..Len(c) : ag[i][2] <= c[j][1]
        <4> SUFFICES ASSUME NEW i \in 1..Len(ag), NEW j \in 1..Len(c)
                     PROVE  ag[i][2] <= c[j][1]
          OBVIOUS
        <4> DEFINE p == ag[i][2]
                   q == c[j][1]
        <4>1. p <= w[1] /\ w[1] <= w[2] /\ w[2] <= q
          BY <2>3, <2>7, <2>8
        <4>2. p \in Nat /\ q \in Nat /\ w[1] \in Nat /\ w[2] \in Nat
          BY <2>3, <3>0
        <4> HIDE DEF p, q
        <4>3. p <= q
          BY <4>1, <4>2
        <4> QED BY <4>3 DEF p, q
      <3> QED BY <2>7, <2>8, <3>1, InTimeConcat
    <2>10. ASSUME NEW m \in Int
           PROVE  m \in AllMoments(ag \o c) <=> st <= m /\ m < e /\ m \notin AllMoments(k)
      <3> HIDE DEF k, n, e, st, left, taken
      <3>1. /\ m \in AllMoments(ag \o c) <=>
                  m \in AllMoments(a) \/ m \in AllMoments(g) \/ m \in AllMoments(c)
            /\ m \in AllMoments(a) <=> ~t.inLeft /\ st <= m /\ m < u[1]
            /\ m \in AllMoments(g) <=> u[2] <= m /\ m < w[1] /\ m \notin AllMoments(k)
            /\ m \in AllMoments(c) <=> ~t.inRight /\ w[2] <= m /\ m < e
        BY <2>2, <2>6, <2>7, <2>8, <2>9
      <3>2. ASSUME NEW i \in 1..n
            PROVE  /\ i < left => k[i][2] <= st
                   /\ left <= i => u[1] <= k[i][1]
                   /\ i <= taken => k[i][2] <= w[2]
                   /\ taken < i => e <= k[i][1]
        BY <1>1, <1>3, <1>5, <2>0 DEF u, w
      <3>3. ASSUME st <= m, m < u[1] PROVE m < e /\ m \notin AllMoments(k)
        <4>1. ASSUME NEW i \in 1..n, k[i][1] <= m, m < k[i][2] PROVE FALSE
          <5>1. k[i][1] \in Nat /\ k[i][2] \in Nat
            BY <1>3
          <5>2. i < left \/ left <= i
            BY <1>3, <2>0
          <5> QED BY <2>3, <2>5, <3>2, <3>3, <4>1, <5>1, <5>2
        <4>2. m < e
          BY <2>3, <2>5, <3>3
        <4> QED BY <1>4, <4>1, <4>2
      <3>4. ASSUME w[2] <= m, m < e PROVE st <= m /\ m \notin AllMoments(k)
        <4>1. ASSUME NEW i \in 1..n, k[i][1] <= m, m < k[i][2] PROVE FALSE
          <5>1. k[i][1] \in Nat /\ k[i][2] \in Nat
            BY <1>3
          <5>2. taken < i \/ i <= taken
            BY <1>3, <2>0
          <5> QED BY <2>3, <2>5, <3>2, <3>4, <4>1, <5>1, <5>2
        <4>2. st <= m
          BY <2>3, <2>4, <2>5, <3>4
        <4> QED BY <1>4, <4>1, <4>2
      <3>5. ASSUME u[2] <= m, m < w[1] PROVE st <= m /\ m < e
        BY <2>3, <2>4, <2>5, <3>5
      <3>6. ASSUME st <= m, m < e, m \notin AllMoments(k)
            PROVE  m \in AllMoments(a) \/ m \in AllMoments(g) \/ m \in AllMoments(c)
        <4>1. ~(u[1] <= m /\ m < u[2]) /\ ~(w[1] <= m /\ m < w[2])
          BY <1>4, <2>0, <3>6 DEF u, w
        <4>2. CASE m < u[1]
          <5>1. ~t.inLeft
            BY <2>3, <2>4, <2>5, <3>6, <4>2
          <5> QED BY <3>1, <3>6, <4>2, <5>1
        <4>3. CASE m >= w[2]
          <5>1. ~t.inRight
            BY <2>3, <2>4, <2>5, <3>6, <4>3
          <5> QED BY <3>1, <3>6, <4>3, <5>1
        <4>4. CASE ~(m < u[1]) /\ ~(m >= w[2])
          <5>1. u[2] <= m /\ m < w[1]
            BY <2>3, <4>1, <4>4
          <5> QED BY <3>1, <3>6, <5>1
        <4> QED BY <4>2, <4>3, <4>4
      <3> QED BY <3>1, <3>3, <3>4, <3>5, <3>6
    <2> QED BY <2>1, <2>9, <2>10 DEF ag, free, k, e, st
  <1> QED BY <1>1, <1>3, <1>7, <1>8

-----------------------------------------------------------------------------
(* The queue of requests.                                                  *)

InQueue(queue) ==
    /\ queue \in Seq(Requests)
    /\ \A i, j \in 1..Len(queue) : i < j => queue[i].end <= queue[j].end

\* What is said of the queue is said of requests.
LEMMA QueueTypes ==
    ASSUME NEW queue, InQueue(queue)
    PROVE  /\ Len(queue) \in Nat /\ DOMAIN queue = 1..Len(queue)
           /\ \A i \in 1..Len(queue) : queue[i] \in Requests /\ queue[i].end \in Nat
  <1>1. queue \in Seq(Requests)
    BY DEF InQueue
  <1>2. Len(queue) \in Nat /\ DOMAIN queue = 1..Len(queue)
        /\ \A i \in 1..Len(queue) : queue[i] \in Requests
    BY <1>1
  <1> QED BY <1>2, RequestIs

\* Push keeps the order of the ends, and Tail does.
LEMMA PushIs ==
    ASSUME NEW queue, InQueue(queue), NEW r \in Requests
    PROVE  InQueue(Push(queue, r)) /\ Len(Push(queue, r)) = Len(queue) + 1
  <1> DEFINE n == Len(queue)
             at == FirstSlot(queue, LAMBDA x : x.end > r.end)
             a == SubSeq(queue, 1, at - 1)
             b == SubSeq(queue, at, n)
             p == (a \o <<r>>) \o b
  <1>1. Push(queue, r) = p
    BY DEF Push
  <1>2. /\ at \in 1..(n + 1) /\ (at <= n => queue[at].end > r.end)
        /\ \A j \in 1..(at - 1) : ~(queue[j].end > r.end)
    <2> DEFINE S == {i \in 1..n : queue[i].end > r.end}
    <2>1. n \in Nat
      BY QueueTypes
    <2> HIDE DEF S
    <2>2. PICK i \in 1..(n + 1) : (i <= n => i \in S) /\ \A j \in 1..(i - 1) : j \notin S
      BY <2>1, FirstExists
    <2>3. /\ i <= n => queue[i].end > r.end
          /\ \A j \in 1..(i - 1) : ~(queue[j].end > r.end)
      BY <2>1, <2>2 DEF S
    <2> QED BY <2>3 DEF FirstSlot
  <1> HIDE DEF at
  <1>3. /\ queue \in Seq(Requests) /\ n \in Nat /\ r.end \in Nat
        /\ \A i \in 1..n : queue[i] \in Requests /\ queue[i].end \in Nat
        /\ \A i, j \in 1..n : i < j => queue[i].end <= queue[j].end
    BY QueueTypes, RequestIs DEF InQueue
  <1>4. /\ a \in Seq(Requests) /\ Len(a) = at - 1 /\ \A i \in 1..(at - 1) : a[i] = queue[i]
    <2>1. at - 1 \in 0..n /\ at - 1 \in Int
      BY <1>2, <1>3
    <2>2. \A i \in 1..(at - 1) : queue[i] \in Requests
      BY <1>3, <2>1
    <2>3. /\ a \in Seq(Requests) /\ Len(a) = IF 1 <= at - 1 THEN (at - 1) - 1 + 1 ELSE 0
          /\ \A i \in 1..((at - 1) - 1 + 1) : a[i] = queue[1 + i - 1]
      BY <2>1, <2>2, SubSeqProperties
    <2> HIDE DEF a
    <2>4. (at - 1) - 1 + 1 = at - 1 /\ \A i \in 1..(at - 1) : 1 + i - 1 = i
      BY <2>1
    <2> QED BY <1>2, <1>3, <2>3, <2>4
  <1>5. /\ b \in Seq(Requests) /\ Len(b) = n - at + 1
        /\ \A i \in 1..(n - at + 1) : b[i] = queue[at + i - 1]
    BY <1>2, <1>3
  <1> HIDE DEF a, b, n
  <1>6. /\ p \in Seq(Requests) /\ Len(p) = n + 1
        /\ \A i \in 1..(at - 1) : p[i] = queue[i]
        /\ p[at] = r
        /\ \A i \in (at + 1)..(n + 1) : p[i] = queue[i - 1]
    <2> DEFINE ar == a \o <<r>>
    <2>1. /\ ar \in Seq(Requests) /\ Len(ar) = at /\ ar[at] = r
          /\ \A i \in 1..(at - 1) : ar[i] = a[i]
      <3>1. a \in Seq(Requests) /\ <<r>> \in Seq(Requests) /\ Len(<<r>>) = 1 /\ <<r>>[1] = r
        BY <1>4
      <3>2. /\ ar \in Seq(Requests) /\ Len(ar) = Len(a) + Len(<<r>>)
            /\ \A i \in 1..(Len(a) + Len(<<r>>)) :
                   ar[i] = IF i <= Len(a) THEN a[i] ELSE <<r>>[i - Len(a)]
        BY <3>1, ConcatProperties
      <3>3. Len(a) = at - 1 /\ at \in Nat \ {0}
        BY <1>2, <1>3, <1>4
      <3> HIDE DEF ar, p
      <3>4. /\ Len(ar) = at
            /\ \A i \in 1..at : ar[i] = IF i <= at - 1 THEN a[i] ELSE <<r>>[i - (at - 1)]
        BY <3>1, <3>2, <3>3
      <3>5. at \in 1..at /\ ~(at <= at - 1) /\ at - (at - 1) = 1
        BY <3>3
      <3>6. ar[at] = r
        BY <3>1, <3>4, <3>5
      <3>7. \A i \in 1..(at - 1) : i \in 1..at /\ i <= at - 1
        BY <3>3
      <3> QED BY <3>2, <3>4, <3>6, <3>7
    <2> HIDE DEF ar
    <2> DEFINE arb == ar \o b
    <2>2. /\ arb \in Seq(Requests) /\ Len(arb) = n + 1
          /\ \A i \in 1..at : arb[i] = ar[i]
          /\ \A i \in 1..(n - at + 1) : arb[at + i] = b[i]
      <3>1. at \in Nat /\ n - at + 1 \in Nat /\ at + (n - at + 1) = n + 1
        BY <1>2, <1>3
      <3> HIDE DEF p
      <3>2. arb \in Seq(Requests) /\ Len(arb) = Len(ar) + Len(b)
        <4>1. ar \in Seq(Requests) /\ b \in Seq(Requests)
          BY <1>5, <2>1
        <4>2. Len(arb) = Len(ar) + Len(b)
          BY <4>1, ConcatProperties
        <4>3. arb \in Seq(Requests)
          BY <4>1, ConcatProperties
        <4> QED BY <4>2, <4>3
      <3>3. /\ \A i \in 1..Len(ar) : arb[i] = ar[i]
            /\ \A i \in 1..Len(b) : arb[Len(ar) + i] = b[i]
        <4>1. ar \in Seq(Requests) /\ b \in Seq(Requests)
          BY <1>5, <2>1
        <4>2. \A i \in 1..(Len(ar) + Len(b)) :
                  arb[i] = IF i <= Len(ar) THEN ar[i] ELSE b[i - Len(ar)]
          BY <4>1, ConcatProperties
        <4>3. Len(ar) \in Nat /\ Len(b) \in Nat
          BY <4>1
        <4> HIDE DEF arb
        <4> QED BY <4>2, <4>3
      <3>4. Len(arb) = n + 1
        BY <1>5, <2>1, <3>1, <3>2
      <3>5. /\ \A i \in 1..at : arb[i] = ar[i]
            /\ \A i \in 1..(n - at + 1) : arb[at + i] = b[i]
        BY <1>5, <2>1, <3>3
      <3> HIDE DEF arb
      <3> QED BY <3>2, <3>4, <3>5
    <2> HIDE DEF arb
    <2>3. \A i \in (at + 1)..(n + 1) : /\ i - at \in 1..(n - at + 1) /\ at + (i - at) = i
                                       /\ at + (i - at) - 1 = i - 1
      BY <1>2, <1>3
    <2>4. \A i \in (at + 1)..(n + 1) : arb[i] = queue[i - 1]
      BY <1>5, <2>2, <2>3
    <2>5. at \in 1..at /\ \A i \in 1..(at - 1) : i \in 1..at
      BY <1>2, <1>3
    <2>6. arb[at] = r /\ \A i \in 1..(at - 1) : arb[i] = queue[i]
      BY <1>4, <2>1, <2>2, <2>5
    <2> QED BY <2>2, <2>4, <2>6 DEF ar, arb
  <1> HIDE DEF p
  <1>7. ASSUME NEW i \in 1..(n + 1), NEW j \in 1..(n + 1), i < j PROVE p[i].end <= p[j].end
    <2>1. CASE j < at
      <3>1. i \in 1..(at - 1) /\ j \in 1..(at - 1) /\ i \in 1..n /\ j \in 1..n
        BY <1>2, <1>3, <1>7, <2>1
      <3> QED BY <1>3, <1>6, <1>7, <3>1
    <2>2. CASE j = at
      <3>1. i \in 1..(at - 1) /\ i \in 1..n
        BY <1>2, <1>3, <1>7, <2>2
      <3>2. p[i] = queue[i] /\ p[j] = r /\ ~(queue[i].end > r.end) /\ queue[i].end \in Nat
        BY <1>2, <1>3, <1>6, <2>2, <3>1
      <3> QED BY <1>3, <3>2
    <2>3. CASE at < j
      <3>1. j \in (at + 1)..(n + 1) /\ j - 1 \in 1..n /\ at <= j - 1
        BY <1>2, <1>3, <1>7, <2>3
      <3>2. p[j] = queue[j - 1] /\ queue[j - 1].end \in Nat
        BY <1>3, <1>6, <3>1
      <3>3. CASE i < at
        <4>1. i \in 1..(at - 1) /\ i \in 1..n /\ i < j - 1
          BY <1>2, <1>3, <3>1, <3>3
        <4> QED BY <1>3, <1>6, <3>1, <3>2, <4>1
      <3>4. CASE i = at
        <4>1. at \in 1..n /\ queue[at].end > r.end /\ queue[at].end \in Nat
          <5>1. at \in 1..n
            BY <1>2, <1>3, <3>1
          <5>2. queue[at].end > r.end
            BY <1>2, <5>1
          <5>3. queue[at].end \in Nat
            BY <1>3, <5>1
          <5> QED BY <5>1, <5>2, <5>3
        <4>2. queue[at].end <= queue[j - 1].end
          BY <1>3, <3>1, <4>1
        <4>3. p[i].end = r.end /\ p[j].end = queue[j - 1].end
          BY <1>6, <3>2, <3>4
        <4> DEFINE x == queue[at].end
                   y == queue[j - 1].end
        <4>4. r.end < x /\ x <= y /\ r.end \in Nat /\ x \in Nat /\ y \in Nat
          BY <1>3, <3>2, <4>1, <4>2
        <4> HIDE DEF x, y
        <4>5. r.end <= y
          BY <4>4
        <4> QED BY <4>3, <4>5 DEF y
      <3>5. CASE at < i
        <4>1. i \in (at + 1)..(n + 1) /\ i - 1 \in 1..n /\ i - 1 < j - 1
          BY <1>2, <1>3, <1>7, <3>5
        <4> QED BY <1>3, <1>6, <3>1, <3>2, <4>1
      <3> QED BY <1>2, <1>3, <3>3, <3>4, <3>5
    <2> QED BY <1>2, <1>3, <2>1, <2>2, <2>3
  <1> QED BY <1>1, <1>6, <1>7 DEF InQueue, n

LEMMA QueueTail ==
    ASSUME NEW queue, InQueue(queue), queue # << >>
    PROVE  InQueue(Tail(queue)) /\ queue[1] \in Requests
  <1> DEFINE n == Len(queue)
             t == Tail(queue)
  <1>1. /\ queue \in Seq(Requests) /\ n \in Nat \ {0}
        /\ \A i, j \in 1..n : i < j => queue[i].end <= queue[j].end
    BY DEF InQueue
  <1>2. /\ t \in Seq(Requests) /\ Len(t) = n - 1 /\ \A i \in 1..(n - 1) : t[i] = queue[i + 1]
    BY <1>1
  <1> HIDE DEF t, n
  <1>3. \A i, j \in 1..(n - 1) : i < j => i + 1 \in 1..n /\ j + 1 \in 1..n /\ i + 1 < j + 1
    BY <1>1
  <1>4. \A i, j \in 1..(n - 1) : i < j => t[i].end <= t[j].end
    BY <1>1, <1>2, <1>3
  <1>5. queue[1] \in Requests
    BY <1>1 DEF n
  <1> QED BY <1>2, <1>4, <1>5 DEF t, InQueue

-----------------------------------------------------------------------------
(* What was sent.                                                          *)

\* What the first n requests were sent with.
SentBy(tr, n) == UNION {AllMoments(tr[j].slots) : j \in 1..n}

\* InOrderOfNow, and a conjunct of SlotsAreTheRest, for a sequence of requests.
NowsRise(tr) == \A i, j \in 1..Len(tr) : i < j => tr[i].req.now <= tr[j].req.now

Rest(tr, i) ==
    AllMoments(tr[i].slots) =
        (LaterOf(tr[i].req.start, Leftmost(tr[i].req))..(tr[i].req.end - 1)) \ SentBy(tr, i - 1)

\* As far back as a later request may reach, the histogram has what was sent.
Covered(tr, hg) ==
    \A m \in Int :
        (tr # << >> => m >= Leftmost(tr[Len(tr)].req))
            => (m \in AllMoments(hg) <=> m \in SentBy(tr, Len(tr)))

\* What holds of the requests sent and the histogram.
SentInv(tr, hg) ==
    /\ tr \in Seq([req : Requests, slots : SlotSeqs])
    /\ \A i \in 1..Len(tr) : InTime(tr[i].slots)
    /\ hg \in SlotSeqs /\ InTime(hg)
    /\ NowsRise(tr) => Covered(tr, hg) /\ \A i \in 1..Len(tr) : Rest(tr, i)

\* What is said of a sequence is said of its members.
LEMMA SentTypes ==
    ASSUME NEW S, NEW tr \in Seq(S)
    PROVE  Len(tr) \in Nat /\ DOMAIN tr = 1..Len(tr) /\ \A i \in 1..Len(tr) : tr[i] \in S
  OBVIOUS

\* One more request.
LEMMA SentByAppend ==
    ASSUME NEW tr \in Seq([req : Requests, slots : SlotSeqs]),
           NEW e \in [req : Requests, slots : SlotSeqs]
    PROVE  /\ Append(tr, e) \in Seq([req : Requests, slots : SlotSeqs])
           /\ Len(Append(tr, e)) = Len(tr) + 1 /\ Append(tr, e)[Len(tr) + 1] = e
           /\ \A i \in 1..Len(tr) : Append(tr, e)[i] = tr[i]
           /\ \A i \in 0..Len(tr) : SentBy(Append(tr, e), i) = SentBy(tr, i)
           /\ SentBy(Append(tr, e), Len(tr) + 1) = SentBy(tr, Len(tr)) \cup AllMoments(e.slots)
  <1> DEFINE u == Append(tr, e)
             n == Len(tr)
  <1>1. /\ u \in Seq([req : Requests, slots : SlotSeqs]) /\ n \in Nat
        /\ Len(u) = n + 1 /\ u[n + 1] = e /\ \A i \in 1..n : u[i] = tr[i]
    OBVIOUS
  <1> HIDE DEF u, n
  <1>2. ASSUME NEW i \in 0..n PROVE SentBy(u, i) = SentBy(tr, i)
    <2>1. \A j \in 1..i : u[j] = tr[j]
      BY <1>1
    <2> QED BY <2>1 DEF SentBy
  <1>3. SentBy(u, n + 1) = SentBy(tr, n) \cup AllMoments(e.slots)
    <2>1. \A j : j \in 1..(n + 1) <=> j \in 1..n \/ j = n + 1
      BY <1>1
    <2>2. \A m : m \in SentBy(u, n + 1) <=> \E j \in 1..(n + 1) : m \in AllMoments(u[j].slots)
      BY DEF SentBy
    <2>3. \A m : m \in SentBy(tr, n) <=> \E j \in 1..n : m \in AllMoments(tr[j].slots)
      BY DEF SentBy
    <2>4. \A m : m \in SentBy(u, n + 1) <=> m \in SentBy(tr, n) \/ m \in AllMoments(e.slots)
      BY <1>1, <2>1, <2>2, <2>3
    <2> QED BY <2>4
  <1> QED BY <1>1, <1>2, <1>3 DEF u, n

\* A request that is sent with what of it the histogram hg had not, after which the
\* histogram has that too, as far back as the request reaches.
LEMMA PopKeeps ==
    ASSUME NEW tr, NEW hg, SentInv(tr, hg), NEW r \in Requests,
           NEW sl \in SlotSeqs, InTime(sl), NEW hg2 \in SlotSeqs, InTime(hg2),
           \A m \in Int : m >= Leftmost(r) =>
               (m \in AllMoments(hg2) <=> m \in AllMoments(hg) \/ m \in AllMoments(sl)),
           \A m \in Int : m \in AllMoments(sl) <=>
               LaterOf(r.start, Leftmost(r)) <= m /\ m < r.end /\ m \notin AllMoments(hg)
    PROVE  SentInv(Append(tr, [req |-> r, slots |-> sl]), hg2)
  <1> DEFINE e == [req |-> r, slots |-> sl]
             u == Append(tr, e)
             n == Len(tr)
             x == Leftmost(r)
  <1>1. /\ e \in [req : Requests, slots : SlotSeqs] /\ e.req = r /\ e.slots = sl
        /\ tr \in Seq([req : Requests, slots : SlotSeqs])
    BY DEF SentInv
  <1> HIDE DEF e
  <1>2. /\ u \in Seq([req : Requests, slots : SlotSeqs])
        /\ Len(u) = n + 1 /\ u[n + 1] = e
        /\ \A i \in 1..n : u[i] = tr[i]
        /\ \A i \in 0..n : SentBy(u, i) = SentBy(tr, i)
        /\ SentBy(u, n + 1) = SentBy(tr, n) \cup AllMoments(sl)
    BY <1>1, SentByAppend
  <1>3. /\ n \in Nat /\ \A i \in 1..n : tr[i] \in [req : Requests, slots : SlotSeqs]
        /\ (tr = << >> <=> n = 0)
    <2>1. n \in Nat /\ (tr = << >> <=> n = 0)
      BY <1>1
    <2>2. \A i \in 1..n : tr[i] \in [req : Requests, slots : SlotSeqs]
      BY <1>1, SentTypes
    <2> QED BY <2>1, <2>2
  <1> HIDE DEF u, n
  <1>4. \A i \in 1..(n + 1) : InTime(u[i].slots)
    <2>1. \A i \in 1..n : InTime(u[i].slots)
      BY <1>2 DEF SentInv, n
    <2>2. InTime(u[n + 1].slots)
      BY <1>1, <1>2
    <2> QED BY <1>3, <2>1, <2>2
  <1>5. SUFFICES ASSUME NowsRise(u)
                 PROVE  Covered(u, hg2) /\ \A i \in 1..(n + 1) : Rest(u, i)
    BY <1>2, <1>4 DEF SentInv, u, e
  <1>6. \A i, j \in 1..n : i \in 1..(n + 1) /\ j \in 1..(n + 1)
    BY <1>3
  <1>7. NowsRise(tr)
    <2>1. \A i, j \in 1..n : i < j => tr[i].req.now <= tr[j].req.now
      BY <1>2, <1>5, <1>6 DEF NowsRise
    <2> QED BY <2>1 DEF NowsRise, n
  <1>8. Covered(tr, hg) /\ \A i \in 1..n : Rest(tr, i)
    BY <1>7 DEF SentInv, n
  <1>9. x \in Int /\ r.start \in Nat /\ r.end \in Nat
    BY RequestIs
  <1>10. ASSUME n # 0 PROVE Leftmost(tr[n].req) \in Int /\ Leftmost(tr[n].req) <= x
    <2>1. n \in 1..n /\ n \in 1..(n + 1) /\ n + 1 \in 1..(n + 1) /\ n < n + 1
      BY <1>3, <1>10
    <2>2. u[n].req.now <= u[n + 1].req.now
      BY <1>2, <1>5, <2>1 DEF NowsRise
    <2>3. tr[n].req.now <= r.now
      BY <1>1, <1>2, <2>1, <2>2
    <2>4. tr[n].req \in Requests
      BY <1>3, <2>1
    <2>5. tr[n].req.now \in Nat /\ r.now \in Nat /\ Expire \in Nat
      BY <2>4, RequestIs, DedupAssumption
    <2> QED BY <2>3, <2>5 DEF Leftmost
  <1> HIDE DEF x
  <1>11. ASSUME NEW m \in Int, m >= x
         PROVE  m \in AllMoments(hg) <=> m \in SentBy(tr, n)
    <2>1. tr # << >> => m >= Leftmost(tr[n].req)
      BY <1>3, <1>9, <1>10, <1>11
    <2> QED BY <1>8, <2>1 DEF Covered, n
  <1>12. Covered(u, hg2)
    <2>1. u # << >> /\ u[Len(u)].req = r
      <3>1. u # << >>
        BY <1>2, <1>3
      <3> QED BY <1>1, <1>2, <3>1
    <2>2. ASSUME NEW m \in Int, m >= x
          PROVE  m \in AllMoments(hg2) <=> m \in SentBy(u, n + 1)
      BY <1>2, <1>11, <2>2 DEF x
    <2> QED BY <1>2, <2>1, <2>2 DEF Covered, x
  <1>13. ASSUME NEW i \in 1..n PROVE Rest(u, i)
    <2>1. i - 1 \in 0..n /\ u[i] = tr[i] /\ Rest(tr, i)
      BY <1>2, <1>3, <1>8
    <2> QED BY <1>2, <2>1 DEF Rest
  <1>14. Rest(u, n + 1)
    <2> DEFINE s == LaterOf(r.start, x)
    <2>1. s \in Int /\ x <= s
      BY <1>9 DEF LaterOf
    <2> HIDE DEF s
    <2>2. u[n + 1].req = r /\ u[n + 1].slots = sl
      BY <1>1, <1>2
    <2>3. (n + 1) - 1 = n /\ n \in 0..n
      BY <1>3
    <2>4. SentBy(u, (n + 1) - 1) = SentBy(tr, n)
      BY <1>2, <2>3
    <2>5. ASSUME NEW m PROVE m \in AllMoments(sl) <=> m \in (s..(r.end - 1)) \ SentBy(tr, n)
      <3>1. m \in AllMoments(sl) => m \in Int
        BY MomentsAre
      <3>2. m \in s..(r.end - 1) <=> m \in Int /\ s <= m /\ m < r.end
        BY <1>9, <2>1
      <3>3. m \in Int /\ s <= m => (m \in AllMoments(hg) <=> m \in SentBy(tr, n))
        BY <1>9, <1>11, <2>1
      <3>4. m \in Int => (m \in AllMoments(sl) <=> s <= m /\ m < r.end /\ m \notin AllMoments(hg))
        BY DEF s, x
      <3> QED BY <3>1, <3>2, <3>3, <3>4
    <2>6. AllMoments(sl) = (s..(r.end - 1)) \ SentBy(tr, n)
      BY <2>5
    <2> QED BY <2>2, <2>4, <2>6 DEF Rest, s, x
  <1>15. \A i \in 1..(n + 1) : i \in 1..n \/ i = n + 1
    BY <1>3
  <1> QED BY <1>12, <1>13, <1>14, <1>15

-----------------------------------------------------------------------------
(* The invariant.                                                          *)

DedupInv ==
    /\ InQueue(requests)
    /\ now \in Nat /\ armed \in BOOLEAN /\ fired \in BOOLEAN
    /\ SentInv(triggered, histogram)
    /\ WaitingIsTimed

\* It holds at first, and each step keeps it.
LEMMA DedupInitHolds ==
    ASSUME DedupInit
    PROVE  DedupInv
  <1>1. InQueue(<< >>)
    BY DEF InQueue
  <1>2. SentInv(<< >>, << >>)
    <2>1. SentBy(<< >>, 0) = {}
      BY DEF SentBy
    <2>2. Covered(<< >>, << >>)
      BY <2>1, FewSlots DEF Covered
    <2> QED BY <2>2, FewSlots DEF SentInv
  <1> QED BY <1>1, <1>2 DEF DedupInit, DedupInv, WaitingIsTimed

LEMMA PopDueKeeps ==
    ASSUME DedupInv, PopDue
    PROVE  DedupInv'
  <1> DEFINE r == requests[1]
             s == LaterOf(r.start, Leftmost(r))
  <1>1. requests # << >> /\ now > 0 /\ now' = now /\ armed' = armed /\ fired' = fired
        /\ requests' = Tail(requests)
    BY DEF PopDue
  <1>2. InQueue(requests') /\ r \in Requests
    BY <1>1, QueueTail DEF DedupInv
  <1>3. SentInv(triggered, histogram) /\ histogram \in SlotSeqs /\ InTime(histogram)
    BY DEF DedupInv, SentInv
  <1>4. r.start \in Nat /\ r.end \in Nat /\ Leftmost(r) \in Int
    BY <1>2, RequestIs
  <1>5. \/ /\ r.end < Leftmost(r) /\ histogram' = histogram
           /\ triggered' = Append(triggered, [req |-> r, slots |-> << >>])
        \/ /\ ~(r.end < Leftmost(r))
           /\ histogram' = Merged(Touched(r, histogram), r.end)
           /\ triggered' = Append(triggered,
                  [req |-> r, slots |-> FreeSlots(Touched(r, histogram), r.end)])
    BY DEF PopDue
  <1> HIDE DEF r
  <1>6. SentInv(triggered', histogram')
    <2>1. CASE r.end < Leftmost(r)
      <3>1. histogram' = histogram
            /\ triggered' = Append(triggered, [req |-> r, slots |-> << >>])
        BY <1>5, <2>1
      <3>2. << >> \in SlotSeqs /\ InTime(<< >>) /\ AllMoments(<< >>) = {}
        BY FewSlots
      <3>3. \A m \in Int : m >= Leftmost(r) =>
                (m \in AllMoments(histogram) <=>
                     m \in AllMoments(histogram) \/ m \in AllMoments(<< >>))
        BY <3>2
      <3>4. s \in Int /\ Leftmost(r) <= s
        BY <1>4 DEF LaterOf
      <3> HIDE DEF s
      <3>5. \A m \in Int : ~(s <= m /\ m < r.end)
        BY <1>4, <2>1, <3>4
      <3>6. \A m \in Int : m \in AllMoments(<< >>) <=>
                LaterOf(r.start, Leftmost(r)) <= m /\ m < r.end /\ m \notin AllMoments(histogram)
        BY <3>2, <3>5 DEF s
      <3>7. SentInv(Append(triggered, [req |-> r, slots |-> << >>]), histogram)
        BY <1>2, <1>3, <3>2, <3>3, <3>6, PopKeeps
      <3> QED BY <3>1, <3>7
    <2>2. CASE ~(r.end < Leftmost(r))
      <3> DEFINE t == Touched(r, histogram)
                 sl == FreeSlots(t, r.end)
                 hg == Merged(t, r.end)
      <3>1. histogram' = hg /\ triggered' = Append(triggered, [req |-> r, slots |-> sl])
        BY <1>5, <2>2
      <3>2. /\ Touches(t, r)
            /\ \A m \in Int : m >= Leftmost(r) =>
                   (m \in AllMoments(t.kept) <=> m \in AllMoments(histogram))
        BY <1>2, <1>3, <2>2, TouchedIs
      <3> HIDE DEF t
      <3>3. /\ hg \in SlotSeqs /\ InTime(hg)
            /\ \A m \in Int : m \in AllMoments(hg) <=>
                   m \in AllMoments(t.kept) \/ (t.start <= m /\ m < r.end)
        BY <1>2, <3>2, MergedIs
      <3>4. /\ sl \in SlotSeqs /\ InTime(sl)
            /\ \A m \in Int : m \in AllMoments(sl) <=>
                   t.start <= m /\ m < r.end /\ m \notin AllMoments(t.kept)
        BY <1>2, <3>2, FreeIs
      <3>5. t.start = s /\ t.start \in Nat /\ Leftmost(r) <= t.start
        BY <3>2 DEF Touches
      <3> HIDE DEF hg, sl, s
      <3>6. ASSUME NEW m \in Int, m >= Leftmost(r)
            PROVE  m \in AllMoments(hg) <=> m \in AllMoments(histogram) \/ m \in AllMoments(sl)
        <4>1. m \in AllMoments(t.kept) <=> m \in AllMoments(histogram)
          BY <3>2, <3>6
        <4> QED BY <3>3, <3>4, <4>1
      <3>7. ASSUME NEW m \in Int
            PROVE  m \in AllMoments(sl) <=>
                       LaterOf(r.start, Leftmost(r)) <= m /\ m < r.end
                       /\ m \notin AllMoments(histogram)
        <4>1. s <= m => (m \in AllMoments(t.kept) <=> m \in AllMoments(histogram))
          <5>1. s <= m => m >= Leftmost(r)
            BY <1>4, <3>5
          <5> QED BY <3>2, <5>1
        <4> QED BY <3>4, <3>5, <4>1 DEF s
      <3>8. /\ \A m \in Int : m >= Leftmost(r) =>
                   (m \in AllMoments(hg) <=> m \in AllMoments(histogram) \/ m \in AllMoments(sl))
            /\ \A m \in Int : m \in AllMoments(sl) <=>
                   LaterOf(r.start, Leftmost(r)) <= m /\ m < r.end
                   /\ m \notin AllMoments(histogram)
        BY <3>6, <3>7
      <3>9. SentInv(Append(triggered, [req |-> r, slots |-> sl]), hg)
        BY <1>2, <1>3, <3>3, <3>4, <3>8, PopKeeps
      <3> QED BY <3>1, <3>9
    <2> QED BY <2>1, <2>2
  <1>7. WaitingIsTimed'
    BY <1>1 DEF WaitingIsTimed, DedupInv
  <1> QED BY <1>1, <1>2, <1>6, <1>7 DEF DedupInv

LEMMA ReceiveRowKeeps ==
    ASSUME DedupInv, NEW r \in Requests, ReceiveRow(r)
    PROVE  DedupInv'
  <1>1. InQueue(requests')
    BY PushIs DEF DedupInv, ReceiveRow
  <1>2. now' \in Nat /\ now' # 0
    BY RequestIs DEF ReceiveRow
  <1> QED BY <1>1, <1>2 DEF DedupInv, ReceiveRow, WaitingIsTimed

LEMMA OnTimeoutKeeps ==
    ASSUME DedupInv, OnTimeout
    PROVE  DedupInv'
  <1>1. requests # << >> => requests[1].end \in Nat /\ requests[1].end # 0
    <2> SUFFICES ASSUME requests # << >>
                 PROVE  requests[1].end \in Nat /\ requests[1].end # 0
      OBVIOUS
    <2>1. requests[1] \in Requests
      BY QueueTail DEF DedupInv
    <2> QED BY <2>1, RequestIs
  <1>2. now' \in Nat /\ (now' = 0 => requests' = << >>)
    BY <1>1 DEF OnTimeout
  <1> QED BY <1>2 DEF DedupInv, OnTimeout, WaitingIsTimed

LEMMA DedupNextKeeps ==
    ASSUME DedupInv, [DedupNext]_dedupVars
    PROVE  DedupInv'
  <1>1. CASE \E r \in Requests : ReceiveRow(r)
    BY <1>1, ReceiveRowKeeps
  <1>2. CASE PopDue
    BY <1>2, PopDueKeeps
  <1>3. CASE EndTrigger
    BY <1>3 DEF DedupInv, EndTrigger, WaitingIsTimed
  <1>4. CASE TimerRuns
    BY <1>4 DEF DedupInv, TimerRuns, WaitingIsTimed
  <1>5. CASE OnTimeout
    BY <1>5, OnTimeoutKeeps
  <1>6. CASE UNCHANGED dedupVars
    BY <1>6 DEF DedupInv, dedupVars, WaitingIsTimed
  <1> QED BY <1>1, <1>2, <1>3, <1>4, <1>5, <1>6 DEF DedupNext

\* Two slots in order of time have no moment in common.
LEMMA DisjointSlots ==
    ASSUME NEW s \in SlotSeqs, InTime(s), NEW k \in 1..Len(s), NEW l \in 1..Len(s), k # l
    PROVE  Moments(s[k]) \cap Moments(s[l]) = {}
  <1>1. /\ s[k][1] \in Nat /\ s[k][2] \in Nat /\ s[l][1] \in Nat /\ s[l][2] \in Nat
        /\ k \in Nat /\ l \in Nat
    BY SlotTypes
  <1>2. s[k][2] <= s[l][1] \/ s[l][2] <= s[k][1]
    BY <1>1 DEF InTime
  <1> QED BY <1>1, <1>2 DEF Moments

\* What the invariant says of the properties.
LEMMA DedupInvGives ==
    ASSUME DedupInv
    PROVE  DedupSound
  <1> DEFINE n == Len(triggered)
  <1>1. /\ triggered \in Seq([req : Requests, slots : SlotSeqs]) /\ n \in Nat
        /\ DOMAIN triggered = 1..n
        /\ \A i \in 1..n : triggered[i].slots \in SlotSeqs /\ triggered[i].req \in Requests
        /\ \A i \in 1..n : InTime(triggered[i].slots)
        /\ histogram \in SlotSeqs /\ InTime(histogram)
    <2>1. triggered \in Seq([req : Requests, slots : SlotSeqs])
      BY DEF DedupInv, SentInv
    <2>2. n \in Nat /\ DOMAIN triggered = 1..n
          /\ \A i \in 1..n : triggered[i] \in [req : Requests, slots : SlotSeqs]
      BY <2>1, SentTypes
    <2> QED BY <2>1, <2>2 DEF DedupInv, SentInv
  <1>2. DedupTypeOK
    <2> DEFINE q == Len(requests)
    <2>1. requests \in Seq(Requests) /\ q \in Nat
          /\ \A i, j \in 1..q : i < j => requests[i].end <= requests[j].end
      BY DEF DedupInv, InQueue
    <2> HIDE DEF q
    <2>2. \A i \in 1..(q - 1) : i \in 1..q /\ i + 1 \in 1..q /\ i < i + 1
      BY <2>1
    <2>3. \A i \in 1..(q - 1) : requests[i].end <= requests[i + 1].end
      BY <2>1, <2>2
    <2> QED BY <1>1, <2>1, <2>3 DEF DedupInv, DedupTypeOK, q
  <1>3. HistogramInOrder
    <2> DEFINE h == Len(histogram)
    <2>1. h \in Nat /\ DOMAIN histogram = 1..h
      BY <1>1, SlotTypes
    <2>2. /\ \A i \in 1..h : histogram[i][1] <= histogram[i][2]
          /\ \A i, j \in 1..h : i < j => histogram[i][2] <= histogram[j][1]
      BY <1>1 DEF InTime
    <2> HIDE DEF h
    <2>3. \A i \in 1..(h - 1) : i \in 1..h /\ i + 1 \in 1..h /\ i < i + 1
      BY <2>1
    <2>4. \A i \in 1..(h - 1) : histogram[i][2] <= histogram[i + 1][1]
      BY <2>2, <2>3
    <2> QED BY <2>1, <2>2, <2>4 DEF HistogramInOrder, h
  <1> HIDE DEF n
  <1>4. ASSUME InOrderOfNow PROVE \A i \in 1..n : Rest(triggered, i)
    BY <1>1, <1>4 DEF InOrderOfNow, NowsRise, DedupInv, SentInv, n
  <1>5. SlotsAreTheRest
    BY <1>1, <1>4 DEF SlotsAreTheRest, Rest, SentBy
  <1>6. ASSUME InOrderOfNow, NEW i \in 1..n, NEW j \in 1..n, i < j
        PROVE  AllMoments(triggered[i].slots) \cap AllMoments(triggered[j].slots) = {}
    <2>1. i \in 1..(j - 1)
      BY <1>1, <1>6
    <2>2. AllMoments(triggered[i].slots) \subseteq SentBy(triggered, j - 1)
      BY <2>1 DEF SentBy
    <2>3. Rest(triggered, j)
      BY <1>4, <1>6
    <2> QED BY <2>2, <2>3 DEF Rest
  <1>7. ASSUME InOrderOfNow, NEW i \in 1..n, NEW j \in 1..n,
               NEW k \in DOMAIN triggered[i].slots, NEW l \in DOMAIN triggered[j].slots,
               i # j \/ k # l
        PROVE  Moments(triggered[i].slots[k]) \cap Moments(triggered[j].slots[l]) = {}
    <2>1. CASE i = j
      <3>1. k \in 1..Len(triggered[i].slots) /\ l \in 1..Len(triggered[i].slots) /\ k # l
        BY <1>1, <1>7, <2>1, SlotTypes
      <3> QED BY <1>1, <2>1, <3>1, DisjointSlots
    <2>2. CASE i # j
      <3>1. /\ Moments(triggered[i].slots[k]) \subseteq AllMoments(triggered[i].slots)
            /\ Moments(triggered[j].slots[l]) \subseteq AllMoments(triggered[j].slots)
        BY DEF AllMoments
      <3>2. i < j \/ j < i
        BY <1>1, <2>2
      <3>3. AllMoments(triggered[i].slots) \cap AllMoments(triggered[j].slots) = {}
        BY <1>6, <1>7, <3>2
      <3> QED BY <3>1, <3>3
    <2> QED BY <2>1, <2>2
  <1>8. SlotsOnce
    BY <1>1, <1>7 DEF SlotsOnce
  <1> QED BY <1>2, <1>3, <1>5, <1>8 DEF DedupSound, DedupInv

\* The invariant of the node that triggers each stretch of time once: the queue is in
\* order of the ends, the histogram in order of time, and while the requests sent rise
\* in their now, the histogram has, as far back as a later one may reach, the moments
\* sent (dedup_trigger_op.go:90-282).
THEOREM DedupInvariant == DedupSpec => []DedupInv
  <1>1. DedupInit => DedupInv
    BY DedupInitHolds
  <1>2. DedupInv /\ [DedupNext]_dedupVars => DedupInv'
    BY DedupNextKeeps
  <1> QED BY <1>1, <1>2, PTL DEF DedupSpec

\* Each moment that requests ask for is sent once, with the first request that may send
\* it, and no request waits without a timer, for any times, requests and time to expire
\* (dedup_trigger_op.go:90-282).
THEOREM DedupIsSound == DedupSpec => []DedupSound
  <1>1. DedupInv => DedupSound
    BY DedupInvGives
  <1> QED BY <1>1, DedupInvariant, PTL
=============================================================================
