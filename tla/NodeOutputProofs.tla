-------------------------- MODULE NodeOutputProofs --------------------------
(***************************************************************************)
(* Proofs about the way of results out of a rule: what a node sends        *)
(* arrives in order, once, and without gaps other than the oldest messages *)
(* of full channels, for any number of outputs, any capacity of the        *)
(* channels and any number of messages (NodeOutput); and what reaches the  *)
(* end of the rule gets to the outside in batches of their size, in order  *)
(* and once, for any size of the batches and any failures (SinkPath); and  *)
(* what several workers make of the inputs of a node goes out once and in  *)
(* the order of the inputs (ConcurrentWorkers).                            *)
(***************************************************************************)
EXTENDS NodeOutput, SinkPath, ConcurrentWorkers, SequenceLemmas

(* Sequences of numbers.                                                   *)

Increasing(s) == \A i, j \in DOMAIN s : i < j => s[i] < s[j]
AllBelow(s, n) == \A i \in DOMAIN s : s[i] < n

\* A larger element at the end keeps the order.
LEMMA AppendIncreasing ==
    ASSUME NEW s \in Seq(Nat), NEW x \in Nat, Increasing(s), AllBelow(s, x)
    PROVE  /\ Append(s, x) \in Seq(Nat) /\ Increasing(Append(s, x))
           /\ Elems(Append(s, x)) = Elems(s) \cup {x}
           /\ Len(Append(s, x)) = Len(s) + 1
           /\ \A n \in Nat : AllBelow(s, n) /\ x < n => AllBelow(Append(s, x), n)
  <1> DEFINE t == Append(s, x)
  <1>1. /\ t \in Seq(Nat) /\ Len(t) = Len(s) + 1
        /\ DOMAIN t = DOMAIN s \cup {Len(s) + 1} /\ Len(s) + 1 \notin DOMAIN s
        /\ \A i \in DOMAIN s : t[i] = s[i] /\ t[Len(s) + 1] = x
        /\ t[Len(s) + 1] = x
    OBVIOUS
  <1>2. DOMAIN s = 1..Len(s) /\ Len(s) \in Nat /\ \A i \in DOMAIN s : s[i] \in Nat
    OBVIOUS
  <1> HIDE DEF t
  <1>3. Increasing(t)
    BY <1>1, <1>2 DEF Increasing, AllBelow
  <1>4. Elems(t) = Elems(s) \cup {x}
    <2>1. Elems(t) \subseteq Elems(s) \cup {x}
      BY <1>1 DEF Elems
    <2>2. x \in Elems(t)
      BY <1>1 DEF Elems
    <2>3. Elems(s) \subseteq Elems(t)
      <3> SUFFICES ASSUME NEW i \in DOMAIN s PROVE s[i] \in Elems(t)
        BY DEF Elems
      <3>1. i \in DOMAIN t /\ t[i] = s[i]
        BY <1>1
      <3> QED BY <3>1 DEF Elems
    <2> QED BY <2>1, <2>2, <2>3
  <1>5. ASSUME NEW n \in Nat, AllBelow(s, n), x < n
        PROVE  AllBelow(t, n)
    <2> SUFFICES ASSUME NEW i \in DOMAIN t PROVE t[i] < n
      BY DEF AllBelow
    <2>1. CASE i \in DOMAIN s
      BY <1>1, <1>5, <2>1 DEF AllBelow
    <2>2. CASE i = Len(s) + 1
      BY <1>1, <1>5, <2>2
    <2> QED BY <1>1, <2>1, <2>2
  <1> QED BY <1>1, <1>3, <1>4, <1>5 DEF t

\* The oldest message is the smallest; without it the rest keeps its order.
LEMMA TailIncreasing ==
    ASSUME NEW s \in Seq(Nat), s # << >>, Increasing(s)
    PROVE  /\ Tail(s) \in Seq(Nat) /\ Head(s) \in Nat /\ Increasing(Tail(s))
           /\ Elems(s) = {Head(s)} \cup Elems(Tail(s))
           /\ Len(Tail(s)) = Len(s) - 1
           /\ \A i \in DOMAIN Tail(s) : Head(s) < Tail(s)[i]
           /\ \A n \in Nat : AllBelow(s, n) => AllBelow(Tail(s), n) /\ Head(s) < n
  <1> DEFINE t == Tail(s)
             m == Len(s)
  <1>1. /\ t \in Seq(Nat) /\ Len(t) = m - 1 /\ m \in Nat /\ m > 0
        /\ DOMAIN t = 1..(m - 1) /\ DOMAIN s = 1..m
        /\ \A i \in 1..(m - 1) : t[i] = s[i + 1]
        /\ Head(s) = s[1] /\ s[1] \in Nat
        /\ \A i \in 1..m : s[i] \in Nat
    OBVIOUS
  <1> HIDE DEF t, m
  <1>a. ASSUME NEW i \in DOMAIN t
        PROVE  i \in Int /\ i + 1 \in DOMAIN s /\ t[i] = s[i + 1] /\ 1 < i + 1
    <2>1. i \in 1..(m - 1)
      BY <1>1
    <2>2. i \in Int /\ i + 1 \in 1..m /\ 1 < i + 1
      BY <1>1, <2>1
    <2> QED BY <1>1, <2>1, <2>2
  <1>b. ASSUME NEW i \in DOMAIN s, i # 1
        PROVE  i - 1 \in DOMAIN t /\ s[i] = t[i - 1]
    <2>1. i \in 1..m
      BY <1>1
    <2>2. i - 1 \in 1..(m - 1) /\ (i - 1) + 1 = i
      BY <1>1, <1>b, <2>1
    <2> QED BY <1>1, <2>2
  <1>i. 1 \in DOMAIN s
    BY <1>1
  <1>2. Increasing(t)
    <2> SUFFICES ASSUME NEW i \in DOMAIN t, NEW j \in DOMAIN t, i < j PROVE t[i] < t[j]
      BY DEF Increasing
    <2>1. i + 1 < j + 1
      BY <1>a
    <2> QED BY <1>a, <2>1 DEF Increasing
  <1>3. Elems(s) = {s[1]} \cup Elems(t)
    <2>1. ASSUME NEW x \in Elems(s) PROVE x \in {s[1]} \cup Elems(t)
      <3>1. PICK i \in DOMAIN s : x = s[i]
        BY DEF Elems
      <3> QED BY <3>1, <1>b DEF Elems
    <2>2. ASSUME NEW x \in Elems(t) PROVE x \in Elems(s)
      <3>1. PICK i \in DOMAIN t : x = t[i]
        BY DEF Elems
      <3> QED BY <3>1, <1>a DEF Elems
    <2>3. s[1] \in Elems(s)
      BY <1>i DEF Elems
    <2> QED BY <2>1, <2>2, <2>3
  <1>4. \A i \in DOMAIN t : s[1] < t[i]
    BY <1>a, <1>i DEF Increasing
  <1>5. \A n \in Nat : AllBelow(s, n) => AllBelow(t, n) /\ s[1] < n
    BY <1>a, <1>i DEF AllBelow
  <1> QED BY <1>1, <1>2, <1>3, <1>4, <1>5 DEF t, m

\* One ordered sequence behind another.
LEMMA ConcatIncreasing ==
    ASSUME NEW s \in Seq(Nat), NEW t \in Seq(Nat), Increasing(s), Increasing(t),
           \A j \in DOMAIN t : AllBelow(s, t[j])
    PROVE  Increasing(s \o t)
  <1> DEFINE u == s \o t
  <1>1. /\ DOMAIN s = 1..Len(s) /\ DOMAIN t = 1..Len(t)
        /\ Len(s) \in Nat /\ Len(t) \in Nat
        /\ DOMAIN u = 1..(Len(s) + Len(t))
        /\ \A i \in 1..(Len(s) + Len(t)) : u[i] = IF i <= Len(s) THEN s[i] ELSE t[i - Len(s)]
    OBVIOUS
  <1> HIDE DEF u
  <1>2. ASSUME NEW i \in DOMAIN u, NEW j \in DOMAIN u, i < j
        PROVE  u[i] < u[j]
    <2>1. CASE j <= Len(s)
      BY <1>1, <1>2, <2>1 DEF Increasing
    <2>2. CASE i > Len(s)
      <3>1. u[i] = t[i - Len(s)] /\ u[j] = t[j - Len(s)]
        BY <1>1, <1>2, <2>2
      <3>2. i - Len(s) \in DOMAIN t /\ j - Len(s) \in DOMAIN t /\ i - Len(s) < j - Len(s)
        BY <1>1, <1>2, <2>2
      <3> QED BY <3>1, <3>2 DEF Increasing
    <2>3. CASE i <= Len(s) /\ j > Len(s)
      <3>1. u[i] = s[i] /\ u[j] = t[j - Len(s)]
        BY <1>1, <1>2, <2>3
      <3>2. i \in DOMAIN s /\ j - Len(s) \in DOMAIN t
        BY <1>1, <1>2, <2>3
      <3> QED BY <3>1, <3>2 DEF AllBelow
    <2> QED BY <1>1, <2>1, <2>2, <2>3
  <1> QED BY <1>2 DEF Increasing, u
-----------------------------------------------------------------------------
(* The invariant                                                           *)

ShapeInv ==
    /\ blocking \in BOOLEAN /\ done \in BOOLEAN /\ full \in BOOLEAN
    /\ outputs \subseteq Outputs /\ reads \subseteq Outputs
    /\ todo \subseteq outputs /\ at \in outputs \cup {NoOutput} /\ at \notin todo
    /\ full => at # NoOutput
    /\ sent \in 0..MaxSent
    /\ chan \in [Outputs -> Seq(Nat)] /\ got \in [Outputs -> Seq(Nat)]
    /\ dropped \in [Outputs -> SUBSET Nat] /\ since \in [Outputs -> Nat]

\* What one output has of the messages: a new one is larger than all of them.
OutputOrder(o) ==
    /\ Len(chan[o]) <= OutLength /\ since[o] <= sent
    /\ Elems(chan[o]) \cup Elems(got[o]) \cup dropped[o] \subseteq 1..sent
    /\ Increasing(chan[o]) /\ Increasing(got[o])
    /\ \A j \in DOMAIN chan[o] : AllBelow(got[o], chan[o][j])
    /\ o \in todo \cup {at} =>
          AllBelow(chan[o], sent) /\ AllBelow(got[o], sent) /\ since[o] < sent

Misses(o) ==
    o \in outputs /\ ~done =>
        (since[o] + 1)..sent =
            Elems(got[o]) \cup Elems(chan[o]) \cup dropped[o]
            \cup (IF o \in todo \cup {at} THEN {sent} ELSE {})

OutputInv == ShapeInv /\ \A o \in Outputs : OutputOrder(o) /\ Misses(o)

\* An output that a step does not concern.
LEMMA OutputKept ==
    ASSUME NEW o \in Outputs, OutputOrder(o), Misses(o), sent' = sent,
           chan'[o] = chan[o], got'[o] = got[o], dropped'[o] = dropped[o],
           since'[o] = since[o],
           o \in todo' \cup {at'} <=> o \in todo \cup {at},
           o \in outputs' => o \in outputs, done => done'
    PROVE  OutputOrder(o)' /\ Misses(o)'
  <1>1. OutputOrder(o)'
    BY DEF OutputOrder
  <1>2. Misses(o)'
    BY DEF Misses
  <1> QED BY <1>1, <1>2

LEMMA OutputInit == OutInit => OutputInv
  <1> SUFFICES ASSUME OutInit PROVE OutputInv
    OBVIOUS
  <1>1. ShapeInv
    <2>1. chan \in [Outputs -> Seq(Nat)] /\ got \in [Outputs -> Seq(Nat)]
      <3>1. << >> \in Seq(Nat)
        OBVIOUS
      <3> QED BY <3>1 DEF OutInit
    <2>2. dropped \in [Outputs -> SUBSET Nat] /\ since \in [Outputs -> Nat]
      BY DEF OutInit
    <2>3. sent \in 0..MaxSent
      BY OutputAssumption DEF OutInit
    <2> QED BY <2>1, <2>2, <2>3 DEF OutInit, ShapeInv
  <1>2. ASSUME NEW o \in Outputs PROVE OutputOrder(o) /\ Misses(o)
    <2>1. /\ chan[o] = << >> /\ got[o] = << >> /\ dropped[o] = {} /\ since[o] = 0
          /\ sent = 0 /\ todo = {} /\ at # o
      BY OutputAssumption DEF OutInit
    <2>2. Elems(<< >>) = {}
      BY DEF Elems
    <2>3. OutputOrder(o)
      BY OutputAssumption, <2>1, <2>2 DEF OutputOrder, Increasing, AllBelow
    <2>4. Misses(o)
      BY <2>1, <2>2 DEF Misses
    <2> QED BY <2>3, <2>4
  <1> QED BY <1>1, <1>2 DEF OutputInv

\* A new message is owed to every output there is, and larger than all before.
LEMMA BroadcastInv ==
    ASSUME OutputInv, Broadcast
    PROVE  OutputInv'
  <1>s. /\ sent \in Nat /\ sent' = sent + 1 /\ todo = {} /\ at = NoOutput
        /\ todo' = outputs /\ sent < MaxSent /\ ~done
        /\ UNCHANGED <<outputs, chan, got, dropped, since, at, full, done, reads, blocking>>
    BY DEF Broadcast, Broadcasting, OutputInv, ShapeInv
  <1>1. ShapeInv'
    BY <1>s, OutputAssumption DEF OutputInv, ShapeInv
  <1>2. ASSUME NEW o \in Outputs PROVE OutputOrder(o)' /\ Misses(o)'
    <2>1. OutputOrder(o) /\ Misses(o) /\ since[o] \in Nat
      BY DEF OutputInv, ShapeInv
    <2>2. 1..sent \subseteq 1..sent'
      BY <1>s
    <2>3. AllBelow(chan[o], sent') /\ AllBelow(got[o], sent')
      <3>1. ASSUME NEW x \in 1..sent PROVE x < sent'
        BY <1>s
      <3> QED BY <2>1, <3>1 DEF OutputOrder, AllBelow, Elems
    <2>4. OutputOrder(o)'
      BY <1>s, <2>1, <2>2, <2>3 DEF OutputOrder
    <2>5. Misses(o)'
      <3>1. (since[o] + 1)..(sent + 1) = (since[o] + 1)..sent \cup {sent + 1}
        BY <1>s, <2>1 DEF OutputOrder
      <3>2. o \notin todo \cup {at}
        BY <1>s, OutputAssumption
      <3> QED BY <1>s, <2>1, <3>1, <3>2 DEF Misses
    <2> QED BY <2>4, <2>5
  <1> QED BY <1>1, <1>2 DEF OutputInv

\* The message goes behind the smaller ones that the output has.
LEMMA SendInv ==
    ASSUME OutputInv, Send
    PROVE  OutputInv'
  <1>s. /\ at \in outputs /\ at \in Outputs /\ at \notin todo /\ at # NoOutput
        /\ at' = NoOutput /\ Len(chan[at]) < OutLength
        /\ chan' = [chan EXCEPT ![at] = Append(@, sent)]
        /\ UNCHANGED <<blocking, outputs, reads, todo, full, sent, done, got, dropped, since>>
        /\ sent \in Nat /\ chan[at] \in Seq(Nat) /\ ~full
    BY DEF Send, OutputInv, ShapeInv
  <1>o. OutputOrder(at) /\ Misses(at)
    BY <1>s DEF OutputInv
  <1>a. /\ chan'[at] = Append(chan[at], sent)
        /\ \A o \in Outputs \ {at} : chan'[o] = chan[o]
    BY <1>s DEF OutputInv, ShapeInv
  <1>b. /\ chan'[at] \in Seq(Nat) /\ Increasing(chan'[at])
        /\ Elems(chan'[at]) = Elems(chan[at]) \cup {sent}
        /\ Len(chan'[at]) = Len(chan[at]) + 1
    BY <1>s, <1>o, <1>a, AppendIncreasing DEF OutputOrder
  <1>1. ShapeInv'
    <2>1. chan' \in [Outputs -> Seq(Nat)]
      <3>1. chan \in [Outputs -> Seq(Nat)]
        BY DEF OutputInv, ShapeInv
      <3>2. Append(chan[at], sent) \in Seq(Nat)
        BY <1>a, <1>b
      <3> QED BY <1>s, <3>1, <3>2
    <2> QED BY <1>s, <2>1, OutputAssumption DEF OutputInv, ShapeInv
  <1>2. ASSUME NEW o \in Outputs PROVE OutputOrder(o)' /\ Misses(o)'
    <2>1. CASE o # at
      <3>1. o # at' /\ OutputOrder(o) /\ Misses(o)
        BY <1>s, OutputAssumption DEF OutputInv
      <3> QED BY <1>s, <1>a, <2>1, <3>1, OutputKept
    <2>2. CASE o = at
      <3>0. o \notin todo' \cup {at'} /\ o \in todo \cup {at}
        BY <1>s, <2>2
      <3>1. \A j \in DOMAIN chan'[o] : AllBelow(got[o], chan'[o][j])
        <4>1. \A j \in DOMAIN chan'[o] : chan'[o][j] \in Elems(chan[o]) \cup {sent}
          BY <1>b, <2>2 DEF Elems
        <4>2. \A x \in Elems(chan[o]) : AllBelow(got[o], x)
          BY <1>o, <2>2 DEF OutputOrder, Elems
        <4>3. AllBelow(got[o], sent)
          BY <1>o, <2>2 DEF OutputOrder
        <4> QED BY <4>1, <4>2, <4>3
      <3>2. sent \in 1..sent
        <4>1. since[at] \in Nat /\ since[at] < sent
          BY <1>s, <1>o DEF OutputOrder, OutputInv, ShapeInv
        <4> QED BY <1>s, <4>1
      <3>3. Len(chan'[o]) <= OutLength
        BY <1>s, <1>b, <2>2, OutputAssumption
      <3>4. OutputOrder(o)'
        BY <1>s, <1>b, <1>o, <2>2, <3>0, <3>1, <3>2, <3>3 DEF OutputOrder
      <3>5. Misses(o)'
        BY <1>s, <1>b, <1>o, <2>2, <3>0 DEF Misses
      <3> QED BY <3>4, <3>5
    <2> QED BY <2>1, <2>2
  <1> QED BY <1>1, <1>2 DEF OutputInv

\* The oldest message leaves the channel of o, and is known to have been dropped
\* or received: the messages of o are the same as before.
LEMMA OldestLeaves ==
    ASSUME OutputInv, NEW o \in Outputs, chan[o] # << >>, ShapeInv',
           chan' = [chan EXCEPT ![o] = Tail(@)],
           \/ /\ got' = [got EXCEPT ![o] = Append(@, Head(chan[o]))]
              /\ dropped' = dropped
           \/ /\ got' = got
              /\ dropped' = [dropped EXCEPT ![o] = @ \cup {Head(chan[o])}],
           UNCHANGED <<outputs, todo, at, sent, done, since>>
    PROVE  OutputInv'
  <1> DEFINE s == chan[o]
             x == Head(s)
  <1>s. /\ s \in Seq(Nat) /\ s # << >> /\ got[o] \in Seq(Nat) /\ OutputOrder(o) /\ Misses(o)
        /\ sent \in Nat /\ dropped[o] \subseteq Nat
    BY DEF OutputInv, ShapeInv
  <1>a. /\ chan'[o] = Tail(s)
        /\ \A d \in Outputs \ {o} : /\ chan'[d] = chan[d] /\ got'[d] = got[d]
                                    /\ dropped'[d] = dropped[d]
        /\ \/ got'[o] = Append(got[o], x) /\ dropped'[o] = dropped[o]
           \/ got'[o] = got[o] /\ dropped'[o] = dropped[o] \cup {x}
    BY DEF OutputInv, ShapeInv
  <1>i. Increasing(s) /\ Increasing(got[o])
    BY <1>s DEF OutputOrder
  <1>b. /\ Tail(s) \in Seq(Nat) /\ x \in Nat /\ Increasing(Tail(s))
        /\ Elems(s) = {x} \cup Elems(Tail(s))
        /\ Len(Tail(s)) = Len(s) - 1
        /\ \A i \in DOMAIN Tail(s) : x < Tail(s)[i]
        /\ \A n \in Nat : AllBelow(s, n) => AllBelow(Tail(s), n) /\ x < n
    BY <1>s, <1>i, TailIncreasing
  <1>h. AllBelow(got[o], x)
    <2>1. \E j \in DOMAIN s : s[j] = x
      BY <1>b DEF Elems
    <2> QED BY <1>s, <2>1 DEF OutputOrder
  <1>t. \A j \in DOMAIN Tail(s) : AllBelow(got[o], Tail(s)[j])
    <2>1. \A j \in DOMAIN Tail(s) : Tail(s)[j] \in Elems(s)
      BY <1>b DEF Elems
    <2>2. \A y \in Elems(s) : AllBelow(got[o], y)
      BY <1>s DEF OutputOrder, Elems
    <2> QED BY <2>1, <2>2
  <1>l. /\ Len(s) \in Nat /\ Len(s) - 1 <= Len(s)
        /\ \A j \in DOMAIN Tail(s) : Tail(s)[j] \in Nat
    <2> DEFINE t == Tail(s)
    <2>1. t \in Seq(Nat)
      BY <1>b
    <2> HIDE DEF t
    <2>2. \A j \in DOMAIN t : t[j] \in Nat
      BY <2>1
    <2>3. Len(s) \in Nat
      BY <1>s
    <2> QED BY <2>2, <2>3 DEF t
  <1> HIDE DEF s, x
  <1>c. /\ Append(got[o], x) \in Seq(Nat) /\ Increasing(Append(got[o], x))
        /\ Elems(Append(got[o], x)) = Elems(got[o]) \cup {x}
        /\ \A n \in Nat : AllBelow(got[o], n) /\ x < n => AllBelow(Append(got[o], x), n)
    BY <1>s, <1>b, <1>h, <1>i, AppendIncreasing
  <1>d. /\ got'[o] \in {got[o], Append(got[o], x)} /\ Increasing(got'[o])
        /\ Elems(got'[o]) \cup dropped'[o] = Elems(got[o]) \cup dropped[o] \cup {x}
    BY <1>a, <1>c, <1>i
  <1>e. /\ Len(chan'[o]) <= OutLength /\ Increasing(chan'[o])
        /\ Elems(chan'[o]) \cup Elems(got'[o]) \cup dropped'[o]
              = Elems(s) \cup Elems(got[o]) \cup dropped[o]
    <2>1. Len(s) <= OutLength
      BY <1>s DEF OutputOrder, s
    <2>2. Len(chan'[o]) = Len(s) - 1
      BY <1>a, <1>b
    <2>3. Len(chan'[o]) <= OutLength
      BY <1>l, <2>1, <2>2, OutputAssumption
    <2>4. Increasing(chan'[o]) /\ Elems(s) = {x} \cup Elems(chan'[o])
      BY <1>a, <1>b
    <2> QED BY <1>d, <2>3, <2>4
  <1>f. \A j \in DOMAIN chan'[o] : AllBelow(got'[o], chan'[o][j])
    BY <1>a, <1>b, <1>c, <1>d, <1>t, <1>l
  <1>g. o \in todo \cup {at} => AllBelow(chan'[o], sent) /\ AllBelow(got'[o], sent)
    <2> SUFFICES ASSUME o \in todo \cup {at}
                 PROVE  AllBelow(chan'[o], sent) /\ AllBelow(got'[o], sent)
      OBVIOUS
    <2>1. AllBelow(s, sent) /\ AllBelow(got[o], sent)
      BY <1>s DEF OutputOrder, s
    <2> QED BY <1>a, <1>b, <1>c, <1>d, <1>s, <2>1
  <1>1. OutputOrder(o)'
    BY <1>e, <1>f, <1>g, <1>d, <1>s DEF OutputOrder, s
  <1>2. Misses(o)'
    BY <1>e, <1>s DEF Misses, s
  <1>3. ASSUME NEW d \in Outputs, d # o PROVE OutputOrder(d)' /\ Misses(d)'
    <2>1. OutputOrder(d) /\ Misses(d)
      BY DEF OutputInv
    <2> QED BY <1>a, <1>3, <2>1, OutputKept
  <1> QED BY <1>1, <1>2, <1>3 DEF OutputInv

LEMMA TakeOldestInv ==
    ASSUME OutputInv, TakeOldest
    PROVE  OutputInv'
  <1>s. /\ at \in Outputs /\ chan[at] # << >> /\ chan[at] \in Seq(Nat)
        /\ chan' = [chan EXCEPT ![at] = Tail(@)]
        /\ dropped' = [dropped EXCEPT ![at] = @ \cup {Head(chan[at])}]
        /\ ~full'
        /\ UNCHANGED <<blocking, outputs, reads, todo, at, sent, done, got, since>>
    BY DEF TakeOldest, OutputInv, ShapeInv
  <1>1. ShapeInv'
    <2>1. Tail(chan[at]) \in Seq(Nat) /\ Head(chan[at]) \in Nat
      BY <1>s
    <2>2. chan' \in [Outputs -> Seq(Nat)] /\ dropped' \in [Outputs -> SUBSET Nat]
      BY <1>s, <2>1 DEF OutputInv, ShapeInv
    <2>3. full' \in BOOLEAN
      BY DEF TakeOldest
    <2> QED BY <1>s, <2>2, <2>3 DEF OutputInv, ShapeInv
  <1> QED BY <1>s, <1>1, OldestLeaves

LEMMA ReceiveInv ==
    ASSUME OutputInv, NEW o \in Outputs, Receive(o)
    PROVE  OutputInv'
  <1>s. /\ chan[o] # << >> /\ chan[o] \in Seq(Nat) /\ got[o] \in Seq(Nat)
        /\ chan' = [chan EXCEPT ![o] = Tail(@)]
        /\ got' = [got EXCEPT ![o] = Append(@, Head(chan[o]))]
        /\ UNCHANGED <<blocking, outputs, reads, todo, at, full, sent, done, dropped, since>>
    BY DEF Receive, OutputInv, ShapeInv
  <1>1. ShapeInv'
    <2>1. Tail(chan[o]) \in Seq(Nat) /\ Head(chan[o]) \in Nat
      BY <1>s
    <2>2. Append(got[o], Head(chan[o])) \in Seq(Nat)
      BY <1>s, <2>1
    <2>3. chan' \in [Outputs -> Seq(Nat)] /\ got' \in [Outputs -> Seq(Nat)]
      BY <1>s, <2>1, <2>2 DEF OutputInv, ShapeInv
    <2> QED BY <1>s, <2>3 DEF OutputInv, ShapeInv
  <1> QED BY <1>s, <1>1, OldestLeaves

\* A new output starts with nothing, and owes nothing.
LEMMA AddOutputInv ==
    ASSUME OutputInv, NEW o \in Outputs, AddOutput(o)
    PROVE  OutputInv'
  <1>s. /\ todo = {} /\ at = NoOutput /\ sent \in Nat
        /\ outputs' = outputs \cup {o} /\ reads' = reads \cup {o}
        /\ chan' = [chan EXCEPT ![o] = << >>] /\ got' = [got EXCEPT ![o] = << >>]
        /\ dropped' = [dropped EXCEPT ![o] = {}] /\ since' = [since EXCEPT ![o] = sent]
        /\ UNCHANGED <<blocking, todo, at, full, sent, done>>
    BY DEF AddOutput, Broadcasting, OutputInv, ShapeInv
  <1>e. << >> \in Seq(Nat) /\ Elems(<< >>) = {} /\ Len(<< >>) = 0
    BY DEF Elems
  <1>1. ShapeInv'
    <2>1. chan' \in [Outputs -> Seq(Nat)] /\ got' \in [Outputs -> Seq(Nat)]
      BY <1>s, <1>e DEF OutputInv, ShapeInv
    <2>2. dropped' \in [Outputs -> SUBSET Nat] /\ since' \in [Outputs -> Nat]
      BY <1>s DEF OutputInv, ShapeInv
    <2> QED BY <1>s, <2>1, <2>2 DEF OutputInv, ShapeInv
  <1>2. ASSUME NEW d \in Outputs PROVE OutputOrder(d)' /\ Misses(d)'
    <2>1. CASE d # o
      <3>1. /\ chan'[d] = chan[d] /\ got'[d] = got[d] /\ dropped'[d] = dropped[d]
            /\ since'[d] = since[d] /\ (d \in outputs' => d \in outputs)
            /\ OutputOrder(d) /\ Misses(d)
        BY <1>s, <2>1 DEF OutputInv, ShapeInv
      <3> QED BY <1>s, <3>1, OutputKept
    <2>2. CASE d = o
      <3>1. /\ chan'[d] = << >> /\ got'[d] = << >> /\ dropped'[d] = {} /\ since'[d] = sent
            /\ d \notin todo' \cup {at'}
        BY <1>s, <2>2, OutputAssumption DEF OutputInv, ShapeInv
      <3>2. OutputOrder(d)'
        BY <1>s, <1>e, <3>1, OutputAssumption DEF OutputOrder, Increasing, AllBelow
      <3>3. Misses(d)'
        BY <1>s, <1>e, <3>1 DEF Misses
      <3> QED BY <3>2, <3>3
    <2> QED BY <2>1, <2>2
  <1> QED BY <1>1, <1>2 DEF OutputInv

\* A broadcast that is told that the context is done gives up its message.
LEMMA SendCancelledInv ==
    ASSUME OutputInv, SendCancelled
    PROVE  OutputInv'
  <1>s. /\ at' = NoOutput /\ todo' = {} /\ done /\ ~full
        /\ UNCHANGED <<blocking, outputs, chan, reads, full, sent, done, got, dropped, since>>
    BY DEF SendCancelled
  <1>1. ShapeInv'
    BY <1>s DEF OutputInv, ShapeInv
  <1>2. ASSUME NEW o \in Outputs PROVE OutputOrder(o)' /\ Misses(o)'
    <2>1. OutputOrder(o) /\ o \notin todo' \cup {at'}
      BY <1>s, OutputAssumption DEF OutputInv
    <2>2. OutputOrder(o)'
      BY <1>s, <2>1 DEF OutputOrder
    <2>3. Misses(o)'
      BY <1>s DEF Misses
    <2> QED BY <2>2, <2>3
  <1> QED BY <1>1, <1>2 DEF OutputInv

\* Every other step concerns no message.
LEMMA QuietInv ==
    ASSUME OutputInv, UNCHANGED <<chan, sent, got, dropped, since>>, ShapeInv',
           todo' \cup {at'} \cup {NoOutput} = todo \cup {at} \cup {NoOutput},
           outputs' \subseteq outputs, done => done'
    PROVE  OutputInv'
  <1>1. ASSUME NEW o \in Outputs PROVE OutputOrder(o)' /\ Misses(o)'
    <2>1. OutputOrder(o) /\ Misses(o)
      BY DEF OutputInv
    <2>2. o \in todo' \cup {at'} <=> o \in todo \cup {at}
      BY OutputAssumption
    <2> QED BY <2>1, <2>2, OutputKept
  <1> QED BY <1>1 DEF OutputInv

LEMMA OutputStep ==
    ASSUME OutputInv, [OutNext]_outVars
    PROVE  OutputInv'
  <1>1. CASE UNCHANGED outVars
    <2>1. ShapeInv'
      BY <1>1 DEF OutputInv, ShapeInv, outVars
    <2> QED BY <1>1, <2>1, QuietInv DEF outVars
  <1>2. ASSUME NEW o \in Outputs, NextOutput(o) PROVE OutputInv'
    <2>1. ShapeInv'
      BY <1>2, OutputAssumption DEF NextOutput, OutputInv, ShapeInv
    <2> QED BY <1>2, <2>1, QuietInv DEF NextOutput
  <1>3. CASE FindFull
    <2>1. ShapeInv'
      BY <1>3 DEF FindFull, OutputInv, ShapeInv
    <2> QED BY <1>3, <2>1, QuietInv DEF FindFull
  <1>4. CASE Cancel
    <2>1. ShapeInv'
      BY <1>4 DEF Cancel, OutputInv, ShapeInv
    <2> QED BY <1>4, <2>1, QuietInv DEF Cancel
  <1>5. ASSUME NEW o \in Outputs, StopReading(o) PROVE OutputInv'
    <2>1. ShapeInv'
      BY <1>5 DEF StopReading, OutputInv, ShapeInv
    <2> QED BY <1>5, <2>1, QuietInv DEF StopReading
  <1>6. ASSUME NEW o \in Outputs, RemoveOutput(o) PROVE OutputInv'
    <2>1. ShapeInv'
      BY <1>6 DEF RemoveOutput, Broadcasting, OutputInv, ShapeInv
    <2> QED BY <1>6, <2>1, QuietInv DEF RemoveOutput
  <1> QED BY <1>1, <1>2, <1>3, <1>4, <1>5, <1>6, BroadcastInv, SendInv, TakeOldestInv,
             ReceiveInv, AddOutputInv, SendCancelledInv DEF OutNext, SendSteps

LEMMA OutputInvariant == OutSpec => []OutputInv
  <1>1. OutputInv /\ [OutNext]_outVars => OutputInv'
    BY OutputStep
  <1> QED BY OutputInit, <1>1, PTL DEF OutSpec
-----------------------------------------------------------------------------
(* The theorem                                                             *)

LEMMA OutputTypes == OutputInv => OutTypeOK
  <1> SUFFICES ASSUME OutputInv PROVE OutTypeOK
    OBVIOUS
  <1>1. ASSUME NEW o \in Outputs
        PROVE  /\ chan[o] \in Seq(1..sent) /\ Len(chan[o]) <= OutLength
               /\ got[o] \in Seq(1..sent)
               /\ dropped[o] \subseteq 1..sent
               /\ since[o] \in 0..sent
    <2>1. /\ chan[o] \in Seq(Nat) /\ got[o] \in Seq(Nat) /\ since[o] \in Nat
          /\ sent \in Nat /\ OutputOrder(o)
      BY DEF OutputInv, ShapeInv
    <2>2. \A i \in DOMAIN chan[o] : chan[o][i] \in 1..sent
      BY <2>1 DEF OutputOrder, Elems
    <2>3. \A i \in DOMAIN got[o] : got[o][i] \in 1..sent
      BY <2>1 DEF OutputOrder, Elems
    <2>4. \A m \in Seq(Nat) : (\A i \in DOMAIN m : m[i] \in 1..sent) => m \in Seq(1..sent)
      <3> SUFFICES ASSUME NEW m \in Seq(Nat), \A i \in DOMAIN m : m[i] \in 1..sent
                   PROVE  m \in Seq(1..sent)
        OBVIOUS
      <3>1. m \in [1..Len(m) -> 1..sent] /\ Len(m) \in Nat
        OBVIOUS
      <3> DEFINE S == 1..sent
      <3>2. m \in [1..Len(m) -> S] /\ Len(m) \in Nat
        BY <3>1
      <3> HIDE DEF S
      <3>3. m \in Seq(S)
        BY <3>2
      <3> QED BY <3>3 DEF S
    <2> QED BY <2>1, <2>2, <2>3, <2>4 DEF OutputOrder
  <1> QED BY <1>1 DEF OutputInv, ShapeInv, OutTypeOK

\* Whichever outputs come and go, and however the nodes behind a full channel
\* race with the sender that makes room in it: an output receives what was sent
\* in its order and once, it misses only what was the oldest of a full channel,
\* and nothing is sent to it after its removal.
THEOREM OutputIsSound == OutSpec => OutputSound
  <1>1. OutputInv => OutTypeOK
    BY OutputTypes
  <1>2. OutputInv => ReceivedInOrder
    <2> SUFFICES ASSUME OutputInv, NEW o \in Outputs
                 PROVE  Increasing(got[o] \o chan[o])
      BY DEF ReceivedInOrder, Increasing
    <2>1. chan[o] \in Seq(Nat) /\ got[o] \in Seq(Nat) /\ OutputOrder(o)
      BY DEF OutputInv, ShapeInv
    <2> QED BY <2>1, ConcatIncreasing DEF OutputOrder
  <1>3. OutputInv => MissedOnlyOldest
    BY DEF OutputInv, ShapeInv, Misses, MissedOnlyOldest
  <1>4. OutputInv /\ [OutNext]_outVars =>
          [\A o \in Outputs \ outputs : o \notin outputs' => Len(chan'[o]) <= Len(chan[o])]_outVars
    <2> SUFFICES ASSUME OutputInv, OutNext, NEW o \in Outputs \ outputs, o \notin outputs'
                 PROVE  Len(chan'[o]) <= Len(chan[o])
      OBVIOUS
    <2>s. chan \in [Outputs -> Seq(Nat)] /\ Len(chan[o]) \in Nat /\ o # at
      <3>1. chan \in [Outputs -> Seq(Nat)]
        BY DEF OutputInv, ShapeInv
      <3>2. chan[o] \in Seq(Nat)
        BY <3>1
      <3>3. at \in outputs \cup {NoOutput} /\ o \in Outputs /\ o \notin outputs
        BY DEF OutputInv, ShapeInv
      <3> QED BY <3>1, <3>2, <3>3, OutputAssumption
    <2>1. CASE UNCHANGED chan
      BY <2>s, <2>1
    <2>2. CASE Send
      BY <2>s, <2>2 DEF Send
    <2>3. CASE TakeOldest
      BY <2>s, <2>3 DEF TakeOldest
    <2>4. ASSUME NEW d \in Outputs, Receive(d) PROVE Len(chan'[o]) <= Len(chan[o])
      <3>1. chan[d] # << >> /\ chan[d] \in Seq(Nat) /\ chan' = [chan EXCEPT ![d] = Tail(@)]
        BY <2>4, <2>s DEF Receive
      <3>2. Len(Tail(chan[d])) <= Len(chan[d])
        BY <3>1
      <3> QED BY <2>s, <3>1, <3>2
    <2>5. ASSUME NEW d \in Outputs, AddOutput(d) PROVE Len(chan'[o]) <= Len(chan[o])
      BY <2>5, <2>s DEF AddOutput
    <2> QED BY <2>1, <2>2, <2>3, <2>4, <2>5 DEF OutNext, SendSteps, Broadcast, NextOutput,
               FindFull, SendCancelled, StopReading, RemoveOutput, Cancel
  <1> QED BY <1>1, <1>2, <1>3, <1>4, OutputInvariant, PTL
          DEF OutSpec, OutputSound, RemovedGetsNothing

-----------------------------------------------------------------------------
-----------------------------------------------------------------------------
(* Where the items are.                                                    *)

\* The messages that are no items: the end of a batch, and of the stream.
Ends == {BatchEnd, Eof}
Rows == Seq(Nat) \ {<< >>}
Ones == {<<i>> : i \in Nat}

\* The items X came before the items Y.
Below(X, Y) == \A x \in X, y \in Y : x < y
\* A sequence of items in the order in which they came.
Rises(s) == \A i, j \in DOMAIN s : i < j => s[i] < s[j]

\* The items in a channel.
Items(ch) == UNION {Carried(ch[i]) : i \in DOMAIN ch}

\* The messages of a channel have their items in order, and are in order themselves.
InLine(ch) ==
    /\ \A i \in DOMAIN ch : ch[i] \notin Ends => Rises(ch[i])
    /\ \A i, j \in DOMAIN ch : i < j => Below(Carried(ch[i]), Carried(ch[j]))

\* Where an item may be: with a sink (M) or the sink of the alternative queue (R),
\* in its hands or its input, at the writer, before it, or dropped.
Places == {"takenM", "heldM", "queueM", "takenR", "heldR", "queueR", "written", "toWriter",
           "owed", "lost"}

At == [takenM   |-> ToSet(FlattenSeq(taken["main"])),
       heldM    |-> ToSet(held["main"]),
       queueM   |-> Items(queue["main"]),
       takenR   |-> ToSet(FlattenSeq(taken["resend"])),
       heldR    |-> ToSet(held["resend"]),
       queueR   |-> Items(queue["resend"]),
       written  |-> ToSet(written),
       toWriter |-> Items(toWriter),
       owed     |-> Items(owed),
       lost     |-> lost]

\* How far on a place is: the least is the outside.
Rank == [takenM |-> 1, takenR |-> 1, heldM |-> 2, heldR |-> 2, queueR |-> 3, queueM |-> 4,
         written |-> 5, toWriter |-> 6, owed |-> 7, lost |-> 8]

\* The items at p came before those at q: what is further on is older, except that the
\* two sinks go on without regard to one another.
Before(p, q, d) ==
    \/ /\ Rank[p] < Rank[q] /\ q # "lost"
       /\ ~(p \in {"takenM", "heldM"} /\ q \in {"heldR", "queueR"})
       /\ ~(p = "takenR" /\ q = "heldM")
    \/ p = "lost" /\ ~d /\ q \in {"written", "toWriter", "owed"}

\* Each item is at one place, and the places are in order.
PlacesInv(P, n, d) ==
    /\ \A p, q \in Places : p # q => P[p] \cap P[q] = {}
    /\ \A p, q \in Places : Before(p, q, d) => Below(P[p], P[q])
    /\ UNION {P[p] : p \in Places} = 1..n

\* The types, without the bound that the items have come.
PathTypes ==
    /\ batchSize \in {0, BatchSize}
    /\ lingers \in BOOLEAN /\ discards \in BOOLEAN /\ ioErrors \in BOOLEAN
    /\ onFailure \in {"drop", "retry", "alter"}
    /\ inputs \in 0..MaxInputs /\ ended \in BOOLEAN
    /\ currIndex \in Nat
    /\ owed \in Seq(Ones \cup Ends)
    /\ toWriter \in Seq(Ones \cup Ends) /\ Len(toWriter) <= PathLength
    /\ written \in Seq(Nat)
    /\ queue \in [SinkNodes -> Seq(Rows \cup {Eof})]
    /\ \A s \in SinkNodes : Len(queue[s]) <= PathLength
    /\ held \in [SinkNodes -> Seq(Nat)]
    /\ taken \in [SinkNodes -> Seq(Rows)]
    /\ heardEof \in BOOLEAN

\* Everything on the way is in order.
OrderInv ==
    /\ \A s \in SinkNodes : Rises(FlattenSeq(taken[s])) /\ Rises(held[s]) /\ InLine(queue[s])
    /\ Rises(written) /\ InLine(toWriter) /\ InLine(owed)

\* What the settings of the sink exclude.
ModeInv ==
    /\ onFailure # "alter" => /\ queue["resend"] = << >> /\ held["resend"] = << >>
                              /\ taken["resend"] = << >>
    /\ ~discards /\ onFailure = "retry" /\ ioErrors => lost = {}

\* What has still to pass the writer.
Coming == toWriter \o owed

\* c[k] items of a batch are there when k messages of ch have passed a writer that holds
\* n; in the end there are m, and e says whether the stream has ended.
Fills(c, ch, n, m, e) ==
    /\ c \in [0..Len(ch) -> Nat] /\ c[0] = n /\ c[Len(ch)] = m
    /\ \A k \in 1..Len(ch) : c[k] = IF ch[k] \in Ends THEN 0 ELSE c[k - 1] + 1
    /\ \A k \in 1..Len(ch) : ch[k] = Eof => c[k - 1] = 0
    /\ batchSize > 0 => /\ \A k \in 0..Len(ch) : c[k] <= batchSize
                        /\ \A k \in 1..Len(ch) : c[k - 1] = batchSize => ch[k] = BatchEnd
    /\ \A k \in 1..Len(ch) : ch[k] = BatchEnd /\ c[k - 1] > 0 =>
           \/ batchSize > 0 /\ c[k - 1] = batchSize
           \/ lingers
           \/ e /\ \A j \in k..Len(ch) : ch[j] \in Ends

\* BatchOp's count and the ends it has sent fit each other.
FillInv ==
    /\ batchSize > 0 => currIndex < batchSize
    /\ ~discards => \E c : Fills(c, Coming, Len(written), currIndex, ended)

\* Behind the end of the stream there are at most ends of batches, and g holds while it comes.
EndsWell(ch, g) ==
    \A k \in DOMAIN ch : ch[k] = Eof => g /\ \A j \in DOMAIN ch : j > k => ch[j] = BatchEnd

\* Nothing but ends of batches is to come.
OnlyEnds(ch) == \A k \in DOMAIN ch : ch[k] = BatchEnd

\* The end of the stream is the last on its way, and the sink hears it last.
EofInv ==
    ~discards =>
    /\ EndsWell(Coming, ended /\ ~heardEof /\ Eof \notin ToSet(queue["main"]))
    /\ heardEof \/ Eof \in ToSet(queue["main"]) => ended /\ written = << >> /\ OnlyEnds(Coming)
    /\ \A k \in DOMAIN queue["main"] : queue["main"][k] = Eof => k = Len(queue["main"])
    /\ heardEof => queue["main"] = << >> /\ held["main"] = << >>

\* The inductive invariant.
PathInv ==
    /\ PathTypes /\ OrderInv /\ PlacesInv(At, inputs, discards)
    /\ ModeInv /\ FillInv /\ EofInv /\ BatchesAreFull

-----------------------------------------------------------------------------
(* Items and messages.                                                     *)

\* The two ends are no items, and carry none.
LEMMA EndsApart ==
    /\ \A m \in Ends : m \notin Seq(Nat) /\ Carried(m) = {}
    /\ \A m \in Seq(Nat) : m \notin Ends /\ Carried(m) = ToSet(m)
    /\ Ones \subseteq Rows /\ Rows \subseteq Seq(Nat)
    /\ \A i \in Nat : <<i>> \in Ones /\ ToSet(<<i>>) = {i} /\ Rises(<<i>>) /\ Len(<<i>>) = 1
  <1>1. \A m \in Ends : m \notin Seq(Nat) /\ Carried(m) = {}
    BY PathAssumption DEF Ends, Carried
  <1>2. \A m \in Seq(Nat) : m \notin Ends
    BY <1>1
  <1>3. \A m \in Seq(Nat) : Carried(m) = ToSet(m)
    BY <1>2 DEF Ends, Carried
  <1>4. ASSUME NEW i \in Nat
        PROVE  /\ <<i>> \in Seq(Nat) /\ <<i>> # << >> /\ ToSet(<<i>>) = {i} /\ Rises(<<i>>)
               /\ Len(<<i>>) = 1
    BY DEF ToSet, Rises
  <1>5. Rows \subseteq Seq(Nat)
    BY DEF Rows
  <1>6. Ones \subseteq Rows
    BY <1>4 DEF Rows, Ones
  <1>7. \A i \in Nat : <<i>> \in Ones
    BY DEF Ones
  <1> QED BY <1>1, <1>2, <1>3, <1>4, <1>5, <1>6, <1>7

\* What one sequence behind another has where.
LEMMA ConcatElements ==
    ASSUME NEW S, NEW a \in Seq(S), NEW b \in Seq(S)
    PROVE  /\ a \o b \in Seq(S) /\ Len(a) \in Nat /\ Len(b) \in Nat
           /\ Len(a \o b) = Len(a) + Len(b) /\ DOMAIN (a \o b) = 1..(Len(a) + Len(b))
           /\ \A i \in 1..Len(a) : (a \o b)[i] = a[i]
           /\ \A i \in (Len(a) + 1)..(Len(a) + Len(b)) :
                  i - Len(a) \in 1..Len(b) /\ (a \o b)[i] = b[i - Len(a)]
  <1> DEFINE c == a \o b
             n == Len(a)
             k == Len(b)
  <1>1. /\ c \in Seq(S) /\ Len(c) = n + k /\ n \in Nat /\ k \in Nat
        /\ \A i \in 1..(n + k) : c[i] = IF i <= n THEN a[i] ELSE b[i - n]
    BY ConcatProperties
  <1>2. DOMAIN c = 1..(n + k)
    BY <1>1
  <1> HIDE DEF c, n, k
  <1>3. \A i \in 1..n : i \in 1..(n + k) /\ i <= n
    BY <1>1
  <1>4. \A i \in (n + 1)..(n + k) : i \in 1..(n + k) /\ ~(i <= n) /\ i - n \in 1..k
    BY <1>1
  <1>5. \A i \in 1..n : c[i] = a[i]
    BY <1>1, <1>3
  <1>6. \A i \in (n + 1)..(n + k) : c[i] = b[i - n]
    BY <1>1, <1>4
  <1> QED BY <1>1, <1>2, <1>4, <1>5, <1>6 DEF c, n, k

\* Newer items behind older ones keep the order.
LEMMA RisesConcat ==
    ASSUME NEW a \in Seq(Nat), NEW b \in Seq(Nat), Rises(a), Rises(b), Below(ToSet(a), ToSet(b))
    PROVE  a \o b \in Seq(Nat) /\ Rises(a \o b) /\ ToSet(a \o b) = ToSet(a) \cup ToSet(b)
  <1> DEFINE c == a \o b
             n == Len(a)
             k == Len(b)
  <1>1. /\ c \in Seq(Nat) /\ n \in Nat /\ k \in Nat /\ DOMAIN c = 1..(n + k)
        /\ \A i \in 1..n : c[i] = a[i]
        /\ \A i \in (n + 1)..(n + k) : i - n \in 1..k /\ c[i] = b[i - n]
    BY ConcatElements
  <1>2. DOMAIN a = 1..n /\ DOMAIN b = 1..k
    OBVIOUS
  <1> HIDE DEF c, n, k
  <1>3. \A i \in 1..(n + k) : i \in 1..n \/ i \in (n + 1)..(n + k)
    BY <1>1
  <1>4. ASSUME NEW i \in 1..(n + k), NEW j \in 1..(n + k), i < j PROVE c[i] < c[j]
    <2>1. CASE i \in 1..n /\ j \in 1..n
      <3>1. a[i] < a[j]
        BY <1>2, <1>4, <2>1 DEF Rises
      <3> QED BY <1>1, <2>1, <3>1
    <2>2. CASE i \in 1..n /\ j \in (n + 1)..(n + k)
      <3>1. c[i] \in ToSet(a) /\ c[j] \in ToSet(b)
        BY <1>1, <1>2, <2>2 DEF ToSet
      <3> QED BY <3>1 DEF Below
    <2>3. CASE i \in (n + 1)..(n + k) /\ j \in (n + 1)..(n + k)
      <3>1. i - n < j - n
        BY <1>1, <1>4, <2>3
      <3>2. b[i - n] < b[j - n]
        BY <1>1, <1>2, <2>3, <3>1 DEF Rises
      <3> QED BY <1>1, <2>3, <3>2
    <2>4. CASE i \in (n + 1)..(n + k) /\ j \in 1..n
      BY <1>1, <1>4, <2>4
    <2> QED BY <1>3, <2>1, <2>2, <2>3, <2>4
  <1>5. Rises(c)
    BY <1>1, <1>4 DEF Rises
  <1>6. ASSUME NEW x PROVE x \in ToSet(c) <=> x \in ToSet(a) \/ x \in ToSet(b)
    <2>1. \A i \in 1..k : i + n \in (n + 1)..(n + k) /\ (i + n) - n = i
      BY <1>1
    <2>2. \A i \in 1..n : i \in 1..(n + k)
      BY <1>1
    <2>3. \A i \in (n + 1)..(n + k) : i \in 1..(n + k)
      BY <1>1
    <2>4. x \in ToSet(c) <=> \E i \in 1..(n + k) : c[i] = x
      BY <1>1 DEF ToSet
    <2>5. x \in ToSet(a) <=> \E i \in 1..n : a[i] = x
      BY <1>2 DEF ToSet
    <2>6. x \in ToSet(b) <=> \E i \in 1..k : b[i] = x
      BY <1>2 DEF ToSet
    <2>7. \A i \in 1..k : c[i + n] = b[i] /\ i + n \in 1..(n + k)
      BY <1>1, <2>1, <2>3
    <2>8. x \in ToSet(c) => x \in ToSet(a) \/ x \in ToSet(b)
      BY <1>1, <1>3, <2>4, <2>5, <2>6
    <2>9. x \in ToSet(a) \/ x \in ToSet(b) => x \in ToSet(c)
      BY <1>1, <2>2, <2>4, <2>5, <2>6, <2>7
    <2> QED BY <2>8, <2>9
  <1>7. ToSet(c) = ToSet(a) \cup ToSet(b)
    BY <1>6
  <1> QED BY <1>1, <1>5, <1>7 DEF c

\* A message with newer items keeps a channel in order.
LEMMA ItemsAppend ==
    ASSUME NEW S, NEW ch \in Seq(S), NEW msg \in S, InLine(ch),
           msg \notin Ends => Rises(msg), Below(Items(ch), Carried(msg))
    PROVE  /\ Append(ch, msg) \in Seq(S) /\ InLine(Append(ch, msg))
           /\ Items(Append(ch, msg)) = Items(ch) \cup Carried(msg)
           /\ Len(Append(ch, msg)) = Len(ch) + 1 /\ Len(ch) \in Nat
  <1> DEFINE d == Append(ch, msg)
             n == Len(ch)
  <1>1. /\ d \in Seq(S) /\ n \in Nat /\ Len(d) = n + 1 /\ DOMAIN d = 1..(n + 1) /\ DOMAIN ch = 1..n
        /\ \A i \in 1..n : d[i] = ch[i]
        /\ d[n + 1] = msg
    OBVIOUS
  <1> HIDE DEF d, n
  <1>2. \A i \in 1..(n + 1) : i \in 1..n \/ i = n + 1
    BY <1>1
  <1>3. \A i \in 1..n : i \in 1..(n + 1) /\ n + 1 \in 1..(n + 1)
    BY <1>1
  <1>4. ASSUME NEW i \in 1..(n + 1), d[i] \notin Ends PROVE Rises(d[i])
    BY <1>1, <1>2, <1>4 DEF InLine
  <1>5. ASSUME NEW i \in 1..(n + 1), NEW j \in 1..(n + 1), i < j
        PROVE  Below(Carried(d[i]), Carried(d[j]))
    <2>1. i \in 1..n
      BY <1>1, <1>2, <1>5
    <2>2. CASE j \in 1..n
      BY <1>1, <1>5, <2>1, <2>2 DEF InLine
    <2>3. CASE j = n + 1
      <3>1. Carried(ch[i]) \subseteq Items(ch)
        BY <1>1, <2>1 DEF Items
      <3> QED BY <1>1, <2>1, <2>3, <3>1 DEF Below
    <2> QED BY <1>2, <2>2, <2>3
  <1>6. InLine(d)
    BY <1>1, <1>4, <1>5 DEF InLine
  <1>7. ASSUME NEW x PROVE x \in Items(d) <=> x \in Items(ch) \/ x \in Carried(msg)
    <2>1. x \in Items(d) <=> \E i \in 1..(n + 1) : x \in Carried(d[i])
      BY <1>1 DEF Items
    <2>2. x \in Items(ch) <=> \E i \in 1..n : x \in Carried(ch[i])
      BY <1>1 DEF Items
    <2>3. n + 1 \in 1..(n + 1)
      BY <1>1
    <2> QED BY <1>1, <1>2, <1>3, <2>1, <2>2, <2>3
  <1>8. Items(d) = Items(ch) \cup Carried(msg)
    BY <1>7
  <1> QED BY <1>1, <1>6, <1>8 DEF d, n

\* A channel without its head.
LEMMA TailIs ==
    ASSUME NEW S, NEW ch \in Seq(S), ch # << >>
    PROVE  /\ Tail(ch) \in Seq(S) /\ Head(ch) \in S /\ Head(ch) = ch[1]
           /\ Len(ch) \in Nat \ {0} /\ DOMAIN ch = 1..Len(ch)
           /\ Len(Tail(ch)) = Len(ch) - 1 /\ DOMAIN Tail(ch) = 1..(Len(ch) - 1)
           /\ \A i \in 1..(Len(ch) - 1) : i + 1 \in 1..Len(ch) /\ Tail(ch)[i] = ch[i + 1]
  OBVIOUS

\* The head of a channel has its oldest items.
LEMMA ItemsTail ==
    ASSUME NEW S, NEW ch \in Seq(S), ch # << >>, InLine(ch)
    PROVE  /\ Tail(ch) \in Seq(S) /\ InLine(Tail(ch)) /\ Head(ch) \in S
           /\ Items(ch) = Carried(Head(ch)) \cup Items(Tail(ch))
           /\ Below(Carried(Head(ch)), Items(Tail(ch)))
           /\ Len(Tail(ch)) = Len(ch) - 1 /\ Len(ch) \in Nat
           /\ Head(ch) \notin Ends => Rises(Head(ch))
  <1> DEFINE d == Tail(ch)
             n == Len(ch)
             h == Head(ch)
  <1>1. /\ d \in Seq(S) /\ h \in S /\ h = ch[1] /\ n \in Nat \ {0} /\ DOMAIN ch = 1..n
        /\ Len(d) = n - 1 /\ DOMAIN d = 1..(n - 1)
        /\ \A i \in 1..(n - 1) : i + 1 \in 1..n /\ d[i] = ch[i + 1]
    BY TailIs
  <1> HIDE DEF d, n, h
  <1>2. InLine(d)
    <2>1. \A i, j \in 1..(n - 1) : i < j => i + 1 < j + 1
      BY <1>1
    <2> QED BY <1>1, <2>1 DEF InLine
  <1>3. ASSUME NEW x PROVE x \in Items(ch) <=> x \in Carried(h) \/ x \in Items(d)
    <2>1. x \in Items(d) <=> \E i \in 1..(n - 1) : x \in Carried(d[i])
      BY <1>1 DEF Items
    <2>2. x \in Items(ch) <=> \E i \in 1..n : x \in Carried(ch[i])
      BY <1>1 DEF Items
    <2>3. 1 \in 1..n /\ \A i \in 1..n : i = 1 \/ (i - 1 \in 1..(n - 1) /\ (i - 1) + 1 = i)
      BY <1>1
    <2>4. ASSUME NEW i \in 1..n, x \in Carried(ch[i]) PROVE x \in Carried(h) \/ x \in Items(d)
      BY <1>1, <2>1, <2>3, <2>4
    <2> QED BY <1>1, <2>1, <2>2, <2>3, <2>4
  <1>4. Below(Carried(h), Items(d))
    <2>1. \A i \in 1..(n - 1) : 1 < i + 1 /\ 1 \in 1..n
      BY <1>1
    <2>2. \A i \in 1..(n - 1) : Below(Carried(h), Carried(d[i]))
      BY <1>1, <2>1 DEF InLine
    <2> QED BY <1>1, <2>2 DEF Below, Items
  <1>5. Items(ch) = Carried(h) \cup Items(d)
    BY <1>3
  <1>6. h \notin Ends => Rises(h)
    <2>1. 1 \in 1..n
      BY <1>1
    <2> QED BY <1>1, <2>1 DEF InLine
  <1> QED BY <1>1, <1>2, <1>4, <1>5, <1>6 DEF d, n, h

\* What a broadcast makes of a channel: first the oldest goes, if the channel is full.
Kept(ch) == IF Len(ch) < PathLength THEN ch ELSE Tail(ch)

\* What is discarded is the oldest, and none while channels wait.
LEMMA KeptIs ==
    ASSUME NEW S, NEW ch \in Seq(S), InLine(ch), Len(ch) <= PathLength
    PROVE  /\ Kept(ch) \in Seq(S) /\ InLine(Kept(ch)) /\ Len(Kept(ch)) < PathLength
           /\ Items(ch) = Discarded(ch) \cup Items(Kept(ch))
           /\ Below(Discarded(ch), Items(Kept(ch)))
           /\ \A msg : Forwarded(ch, msg) = Append(Kept(ch), msg)
           /\ HasRoom(ch) /\ ~discards => Kept(ch) = ch /\ Discarded(ch) = {}
  <1>1. PathLength \in Nat \ {0} /\ Len(ch) \in Nat
    BY PathAssumption
  <1>2. \A msg : Forwarded(ch, msg) = Append(Kept(ch), msg)
    BY DEF Forwarded, Kept
  <1>3. CASE Len(ch) < PathLength
    <2>1. Kept(ch) = ch /\ Discarded(ch) = {}
      BY <1>3 DEF Kept, Discarded
    <2> QED BY <1>2, <1>3, <2>1 DEF Below
  <1>4. CASE ~(Len(ch) < PathLength)
    <2>1. Kept(ch) = Tail(ch) /\ Discarded(ch) = Carried(Head(ch))
      BY <1>4 DEF Kept, Discarded
    <2>2. ch # << >>
      BY <1>1, <1>4
    <2>3. /\ Tail(ch) \in Seq(S) /\ InLine(Tail(ch)) /\ Len(Tail(ch)) = Len(ch) - 1
          /\ Items(ch) = Carried(Head(ch)) \cup Items(Tail(ch))
          /\ Below(Carried(Head(ch)), Items(Tail(ch)))
      BY <2>2, ItemsTail
    <2>4. Len(Tail(ch)) < PathLength
      BY <1>1, <2>3
    <2>5. HasRoom(ch) => discards
      BY <1>4 DEF HasRoom
    <2> QED BY <1>2, <2>1, <2>3, <2>4, <2>5
  <1> QED BY <1>3, <1>4

-----------------------------------------------------------------------------
(* Places.                                                                 *)

LEMMA RankIs ==
    /\ Rank["takenM"] = 1 /\ Rank["takenR"] = 1 /\ Rank["heldM"] = 2 /\ Rank["heldR"] = 2
    /\ Rank["queueR"] = 3 /\ Rank["queueM"] = 4 /\ Rank["written"] = 5 /\ Rank["toWriter"] = 6
    /\ Rank["owed"] = 7 /\ Rank["lost"] = 8
  BY DEF Rank

\* Items may pass from f to t, when there are none at the places E.
Passes(f, t, E, d) ==
    /\ f # t /\ ~Before(f, t, d) /\ ~Before(t, t, d)
    /\ \A q \in Places \ {f, t} : /\ Before(t, q, d) => Before(f, q, d) \/ q \in E
                                  /\ Before(q, t, d) => Before(q, f, d)

\* The ways that items take keep the places in order.
LEMMA WaysToPass ==
    ASSUME NEW d \in BOOLEAN
    PROVE  /\ Passes("owed", "toWriter", {}, d)
           /\ Passes("toWriter", "written", {}, d)
           /\ Passes("written", "queueM", {}, d)
           /\ Passes("queueM", "takenM", {"heldM"}, d)
           /\ Passes("queueM", "heldM", {}, d)
           /\ Passes("queueM", "queueR", {}, d)
           /\ Passes("heldM", "takenM", {}, d)
           /\ Passes("queueR", "takenR", {"heldR"}, d)
           /\ Passes("queueR", "heldR", {}, d)
           /\ Passes("heldR", "takenR", {}, d)
  <1>1. Passes("owed", "toWriter", {}, d)
    BY RankIs DEF Passes, Before, Places
  <1>2. Passes("toWriter", "written", {}, d)
    BY RankIs DEF Passes, Before, Places
  <1>3. Passes("written", "queueM", {}, d)
    BY RankIs DEF Passes, Before, Places
  <1>4. Passes("queueM", "takenM", {"heldM"}, d)
    BY RankIs DEF Passes, Before, Places
  <1>5. Passes("queueM", "heldM", {}, d)
    BY RankIs DEF Passes, Before, Places
  <1>6. Passes("queueM", "queueR", {}, d)
    BY RankIs DEF Passes, Before, Places
  <1>7. Passes("heldM", "takenM", {}, d)
    BY RankIs DEF Passes, Before, Places
  <1>8. Passes("queueR", "takenR", {"heldR"}, d)
    BY RankIs DEF Passes, Before, Places
  <1>9. Passes("queueR", "heldR", {}, d)
    BY RankIs DEF Passes, Before, Places
  <1>10. Passes("heldR", "takenR", {}, d)
    BY RankIs DEF Passes, Before, Places
  <1> QED BY <1>1, <1>2, <1>3, <1>4, <1>5, <1>6, <1>7, <1>8, <1>9, <1>10

\* Items may be lost from where a sink drops them, and in a full channel.
LEMMA WaysToLose ==
    ASSUME NEW d \in BOOLEAN
    PROVE  /\ Passes("queueM", "lost", {}, d)
           /\ Passes("heldM", "lost", {}, d)
           /\ Passes("queueR", "lost", {}, d)
           /\ Passes("heldR", "lost", {}, d)
           /\ Passes("toWriter", "lost", {}, TRUE)
  <1>1. Passes("queueM", "lost", {}, d)
    BY RankIs DEF Passes, Before, Places
  <1>2. Passes("heldM", "lost", {}, d)
    BY RankIs DEF Passes, Before, Places
  <1>3. Passes("queueR", "lost", {}, d)
    BY RankIs DEF Passes, Before, Places
  <1>4. Passes("heldR", "lost", {}, d)
    BY RankIs DEF Passes, Before, Places
  <1>5. Passes("toWriter", "lost", {}, TRUE)
    BY RankIs DEF Passes, Before, Places
  <1> QED BY <1>1, <1>2, <1>3, <1>4, <1>5

\* The parts of PlacesInv.
LEMMA PlacesAre ==
    ASSUME NEW P, NEW n \in Nat, NEW d, PlacesInv(P, n, d)
    PROVE  /\ \A p \in Places : \A x \in P[p] : x \in 1..n /\ x \in Nat
           /\ \A x \in 1..n : \E p \in Places : x \in P[p]
           /\ \A p, q \in Places : \A x : p # q /\ x \in P[p] => x \notin P[q]
           /\ \A p, q \in Places : Before(p, q, d) => Below(P[p], P[q])
  <1>1. \A x : x \in 1..n <=> \E p \in Places : x \in P[p]
    BY DEF PlacesInv
  <1>2. \A p, q \in Places : p # q => P[p] \cap P[q] = {}
    BY DEF PlacesInv
  <1>3. \A p, q \in Places : Before(p, q, d) => Below(P[p], P[q])
    BY DEF PlacesInv
  <1> QED BY <1>1, <1>2, <1>3

\* The items X pass from f to t, and Y stay.
Moves(P, Q, f, t, X, Y) ==
    /\ P[f] = X \cup Y /\ Below(X, Y)
    /\ Q[f] = Y /\ Q[t] = P[t] \cup X
    /\ \A q \in Places \ {f, t} : Q[q] = P[q]

\* Items that pass along one of the ways keep each item at one place, in order.
LEMMA MoveKeeps ==
    ASSUME NEW P, NEW Q, NEW n \in Nat, NEW d \in BOOLEAN, PlacesInv(P, n, d),
           NEW f \in Places, NEW t \in Places, NEW E \in SUBSET Places, Passes(f, t, E, d),
           \A q \in E : P[q] = {},
           NEW X, NEW Y, Moves(P, Q, f, t, X, Y)
    PROVE  PlacesInv(Q, n, d)
  <1>0. /\ P[f] = X \cup Y /\ Below(X, Y) /\ Q[f] = Y /\ Q[t] = P[t] \cup X
        /\ \A r \in Places : r # f /\ r # t => Q[r] = P[r]
    BY DEF Moves
  <1>1. /\ \A p \in Places : \A x \in P[p] : x \in 1..n /\ x \in Nat
        /\ \A x \in 1..n : \E p \in Places : x \in P[p]
    BY PlacesAre
  <1>2. \A p, q \in Places : \A x : p # q /\ x \in P[p] => x \notin P[q]
    BY PlacesAre
  <1>3. \A p, q \in Places : Before(p, q, d) => Below(P[p], P[q])
    BY PlacesAre
  <1>4. f # t /\ ~Before(f, t, d) /\ ~Before(t, t, d)
    BY DEF Passes
  <1>5. ASSUME NEW q \in Places, q # f, q # t, Before(t, q, d) PROVE Below(P[f], P[q])
    <2>1. Before(f, q, d) \/ P[q] = {}
      BY <1>5 DEF Passes
    <2> QED BY <1>3, <2>1 DEF Below
  <1>6. ASSUME NEW q \in Places, q # f, q # t, Before(q, t, d) PROVE Below(P[q], P[f])
    <2>1. Before(q, f, d)
      BY <1>6 DEF Passes
    <2> QED BY <1>3, <2>1
  <1>7. \A x : x \in X => x \notin Y
    BY <1>0, <1>1 DEF Below
  <1>8. ASSUME NEW p \in Places, NEW q \in Places, p # q, NEW x, x \in Q[p], x \in Q[q]
        PROVE  FALSE
    <2>1. \A r \in Places : r # f /\ r # t => Q[r] = P[r]
      BY <1>0
    <2>2. CASE p = f /\ q = t
      BY <1>0, <1>2, <1>4, <1>7, <1>8, <2>2
    <2>3. CASE p = t /\ q = f
      BY <1>0, <1>2, <1>4, <1>7, <1>8, <2>3
    <2>4. CASE p \notin {f, t} /\ q \in {f, t}
      BY <1>0, <1>2, <1>8, <2>1, <2>4
    <2>5. CASE q \notin {f, t} /\ p \in {f, t}
      BY <1>0, <1>2, <1>8, <2>1, <2>5
    <2>6. CASE q \notin {f, t} /\ p \notin {f, t}
      BY <1>2, <1>8, <2>1, <2>6
    <2> QED BY <1>8, <2>2, <2>3, <2>4, <2>5, <2>6
  <1>9. ASSUME NEW p \in Places, NEW q \in Places, Before(p, q, d) PROVE Below(Q[p], Q[q])
    <2>1. Below(P[p], P[q])
      BY <1>3, <1>9
    <2>2. CASE p = t /\ q = f
      BY <1>0, <2>1, <2>2 DEF Below
    <2>3. CASE p = t /\ q \notin {f, t}
      <3>1. Below(P[f], P[q]) /\ Q[q] = P[q]
        BY <1>0, <1>5, <1>9, <2>3
      <3> QED BY <1>0, <2>1, <2>3, <3>1 DEF Below
    <2>4. CASE q = t /\ p \notin {f, t}
      <3>1. Below(P[p], P[f]) /\ Q[p] = P[p]
        BY <1>0, <1>6, <1>9, <2>4
      <3> QED BY <1>0, <2>1, <2>4, <3>1 DEF Below
    <2>5. CASE p # t /\ q # t
      <3>1. Q[p] \subseteq P[p] /\ Q[q] \subseteq P[q]
        BY <1>0, <2>5
      <3> QED BY <2>1, <3>1 DEF Below
    <2> QED BY <1>4, <1>9, <2>2, <2>3, <2>4, <2>5
  <1>10. ASSUME NEW x PROVE (\E p \in Places : x \in Q[p]) <=> (\E p \in Places : x \in P[p])
    <2>1. \A r \in Places : r # f /\ r # t => Q[r] = P[r]
      BY <1>0
    <2>2. x \in P[f] \/ x \in P[t] <=> x \in Q[f] \/ x \in Q[t]
      BY <1>0
    <2> QED BY <2>1, <2>2
  <1>11. \A x : x \in 1..n <=> \E p \in Places : x \in Q[p]
    BY <1>1, <1>10
  <1>12. UNION {Q[p] : p \in Places} = 1..n
    BY <1>11
  <1> QED BY <1>8, <1>9, <1>12 DEF PlacesInv

\* The same for a way with nothing beside it.
LEMMA MoveOn ==
    ASSUME NEW P, NEW Q, NEW n \in Nat, NEW d \in BOOLEAN, PlacesInv(P, n, d),
           NEW f \in Places, NEW t \in Places, Passes(f, t, {}, d),
           NEW X, NEW Y, Moves(P, Q, f, t, X, Y)
    PROVE  PlacesInv(Q, n, d)
  <1>1. {} \in SUBSET Places /\ \A q \in {} : P[q] = {}
    OBVIOUS
  <1> QED BY <1>1, MoveKeeps

\* A step that moves nothing.
LEMMA SameKeeps ==
    ASSUME NEW P, NEW Q, NEW n, NEW d, PlacesInv(P, n, d), \A q \in Places : Q[q] = P[q]
    PROVE  PlacesInv(Q, n, d)
  BY DEF PlacesInv

\* A new item is newer than all.
LEMMA AddKeeps ==
    ASSUME NEW P, NEW Q, NEW n \in Nat, NEW d \in BOOLEAN, PlacesInv(P, n, d),
           P["owed"] = {}, Q["owed"] = {n + 1}, \A q \in Places \ {"owed"} : Q[q] = P[q]
    PROVE  PlacesInv(Q, n + 1, d)
  <1>1. /\ \A p \in Places : \A x \in P[p] : x \in 1..n /\ x \in Nat
        /\ \A x \in 1..n : \E p \in Places : x \in P[p]
        /\ \A p, q \in Places : \A x : p # q /\ x \in P[p] => x \notin P[q]
        /\ \A p, q \in Places : Before(p, q, d) => Below(P[p], P[q])
    BY PlacesAre
  <1>2. "owed" \in Places /\ \A q \in Places : ~Before("owed", q, d)
    BY RankIs DEF Before, Places
  <1>3. \A x \in 1..n : x < n + 1 /\ x # n + 1 /\ x \in 1..(n + 1)
    OBVIOUS
  <1>4. \A x \in 1..(n + 1) : x \in 1..n \/ x = n + 1
    OBVIOUS
  <1>5. n + 1 \in 1..(n + 1)
    OBVIOUS
  <1>6. \A p, q \in Places : p # q => Q[p] \cap Q[q] = {}
    <2> SUFFICES ASSUME NEW p \in Places, NEW q \in Places, p # q, NEW x, x \in Q[p], x \in Q[q]
                 PROVE  FALSE
      OBVIOUS
    <2> QED BY <1>1, <1>3
  <1>7. ASSUME NEW p \in Places, NEW q \in Places, Before(p, q, d) PROVE Below(Q[p], Q[q])
    <2>1. p # "owed"
      BY <1>2, <1>7
    <2>2. CASE q = "owed"
      BY <1>1, <1>3, <2>1, <2>2 DEF Below
    <2>3. CASE q # "owed"
      BY <1>1, <1>7, <2>1, <2>3
    <2> QED BY <2>2, <2>3
  <1>8. \A x : x \in 1..(n + 1) <=> \E p \in Places : x \in Q[p]
    <2>1. ASSUME NEW x \in 1..(n + 1) PROVE \E p \in Places : x \in Q[p]
      <3>1. CASE x = n + 1
        BY <1>2, <3>1
      <3>2. CASE x \in 1..n
        <4>1. PICK p \in Places : x \in P[p]
          BY <1>1, <3>2
        <4> QED BY <4>1
      <3> QED BY <1>4, <3>1, <3>2
    <2>2. ASSUME NEW p \in Places, NEW x \in Q[p] PROVE x \in 1..(n + 1)
      BY <1>1, <1>3, <1>5
    <2> QED BY <2>1, <2>2
  <1>9. UNION {Q[p] : p \in Places} = 1..(n + 1)
    BY <1>8
  <1> QED BY <1>6, <1>7, <1>9 DEF PlacesInv

\* What At is of this state and of the next.
LEMMA AtIs ==
    /\ At["takenM"] = ToSet(FlattenSeq(taken["main"]))
    /\ At["heldM"] = ToSet(held["main"])
    /\ At["queueM"] = Items(queue["main"])
    /\ At["takenR"] = ToSet(FlattenSeq(taken["resend"]))
    /\ At["heldR"] = ToSet(held["resend"])
    /\ At["queueR"] = Items(queue["resend"])
    /\ At["written"] = ToSet(written)
    /\ At["toWriter"] = Items(toWriter)
    /\ At["owed"] = Items(owed)
    /\ At["lost"] = lost
  BY DEF At

LEMMA AtIsNext ==
    /\ At'["takenM"] = ToSet(FlattenSeq(taken'["main"]))
    /\ At'["heldM"] = ToSet(held'["main"])
    /\ At'["queueM"] = Items(queue'["main"])
    /\ At'["takenR"] = ToSet(FlattenSeq(taken'["resend"]))
    /\ At'["heldR"] = ToSet(held'["resend"])
    /\ At'["queueR"] = Items(queue'["resend"])
    /\ At'["written"] = ToSet(written')
    /\ At'["toWriter"] = Items(toWriter')
    /\ At'["owed"] = Items(owed')
    /\ At'["lost"] = lost'
  BY DEF At

-----------------------------------------------------------------------------
(* Types.                                                                  *)

LEMMA SinksAre ==
    /\ "main" \in SinkNodes /\ "resend" \in SinkNodes
    /\ \A s \in SinkNodes : s = "main" \/ s = "resend"
  BY DEF SinkNodes

LEMMA ExceptOne ==
    ASSUME NEW S, NEW f \in [SinkNodes -> S], NEW s \in SinkNodes, NEW v \in S
    PROVE  /\ [f EXCEPT ![s] = v] \in [SinkNodes -> S] /\ [f EXCEPT ![s] = v][s] = v
           /\ \A r \in SinkNodes : r # s => [f EXCEPT ![s] = v][r] = f[r]
  OBVIOUS

\* A sink takes the head of its input.
LEMMA TakesOne ==
    ASSUME PathTypes, OrderInv, NEW s \in SinkNodes, Takes(s)
    PROVE  /\ Tail(queue[s]) \in Seq(Rows \cup {Eof}) /\ Len(Tail(queue[s])) <= PathLength
           /\ Head(queue[s]) \in Rows \cup {Eof} /\ InLine(Tail(queue[s]))
           /\ Items(queue[s]) = Carried(Head(queue[s])) \cup Items(Tail(queue[s]))
           /\ Below(Carried(Head(queue[s])), Items(Tail(queue[s])))
           /\ Head(queue[s]) # Eof => /\ Head(queue[s]) \in Rows /\ Head(queue[s]) \in Seq(Nat)
                                      /\ Rises(Head(queue[s]))
                                      /\ Carried(Head(queue[s])) = ToSet(Head(queue[s]))
           /\ held[s] = << >> /\ queue[s] # << >> /\ queue[s] \in Seq(Rows \cup {Eof})
  <1>1. queue[s] \in Seq(Rows \cup {Eof}) /\ queue[s] # << >> /\ InLine(queue[s]) /\ held[s] = << >>
        /\ Len(queue[s]) <= PathLength
    BY DEF Takes, PathTypes, OrderInv
  <1>2. /\ Tail(queue[s]) \in Seq(Rows \cup {Eof}) /\ InLine(Tail(queue[s]))
        /\ Head(queue[s]) \in Rows \cup {Eof}
        /\ Items(queue[s]) = Carried(Head(queue[s])) \cup Items(Tail(queue[s]))
        /\ Below(Carried(Head(queue[s])), Items(Tail(queue[s])))
        /\ Len(Tail(queue[s])) = Len(queue[s]) - 1 /\ Len(queue[s]) \in Nat
        /\ Head(queue[s]) \notin Ends => Rises(Head(queue[s]))
    BY <1>1, ItemsTail
  <1>3. Len(Tail(queue[s])) <= PathLength
    BY <1>1, <1>2, PathAssumption
  <1>4. ASSUME Head(queue[s]) # Eof
        PROVE  /\ Head(queue[s]) \in Rows /\ Head(queue[s]) \in Seq(Nat)
               /\ Head(queue[s]) \notin Ends /\ Carried(Head(queue[s])) = ToSet(Head(queue[s]))
    <2>1. Head(queue[s]) \in Rows
      BY <1>2, <1>4
    <2> QED BY <2>1, EndsApart
  <1> QED BY <1>1, <1>2, <1>3, <1>4

\* Something is put behind what a channel keeps.
LEMMA ForwardedIs ==
    ASSUME NEW S, NEW ch \in Seq(S), NEW msg \in S, InLine(ch), Len(ch) <= PathLength,
           msg \notin Ends => Rises(msg), Below(Items(ch), Carried(msg))
    PROVE  /\ Forwarded(ch, msg) \in Seq(S) /\ InLine(Forwarded(ch, msg))
           /\ Len(Forwarded(ch, msg)) <= PathLength
           /\ Items(Forwarded(ch, msg)) = Items(Kept(ch)) \cup Carried(msg)
           /\ Items(ch) = Discarded(ch) \cup Items(Kept(ch))
           /\ Below(Discarded(ch), Items(Kept(ch)))
           /\ HasRoom(ch) /\ ~discards => Forwarded(ch, msg) = Append(ch, msg) /\ Discarded(ch) = {}
                                          /\ Kept(ch) = ch
  <1>1. /\ Kept(ch) \in Seq(S) /\ InLine(Kept(ch)) /\ Len(Kept(ch)) < PathLength
        /\ Items(ch) = Discarded(ch) \cup Items(Kept(ch))
        /\ Below(Discarded(ch), Items(Kept(ch)))
        /\ Forwarded(ch, msg) = Append(Kept(ch), msg)
        /\ HasRoom(ch) /\ ~discards => Kept(ch) = ch /\ Discarded(ch) = {}
    BY KeptIs
  <1>2. Below(Items(Kept(ch)), Carried(msg))
    BY <1>1 DEF Below
  <1>3. /\ Append(Kept(ch), msg) \in Seq(S) /\ InLine(Append(Kept(ch), msg))
        /\ Items(Append(Kept(ch), msg)) = Items(Kept(ch)) \cup Carried(msg)
        /\ Len(Append(Kept(ch), msg)) = Len(Kept(ch)) + 1 /\ Len(Kept(ch)) \in Nat
    BY <1>1, <1>2, ItemsAppend
  <1>4. Len(Append(Kept(ch), msg)) <= PathLength
    BY <1>1, <1>3, PathAssumption
  <1> QED BY <1>1, <1>3, <1>4

\* What BatchOp and the writer pass on is newer than what is before them.
LEMMA NewerBehind ==
    ASSUME PathTypes, OrderInv, PlacesInv(At, inputs, discards)
    PROVE  /\ Below(Items(toWriter), Items(owed)) /\ Below(ToSet(written), Items(toWriter))
           /\ Below(Items(queue["main"]), ToSet(written))
           /\ Below(Items(queue["main"]), Items(toWriter))
           /\ Below(ToSet(FlattenSeq(taken["main"])), Items(queue["main"]))
           /\ Below(ToSet(FlattenSeq(taken["resend"])), Items(queue["resend"]))
           /\ Below(ToSet(FlattenSeq(taken["main"])), ToSet(held["main"]))
           /\ Below(ToSet(FlattenSeq(taken["resend"])), ToSet(held["resend"]))
           /\ Below(Items(queue["resend"]), Items(queue["main"]))
  <1> DEFINE B(p, q) == Below(At[p], At[q])
  <1>1. inputs \in Nat
    BY PathAssumption DEF PathTypes
  <1>2. \A p, q \in Places : Before(p, q, discards) => B(p, q)
    BY <1>1, PlacesAre
  <1>3. /\ Before("toWriter", "owed", discards) /\ Before("written", "toWriter", discards)
        /\ Before("queueM", "written", discards) /\ Before("queueM", "toWriter", discards)
        /\ Before("takenM", "queueM", discards)
        /\ Before("takenR", "queueR", discards) /\ Before("takenM", "heldM", discards)
        /\ Before("takenR", "heldR", discards) /\ Before("queueR", "queueM", discards)
    BY RankIs DEF Before
  <1>4. {"toWriter", "owed", "written", "queueM", "takenM", "takenR", "queueR", "heldM", "heldR"}
            \subseteq Places
    BY DEF Places
  <1>5. /\ B("toWriter", "owed") /\ B("written", "toWriter") /\ B("queueM", "written")
        /\ B("queueM", "toWriter") /\ B("takenM", "queueM") /\ B("takenR", "queueR")
        /\ B("takenM", "heldM") /\ B("takenR", "heldR") /\ B("queueR", "queueM")
    <2> HIDE DEF B
    <2> QED BY <1>2, <1>3, <1>4
  <1> QED BY <1>5, AtIs

\* The types, across a step of BatchOp.
LEMMA TypesByBatchOp ==
    ASSUME PathTypes, OrderInv, PlacesInv(At, inputs, discards),
           IngestItem \/ IngestEof \/ Linger \/ SendOwed
    PROVE  PathTypes'
  <1>1. /\ owed \in Seq(Ones \cup Ends) /\ toWriter \in Seq(Ones \cup Ends) /\ inputs \in 0..MaxInputs
        /\ Len(toWriter) <= PathLength /\ currIndex \in Nat /\ inputs \in Nat /\ MaxInputs \in Nat
    BY PathAssumption DEF PathTypes
  <1>2. BatchEnd \in Ends /\ Eof \in Ends
    BY DEF Ends
  <1>3. CASE IngestItem
    <2>1. <<inputs + 1>> \in Ones
      BY <1>1 DEF Ones
    <2>2. \E x \in Ones : owed' = <<x>> \o <<BatchEnd>> \/ owed' = <<x>> \o << >>
      BY <1>3, <2>1 DEF IngestItem
    <2>4. owed' \in Seq(Ones \cup Ends)
      <3>1. PICK x \in Ones : owed' = <<x>> \o <<BatchEnd>> \/ owed' = <<x>> \o << >>
        BY <2>2
      <3>2. /\ <<x>> \in Seq(Ones \cup Ends) /\ <<BatchEnd>> \in Seq(Ones \cup Ends)
            /\ << >> \in Seq(Ones \cup Ends)
        BY <1>2
      <3>3. \A r \in Seq(Ones \cup Ends) : <<x>> \o r \in Seq(Ones \cup Ends)
        BY <3>2, ConcatProperties
      <3> QED BY <3>1, <3>2, <3>3
    <2>3. inputs' \in 0..MaxInputs /\ currIndex' \in Nat
      BY <1>1, <1>3 DEF IngestItem
    <2> QED BY <1>3, <2>4, <2>3 DEF IngestItem, PathTypes, config, sinkVars
  <1>4. CASE IngestEof
    <2>1. owed' \in Seq(Ones \cup Ends)
      BY <1>2, <1>4 DEF IngestEof
    <2> QED BY <1>4, <2>1 DEF IngestEof, PathTypes, config, sinkVars
  <1>5. CASE Linger
    <2>1. owed' \in Seq(Ones \cup Ends)
      BY <1>2, <1>5 DEF Linger
    <2> QED BY <1>5, <2>1 DEF Linger, PathTypes, config, sinkVars
  <1>6. CASE SendOwed
    <2>1. owed # << >> /\ InLine(owed) /\ InLine(toWriter)
      BY <1>6 DEF SendOwed, OrderInv
    <2>2. /\ Tail(owed) \in Seq(Ones \cup Ends) /\ Head(owed) \in Ones \cup Ends
          /\ Items(owed) = Carried(Head(owed)) \cup Items(Tail(owed))
          /\ Head(owed) \notin Ends => Rises(Head(owed))
      BY <1>1, <2>1, ItemsTail
    <2>3. Below(Items(toWriter), Carried(Head(owed)))
      BY <2>2, NewerBehind DEF Below
    <2>4. /\ Forwarded(toWriter, Head(owed)) \in Seq(Ones \cup Ends)
          /\ Len(Forwarded(toWriter, Head(owed))) <= PathLength
      BY <1>1, <2>1, <2>2, <2>3, ForwardedIs
    <2> QED BY <1>6, <2>2, <2>4 DEF SendOwed, PathTypes, config, sinkVars
  <1> QED BY <1>3, <1>4, <1>5, <1>6

\* The writer takes the head of its input.
LEMMA WriterTakes ==
    ASSUME PathTypes, OrderInv, toWriter # << >>
    PROVE  /\ Tail(toWriter) \in Seq(Ones \cup Ends) /\ InLine(Tail(toWriter))
           /\ Len(Tail(toWriter)) <= PathLength
           /\ Head(toWriter) \in Ones \cup Ends
           /\ Items(toWriter) = Carried(Head(toWriter)) \cup Items(Tail(toWriter))
           /\ Below(Carried(Head(toWriter)), Items(Tail(toWriter)))
           /\ Head(toWriter) \in Ends => Carried(Head(toWriter)) = {}
           /\ Head(toWriter) \notin Ends =>
                  /\ Head(toWriter) \in Ones /\ Head(toWriter) \in Seq(Nat) /\ Rises(Head(toWriter))
                  /\ Len(Head(toWriter)) = 1 /\ Carried(Head(toWriter)) = ToSet(Head(toWriter))
  <1>1. toWriter \in Seq(Ones \cup Ends) /\ InLine(toWriter) /\ Len(toWriter) <= PathLength
    BY DEF PathTypes, OrderInv
  <1>2. /\ Tail(toWriter) \in Seq(Ones \cup Ends) /\ InLine(Tail(toWriter))
        /\ Head(toWriter) \in Ones \cup Ends
        /\ Items(toWriter) = Carried(Head(toWriter)) \cup Items(Tail(toWriter))
        /\ Below(Carried(Head(toWriter)), Items(Tail(toWriter)))
        /\ Len(Tail(toWriter)) = Len(toWriter) - 1 /\ Len(toWriter) \in Nat
        /\ Head(toWriter) \notin Ends => Rises(Head(toWriter))
    BY <1>1, ItemsTail
  <1>3. Len(Tail(toWriter)) <= PathLength
    BY <1>1, <1>2, PathAssumption
  <1>4. ASSUME Head(toWriter) \notin Ends
        PROVE  /\ Head(toWriter) \in Ones /\ Head(toWriter) \in Seq(Nat)
               /\ Len(Head(toWriter)) = 1 /\ Carried(Head(toWriter)) = ToSet(Head(toWriter))
    <2>1. PICK i \in Nat : Head(toWriter) = <<i>>
      BY <1>2, <1>4 DEF Ones
    <2>2. <<i>> \in Ones /\ Len(<<i>>) = 1 /\ <<i>> \in Seq(Nat)
      BY EndsApart
    <2>3. Carried(<<i>>) = ToSet(<<i>>)
      BY <2>2, EndsApart
    <2> QED BY <2>1, <2>2, <2>3
  <1>5. Head(toWriter) \in Ends => Carried(Head(toWriter)) = {}
    BY EndsApart
  <1> QED BY <1>2, <1>3, <1>4, <1>5

\* The writer passes something on to the sink.
LEMMA WriterSends ==
    ASSUME PathTypes, OrderInv, PlacesInv(At, inputs, discards), NEW msg \in {written, Eof},
           msg = written => written # << >>
    PROVE  /\ Forwarded(queue["main"], msg) \in Seq(Rows \cup {Eof})
           /\ InLine(Forwarded(queue["main"], msg))
           /\ Len(Forwarded(queue["main"], msg)) <= PathLength
           /\ Items(Forwarded(queue["main"], msg)) = Items(Kept(queue["main"])) \cup Carried(msg)
           /\ Items(queue["main"]) = Discarded(queue["main"]) \cup Items(Kept(queue["main"]))
           /\ Below(Discarded(queue["main"]), Items(Kept(queue["main"])))
           /\ HasRoom(queue["main"]) /\ ~discards =>
                  /\ Forwarded(queue["main"], msg) = Append(queue["main"], msg)
                  /\ Discarded(queue["main"]) = {} /\ Kept(queue["main"]) = queue["main"]
           /\ Carried(Eof) = {} /\ Carried(written) = ToSet(written)
  <1>1. queue["main"] \in Seq(Rows \cup {Eof}) /\ Len(queue["main"]) <= PathLength
        /\ InLine(queue["main"]) /\ written \in Seq(Nat) /\ Rises(written)
    BY SinksAre DEF PathTypes, OrderInv
  <1>2. Carried(Eof) = {} /\ Carried(written) = ToSet(written) /\ Eof \in Ends
    BY <1>1, EndsApart DEF Ends
  <1>3. msg \in Rows \cup {Eof}
    BY <1>1 DEF Rows
  <1>4. Below(Items(queue["main"]), Carried(msg))
    BY <1>2, NewerBehind DEF Below
  <1>5. msg \notin Ends => Rises(msg)
    BY <1>1, <1>2
  <1> QED BY <1>1, <1>2, <1>3, <1>4, <1>5, ForwardedIs

\* The types, across a step of the writer.
LEMMA TypesByWriter ==
    ASSUME PathTypes, OrderInv, PlacesInv(At, inputs, discards), WriterStep
    PROVE  PathTypes'
  <1>1. toWriter # << >>
    BY DEF WriterStep, Write, SkipBatchEnd, FlushBatch, PassEof
  <1>2. /\ Tail(toWriter) \in Seq(Ones \cup Ends) /\ Len(Tail(toWriter)) <= PathLength
        /\ Head(toWriter) \notin Ends => Head(toWriter) \in Seq(Nat)
    BY <1>1, WriterTakes
  <1>3. CASE Write
    <2>1. Head(toWriter) \in Seq(Nat)
      BY <1>2, <1>3 DEF Write, Ends
    <2>2. written' \in Seq(Nat)
      BY <1>3, <2>1 DEF Write, PathTypes
    <2> QED BY <1>2, <1>3, <2>2 DEF Write, PathTypes, config, batchVars, sinkVars
  <1>4. CASE SkipBatchEnd
    BY <1>2, <1>4 DEF SkipBatchEnd, PathTypes, config, batchVars, sinkVars
  <1>5. ASSUME NEW msg \in {written, Eof}, msg = written => written # << >>,
               queue' = [queue EXCEPT !["main"] = Forwarded(queue["main"], msg)]
        PROVE  /\ queue' \in [SinkNodes -> Seq(Rows \cup {Eof})]
               /\ \A s \in SinkNodes : Len(queue'[s]) <= PathLength
    <2>1. /\ Forwarded(queue["main"], msg) \in Seq(Rows \cup {Eof})
          /\ Len(Forwarded(queue["main"], msg)) <= PathLength
      BY <1>5, WriterSends
    <2> QED BY <1>5, <2>1, SinksAre, ExceptOne DEF PathTypes
  <1>6. CASE FlushBatch
    <2>1. /\ queue' \in [SinkNodes -> Seq(Rows \cup {Eof})]
          /\ \A s \in SinkNodes : Len(queue'[s]) <= PathLength
      BY <1>5, <1>6 DEF FlushBatch
    <2>2. written' \in Seq(Nat)
      BY <1>6 DEF FlushBatch
    <2> QED BY <1>2, <1>6, <2>1, <2>2 DEF FlushBatch, PathTypes, config, batchVars, sinkVars
  <1>7. CASE PassEof
    <2>0. Eof # written
      BY EndsApart DEF PathTypes, Ends
    <2>1. /\ queue' \in [SinkNodes -> Seq(Rows \cup {Eof})]
          /\ \A s \in SinkNodes : Len(queue'[s]) <= PathLength
      BY <1>5, <1>7, <2>0 DEF PassEof
    <2> QED BY <1>2, <1>7, <2>1 DEF PassEof, PathTypes, config, batchVars, sinkVars
  <1> QED BY <1>3, <1>4, <1>6, <1>7 DEF WriterStep

\* The alternative queue takes what the first sink gave up.
LEMMA Rerouted ==
    ASSUME PathTypes, OrderInv, PlacesInv(At, inputs, discards), Reroute
    PROVE  /\ queue' \in [SinkNodes -> Seq(Rows \cup {Eof})]
           /\ \A s \in SinkNodes : Len(queue'[s]) <= PathLength
           /\ queue'["main"] = Tail(queue["main"])
           /\ InLine(queue'["resend"])
           /\ \/ /\ lost' = lost
                 /\ Items(queue'["resend"]) = Items(queue["resend"]) \cup ToSet(Head(queue["main"]))
              \/ /\ lost' = lost \cup ToSet(Head(queue["main"]))
                 /\ Items(queue'["resend"]) = Items(queue["resend"])
           /\ ToSet(queue'["resend"]) \subseteq ToSet(queue["resend"]) \cup {Head(queue["main"])}
  <1> DEFINE batch == Head(queue["main"])
             hasRoom == Len(queue["resend"]) < PathLength
             new == IF hasRoom THEN Append(queue["resend"], batch) ELSE queue["resend"]
  <1>1. Takes("main") /\ batch # Eof
    BY DEF Reroute
  <1>2. /\ Tail(queue["main"]) \in Seq(Rows \cup {Eof}) /\ Len(Tail(queue["main"])) <= PathLength
        /\ batch \in Rows /\ Rises(batch) /\ Carried(batch) = ToSet(batch)
        /\ Items(queue["main"]) = ToSet(batch) \cup Items(Tail(queue["main"]))
    BY <1>1, SinksAre, TakesOne
  <1>3. queue["resend"] \in Seq(Rows \cup {Eof}) /\ Len(queue["resend"]) <= PathLength
        /\ InLine(queue["resend"])
    BY SinksAre DEF PathTypes, OrderInv
  <1>4. Below(Items(queue["resend"]), Carried(batch))
    BY <1>2, NewerBehind DEF Below
  <1>5. /\ Append(queue["resend"], batch) \in Seq(Rows \cup {Eof})
        /\ InLine(Append(queue["resend"], batch))
        /\ Items(Append(queue["resend"], batch)) = Items(queue["resend"]) \cup Carried(batch)
        /\ Len(Append(queue["resend"], batch)) = Len(queue["resend"]) + 1
        /\ Len(queue["resend"]) \in Nat
    <2>1. batch \in Rows \cup {Eof}
      BY <1>2
    <2> HIDE DEF batch
    <2> QED BY <1>2, <1>3, <1>4, <2>1, ItemsAppend
  <1>6. /\ new \in Seq(Rows \cup {Eof}) /\ Len(new) <= PathLength /\ InLine(new)
        /\ hasRoom => Items(new) = Items(queue["resend"]) \cup ToSet(batch)
    <2>1. CASE hasRoom
      BY <1>2, <1>5, <2>1, PathAssumption
    <2>2. CASE ~hasRoom
      BY <1>3, <2>2
    <2> QED BY <2>1, <2>2
  <1>7. ToSet(new) \subseteq ToSet(queue["resend"]) \cup {batch}
    <2> HIDE DEF batch
    <2>1. ToSet(Append(queue["resend"], batch)) \subseteq ToSet(queue["resend"]) \cup {batch}
      BY <1>2, <1>3 DEF ToSet
    <2> QED BY <2>1
  <1>8. /\ queue' = [queue EXCEPT !["main"] = Tail(queue["main"]), !["resend"] = new]
        /\ lost' = IF hasRoom THEN lost ELSE lost \cup ToSet(batch)
    BY DEF Reroute
  <1>9. new = queue["resend"] \/ hasRoom
    OBVIOUS
  <1> DEFINE rest == Tail(queue["main"])
  <1> HIDE DEF new, hasRoom, batch, rest
  <1>10. queue' = [queue EXCEPT !["main"] = rest, !["resend"] = new]
    BY <1>8 DEF rest
  <1>11. /\ rest \in Seq(Rows \cup {Eof}) /\ Len(rest) <= PathLength
         /\ new \in Seq(Rows \cup {Eof}) /\ Len(new) <= PathLength
         /\ queue \in [SinkNodes -> Seq(Rows \cup {Eof})]
    BY <1>2, <1>6 DEF rest, PathTypes
  <1>12. /\ queue' \in [SinkNodes -> Seq(Rows \cup {Eof})]
         /\ queue'["main"] = rest /\ queue'["resend"] = new
    BY <1>10, <1>11 DEF SinkNodes
  <1>13. \A s \in SinkNodes : Len(queue'[s]) <= PathLength
    BY <1>11, <1>12, SinksAre
  <1>14. queue'["main"] = Tail(queue["main"])
    BY <1>12 DEF rest
  <1>15. \/ lost' = lost /\ Items(new) = Items(queue["resend"]) \cup ToSet(batch)
         \/ lost' = lost \cup ToSet(batch) /\ Items(new) = Items(queue["resend"])
    BY <1>6, <1>8, <1>9
  <1> QED BY <1>6, <1>7, <1>12, <1>13, <1>14, <1>15 DEF batch

\* What a step of a sink does to its input, its hands and what was taken.
LEMMA SinkEffect ==
    ASSUME PathTypes, OrderInv, NEW s \in SinkNodes, SinkStep(s)
    PROVE  /\ queue' \in [SinkNodes -> Seq(Rows \cup {Eof})]
           /\ \A r \in SinkNodes : Len(queue'[r]) <= PathLength
           /\ held' \in [SinkNodes -> Seq(Nat)]
           /\ taken' \in [SinkNodes -> Seq(Rows)]
           /\ \A r \in SinkNodes \ {s} :
                  queue'[r] = queue[r] /\ held'[r] = held[r] /\ taken'[r] = taken[r]
           /\ UNCHANGED <<config, batchVars, toWriter, written, heardEof>>
           /\ \/ /\ Takes(s) /\ Head(queue[s]) # Eof /\ queue'[s] = Tail(queue[s])
                 /\ \/ /\ taken'[s] = Append(taken[s], Head(queue[s]))
                       /\ held'[s] = held[s] /\ lost' = lost
                    \/ held'[s] = Head(queue[s]) /\ taken'[s] = taken[s] /\ lost' = lost
                    \/ /\ lost' = lost \cup ToSet(Head(queue[s])) /\ ~(Retries(s) /\ ioErrors)
                       /\ held'[s] = held[s] /\ taken'[s] = taken[s]
              \/ /\ held[s] \in Rows /\ queue'[s] = queue[s] /\ held'[s] = << >>
                 /\ \/ taken'[s] = Append(taken[s], held[s]) /\ lost' = lost
                    \/ /\ lost' = lost \cup ToSet(held[s]) /\ taken'[s] = taken[s] /\ ~ioErrors
  <1>1. /\ queue \in [SinkNodes -> Seq(Rows \cup {Eof})] /\ \A r \in SinkNodes : Len(queue[r]) <= PathLength
        /\ held \in [SinkNodes -> Seq(Nat)] /\ taken \in [SinkNodes -> Seq(Rows)]
    BY DEF PathTypes
  <1>2. ASSUME Takes(s), Head(queue[s]) # Eof
        PROVE  /\ Tail(queue[s]) \in Seq(Rows \cup {Eof}) /\ Len(Tail(queue[s])) <= PathLength
               /\ Head(queue[s]) \in Rows /\ Head(queue[s]) \in Seq(Nat)
               /\ Append(taken[s], Head(queue[s])) \in Seq(Rows)
    <2>1. /\ Tail(queue[s]) \in Seq(Rows \cup {Eof}) /\ Len(Tail(queue[s])) <= PathLength
          /\ Head(queue[s]) \in Rows /\ Head(queue[s]) \in Seq(Nat)
      BY <1>2, TakesOne
    <2> QED BY <1>1, <2>1
  <1>3. ASSUME held[s] # << >>
        PROVE  held[s] \in Rows /\ Append(taken[s], held[s]) \in Seq(Rows) /\ << >> \in Seq(Nat)
    BY <1>1, <1>3 DEF Rows
  <1> DEFINE q == [queue EXCEPT ![s] = Tail(queue[s])]
  <1>4. ASSUME Takes(s), Head(queue[s]) # Eof
        PROVE  /\ q \in [SinkNodes -> Seq(Rows \cup {Eof})] /\ q[s] = Tail(queue[s])
               /\ \A r \in SinkNodes \ {s} : q[r] = queue[r]
               /\ \A r \in SinkNodes : Len(q[r]) <= PathLength
    BY <1>1, <1>2, <1>4, ExceptOne
  <1> HIDE DEF q
  <1>5. CASE CollectBatch(s)
    <2>1. /\ Takes(s) /\ Head(queue[s]) # Eof /\ queue' = q /\ held' = held /\ lost' = lost
          /\ taken' = [taken EXCEPT ![s] = Append(taken[s], Head(queue[s]))]
          /\ UNCHANGED <<config, batchVars, toWriter, written, heardEof>>
      BY <1>5 DEF CollectBatch, q
    <2>2. /\ taken' \in [SinkNodes -> Seq(Rows)] /\ taken'[s] = Append(taken[s], Head(queue[s]))
          /\ \A r \in SinkNodes \ {s} : taken'[r] = taken[r]
      BY <1>1, <1>2, <2>1, ExceptOne
    <2> QED BY <1>1, <1>4, <2>1, <2>2
  <1>6. CASE CollectFails(s)
    <2>1. /\ Takes(s) /\ Head(queue[s]) # Eof /\ queue' = q /\ taken' = taken /\ lost' = lost
          /\ held' = [held EXCEPT ![s] = Head(queue[s])]
          /\ UNCHANGED <<config, batchVars, toWriter, written, heardEof>>
      BY <1>6 DEF CollectFails, q
    <2>2. /\ held' \in [SinkNodes -> Seq(Nat)] /\ held'[s] = Head(queue[s])
          /\ \A r \in SinkNodes \ {s} : held'[r] = held[r]
      BY <1>1, <1>2, <2>1, ExceptOne
    <2> QED BY <1>1, <1>4, <2>1, <2>2
  <1>7. CASE DropFailed(s)
    <2>1. /\ Takes(s) /\ Head(queue[s]) # Eof /\ queue' = q /\ taken' = taken /\ held' = held
          /\ lost' = lost \cup ToSet(Head(queue[s])) /\ ~(Retries(s) /\ ioErrors)
          /\ UNCHANGED <<config, batchVars, toWriter, written, heardEof>>
      BY <1>7 DEF DropFailed, q, sinkVars
    <2> QED BY <1>1, <1>4, <2>1
  <1>8. CASE Retry(s)
    <2>1. /\ held[s] # << >> /\ queue' = queue /\ lost' = lost
          /\ taken' = [taken EXCEPT ![s] = Append(taken[s], held[s])]
          /\ held' = [held EXCEPT ![s] = << >>]
          /\ UNCHANGED <<config, batchVars, toWriter, written, heardEof>>
      BY <1>8 DEF Retry
    <2>2. /\ taken' \in [SinkNodes -> Seq(Rows)] /\ taken'[s] = Append(taken[s], held[s])
          /\ \A r \in SinkNodes \ {s} : taken'[r] = taken[r]
      BY <1>1, <1>3, <2>1, ExceptOne
    <2>3. /\ held' \in [SinkNodes -> Seq(Nat)] /\ held'[s] = << >>
          /\ \A r \in SinkNodes \ {s} : held'[r] = held[r]
      BY <1>1, <1>3, <2>1, ExceptOne
    <2> QED BY <1>1, <1>3, <2>1, <2>2, <2>3
  <1>9. CASE GiveUp(s)
    <2>1. /\ held[s] # << >> /\ queue' = queue /\ taken' = taken /\ ~ioErrors
          /\ lost' = lost \cup ToSet(held[s])
          /\ held' = [held EXCEPT ![s] = << >>]
          /\ UNCHANGED <<config, batchVars, toWriter, written, heardEof>>
      BY <1>9 DEF GiveUp
    <2>2. /\ held' \in [SinkNodes -> Seq(Nat)] /\ held'[s] = << >>
          /\ \A r \in SinkNodes \ {s} : held'[r] = held[r]
      BY <1>1, <1>3, <2>1, ExceptOne
    <2> QED BY <1>1, <1>3, <2>1, <2>2
  <1> QED BY <1>5, <1>6, <1>7, <1>8, <1>9 DEF SinkStep

\* The types, across every step.
LEMMA TypesKept ==
    ASSUME PathTypes, OrderInv, PlacesInv(At, inputs, discards), PathNext
    PROVE  PathTypes'
  <1>1. CASE \E s \in SinkNodes : SinkStep(s)
    <2>1. PICK s \in SinkNodes : SinkStep(s)
      BY <1>1
    <2>2. /\ queue' \in [SinkNodes -> Seq(Rows \cup {Eof})]
          /\ \A r \in SinkNodes : Len(queue'[r]) <= PathLength
          /\ held' \in [SinkNodes -> Seq(Nat)] /\ taken' \in [SinkNodes -> Seq(Rows)]
          /\ UNCHANGED <<config, batchVars, toWriter, written, heardEof>>
      BY <2>1, SinkEffect
    <2> QED BY <2>2 DEF PathTypes, config, batchVars
  <1>2. CASE Reroute
    <2>1. /\ queue' \in [SinkNodes -> Seq(Rows \cup {Eof})]
          /\ \A r \in SinkNodes : Len(queue'[r]) <= PathLength
      BY <1>2, Rerouted
    <2> QED BY <1>2, <2>1 DEF Reroute, PathTypes, config, batchVars, sinkVars
  <1>3. CASE HearEof
    <2>1. Takes("main") /\ queue' = [queue EXCEPT !["main"] = Tail(queue["main"])]
      BY <1>3 DEF HearEof
    <2>2. Tail(queue["main"]) \in Seq(Rows \cup {Eof}) /\ Len(Tail(queue["main"])) <= PathLength
      BY <2>1, SinksAre, TakesOne
    <2>3. /\ queue' \in [SinkNodes -> Seq(Rows \cup {Eof})]
          /\ \A r \in SinkNodes : Len(queue'[r]) <= PathLength
      BY <2>1, <2>2, SinksAre, ExceptOne DEF PathTypes
    <2> QED BY <1>3, <2>3 DEF HearEof, PathTypes, config, batchVars
  <1> QED BY <1>1, <1>2, <1>3, TypesByBatchOp, TypesByWriter DEF PathNext

-----------------------------------------------------------------------------
(* Each step moves items from one place to the next.                       *)

LEMMA SmallLists ==
    ASSUME NEW S, NEW a \in S, NEW b \in S
    PROVE  /\ Append(<< >>, a) = <<a>>
           /\ <<a>> \o << >> = <<a>> /\ <<a>> \o <<b>> = Append(<<a>>, b)
  <1>1. <<a>> \in Seq(S) /\ << >> \in Seq(S) /\ <<b>> \in Seq(S)
    OBVIOUS
  <1>2. Append(<< >>, a) = <<a>>
    OBVIOUS
  <1>3. <<a>> \o << >> = <<a>>
    BY <1>1, ConcatEmptySeq
  <1>4. <<a>> \o <<b>> = Append(<<a>>, b)
    OBVIOUS
  <1> QED BY <1>2, <1>3, <1>4

LEMMA EndsInLine ==
    ASSUME NEW a \in Seq(Ends)
    PROVE  InLine(a) /\ Items(a) = {}
  <1>1. \A i \in DOMAIN a : a[i] \in Ends
    OBVIOUS
  <1>2. \A i \in DOMAIN a : Carried(a[i]) = {}
    BY <1>1, EndsApart
  <1> QED BY <1>1, <1>2 DEF InLine, Items, Below

LEMMA OneInLine ==
    ASSUME NEW S, NEW x \in S, x \notin Ends, Rises(x), NEW e \in S, e \in Ends
    PROVE  /\ InLine(<<x>> \o << >>) /\ Items(<<x>> \o << >>) = Carried(x)
           /\ InLine(<<x>> \o <<e>>) /\ Items(<<x>> \o <<e>>) = Carried(x)
  <1>1. <<x>> \o << >> = <<x>> /\ <<x>> \o <<e>> = Append(<<x>>, e)
    BY SmallLists
  <1>2. <<x>> \in Seq(S) /\ DOMAIN <<x>> = {1} /\ <<x>>[1] = x
    OBVIOUS
  <1>3. InLine(<<x>>)
    BY <1>2 DEF InLine
  <1>4. Items(<<x>>) = Carried(x)
    BY <1>2 DEF Items
  <1>5. Carried(e) = {} /\ (e \notin Ends => Rises(e))
    BY EndsApart
  <1>6. Below(Items(<<x>>), Carried(e))
    BY <1>5 DEF Below
  <1> DEFINE one == <<x>>
  <1>7. one \in Seq(S) /\ InLine(one) /\ Items(one) = Carried(x) /\ Below(Items(one), Carried(e))
    BY <1>2, <1>3, <1>4, <1>6
  <1>8. one \o << >> = one /\ one \o <<e>> = Append(one, e)
    BY <1>1
  <1> HIDE DEF one
  <1>9. InLine(Append(one, e)) /\ Items(Append(one, e)) = Items(one) \cup Carried(e)
    <2>1. /\ one \in Seq(S) /\ e \in S /\ InLine(one) /\ (e \notin Ends => Rises(e))
          /\ Below(Items(one), Carried(e))
      BY <1>5, <1>7
    <2> QED BY <2>1, ItemsAppend, ZenonT(60)
  <1>10. /\ InLine(one \o << >>) /\ Items(one \o << >>) = Carried(x)
         /\ InLine(one \o <<e>>) /\ Items(one \o <<e>>) = Carried(x)
    BY <1>5, <1>7, <1>8, <1>9
  <1> QED BY <1>10 DEF one

\* The messages that BatchOp may owe.
LEMMA ShortLines ==
    /\ InLine(<< >>) /\ Items(<< >>) = {}
    /\ InLine(<<BatchEnd>>) /\ Items(<<BatchEnd>>) = {}
    /\ InLine(<<BatchEnd, Eof>>) /\ Items(<<BatchEnd, Eof>>) = {}
    /\ \A i \in Nat : /\ InLine(<<<<i>>>> \o << >>) /\ Items(<<<<i>>>> \o << >>) = {i}
                      /\ InLine(<<<<i>>>> \o <<BatchEnd>>) /\ Items(<<<<i>>>> \o <<BatchEnd>>) = {i}
  <1> DEFINE S == Ones \cup Ends
  <1>1. BatchEnd \in Ends /\ Eof \in Ends /\ Carried(BatchEnd) = {} /\ Carried(Eof) = {}
        /\ BatchEnd \in S /\ Eof \in S
    BY EndsApart DEF Ends
  <1>2. << >> \in Seq(Ends) /\ <<BatchEnd>> \in Seq(Ends) /\ <<BatchEnd, Eof>> \in Seq(Ends)
        /\ << >> \in Seq(S)
    BY <1>1
  <1>3. /\ InLine(<< >>) /\ Items(<< >>) = {}
        /\ InLine(<<BatchEnd>>) /\ Items(<<BatchEnd>>) = {}
        /\ InLine(<<BatchEnd, Eof>>) /\ Items(<<BatchEnd, Eof>>) = {}
    BY <1>2, EndsInLine
  <1>7. ASSUME NEW i \in Nat
        PROVE  /\ InLine(<<<<i>>>> \o << >>) /\ Items(<<<<i>>>> \o << >>) = {i}
               /\ InLine(<<<<i>>>> \o <<BatchEnd>>) /\ Items(<<<<i>>>> \o <<BatchEnd>>) = {i}
    <2>1. <<i>> \in S /\ <<i>> \notin Ends /\ Rises(<<i>>) /\ Carried(<<i>>) = {i}
      BY EndsApart DEF Rows
    <2>2. /\ InLine(<<<<i>>>> \o << >>) /\ Items(<<<<i>>>> \o << >>) = {i}
          /\ InLine(<<<<i>>>> \o <<BatchEnd>>) /\ Items(<<<<i>>>> \o <<BatchEnd>>) = {i}
      BY <1>1, <2>1, OneInLine
    <2> QED BY <2>2
  <1> QED BY <1>3, <1>7

\* A newer batch behind those that a sink has handed over.
LEMMA TakenAppend ==
    ASSUME NEW t \in Seq(Rows), NEW b \in Rows, Rises(FlattenSeq(t)), Rises(b),
           Below(ToSet(FlattenSeq(t)), ToSet(b))
    PROVE  /\ Rises(FlattenSeq(Append(t, b)))
           /\ ToSet(FlattenSeq(Append(t, b))) = ToSet(FlattenSeq(t)) \cup ToSet(b)
  <1>1. t \in Seq(Seq(Nat)) /\ b \in Seq(Nat)
    BY DEF Rows
  <1>2. FlattenSeq(Append(t, b)) = FlattenSeq(t) \o b
    BY <1>1, FlattenAppend
  <1>3. FlattenSeq(t) \in Seq(Nat)
    BY <1>1, FlattenType
  <1> QED BY <1>1, <1>2, <1>3, RisesConcat

\* The places before the sinks.
LEMMA PlacesOfSinksSame ==
    ASSUME UNCHANGED <<queue, held, taken>>
    PROVE  \A q \in Places \ {"written", "toWriter", "owed", "lost"} : At'[q] = At[q]
  BY AtIs, AtIsNext DEF Places

\* Places and order, across a step of BatchOp.
LEMMA BatchOpKeeps ==
    ASSUME PathTypes, OrderInv, PlacesInv(At, inputs, discards),
           IngestItem \/ IngestEof \/ Linger \/ SendOwed
    PROVE  OrderInv' /\ PlacesInv(At', inputs', discards')
  <1>1. inputs \in Nat /\ discards \in BOOLEAN /\ owed \in Seq(Ones \cup Ends)
    BY PathAssumption DEF PathTypes
  <1>2. UNCHANGED <<written, queue, held, taken, discards>>
    BY DEF IngestItem, IngestEof, Linger, SendOwed, config, sinkVars
  <1>3. /\ \A q \in Places \ {"written", "toWriter", "owed", "lost"} : At'[q] = At[q]
        /\ At'["written"] = At["written"]
    BY <1>2, PlacesOfSinksSame, AtIs, AtIsNext
  <1>4. InLine(toWriter') /\ InLine(owed') => OrderInv'
    BY <1>2 DEF OrderInv
  <1>5. "written" \in Places /\ "toWriter" \in Places /\ "owed" \in Places /\ "lost" \in Places
    BY DEF Places
  <1>6. ASSUME IngestItem \/ IngestEof \/ Linger
        PROVE  At["owed"] = {} /\ At'["toWriter"] = At["toWriter"] /\ At'["lost"] = At["lost"]
               /\ InLine(toWriter')
    <2>1. owed = << >> /\ toWriter' = toWriter /\ lost' = lost
      BY <1>6 DEF IngestItem, IngestEof, Linger
    <2>2. At["owed"] = {}
      BY <2>1, AtIs, ShortLines
    <2> QED BY <2>1, <2>2, AtIs, AtIsNext DEF OrderInv
  <1>7. CASE IngestItem
    <2>1. inputs' = inputs + 1 /\ \/ owed' = <<<<inputs + 1>>>> \o <<BatchEnd>>
                                  \/ owed' = <<<<inputs + 1>>>> \o << >>
      BY <1>7 DEF IngestItem
    <2>2. InLine(owed') /\ Items(owed') = {inputs + 1}
      <3>1. inputs + 1 \in Nat
        BY <1>1
      <3> DEFINE i == inputs + 1
      <3>2. /\ InLine(<<<<i>>>> \o << >>) /\ Items(<<<<i>>>> \o << >>) = {i}
            /\ InLine(<<<<i>>>> \o <<BatchEnd>>) /\ Items(<<<<i>>>> \o <<BatchEnd>>) = {i}
        BY <3>1, ShortLines
      <3> QED BY <2>1, <3>2
    <2>3. At'["owed"] = {inputs + 1} /\ \A q \in Places \ {"owed"} : At'[q] = At[q]
      BY <1>3, <1>6, <1>7, <2>2, AtIsNext
    <2>4. PlacesInv(At', inputs + 1, discards)
      BY <1>1, <1>6, <1>7, <2>3, AddKeeps
    <2> QED BY <1>2, <1>4, <1>6, <1>7, <2>1, <2>2, <2>4
  <1>8. CASE IngestEof \/ Linger
    <2>1. inputs' = inputs /\ (owed' = <<BatchEnd, Eof>> \/ owed' = <<BatchEnd>>)
      BY <1>8 DEF IngestEof, Linger
    <2>2. InLine(owed') /\ Items(owed') = {}
      BY <2>1, ShortLines
    <2>3. \A q \in Places : At'[q] = At[q]
      BY <1>3, <1>6, <1>8, <2>2, AtIsNext
    <2>4. PlacesInv(At', inputs, discards)
      BY <2>3, SameKeeps
    <2> QED BY <1>2, <1>4, <1>6, <1>8, <2>1, <2>2, <2>4
  <1>9. CASE SendOwed
    <2>1. owed # << >> /\ InLine(owed) /\ InLine(toWriter) /\ inputs' = inputs
      BY <1>9 DEF SendOwed, OrderInv
    <2>2. /\ InLine(Tail(owed)) /\ Head(owed) \in Ones \cup Ends
          /\ Items(owed) = Carried(Head(owed)) \cup Items(Tail(owed))
          /\ Below(Carried(Head(owed)), Items(Tail(owed)))
          /\ Head(owed) \notin Ends => Rises(Head(owed))
      BY <1>1, <2>1, ItemsTail
    <2>3. Below(Items(toWriter), Carried(Head(owed)))
      BY <2>2, NewerBehind DEF Below
    <2>4. toWriter \in Seq(Ones \cup Ends) /\ Len(toWriter) <= PathLength
      BY DEF PathTypes
    <2>5. /\ toWriter' = Forwarded(toWriter, Head(owed)) /\ owed' = Tail(owed)
          /\ lost' = lost \cup Discarded(toWriter) /\ HasRoom(toWriter)
      BY <1>9 DEF SendOwed
    <2>6. /\ InLine(toWriter') /\ Items(toWriter') = Items(Kept(toWriter)) \cup Carried(Head(owed))
          /\ Items(toWriter) = Discarded(toWriter) \cup Items(Kept(toWriter))
          /\ Below(Discarded(toWriter), Items(Kept(toWriter)))
          /\ ~discards => Discarded(toWriter) = {}
      BY <2>1, <2>2, <2>3, <2>4, <2>5, ForwardedIs
    <2> DEFINE X == Discarded(toWriter)
               K == Items(Kept(toWriter))
               O == [q \in Places |-> IF q = "toWriter" THEN K
                                      ELSE IF q = "lost" THEN lost \cup X ELSE At[q]]
    <2>7. PlacesInv(O, inputs, discards)
      <3>1. /\ O["toWriter"] = K /\ O["lost"] = lost \cup X
            /\ \A q \in Places \ {"toWriter", "lost"} : O[q] = At[q]
        BY <1>5
      <3>2. At["toWriter"] = X \cup K /\ At["lost"] = lost /\ Below(X, K) /\ (~discards => X = {})
        BY <2>6, AtIs
      <3> HIDE DEF X, K, O
      <3>3. CASE discards
        <4>1. Passes("toWriter", "lost", {}, discards)
          BY <3>3, WaysToLose
        <4>2. O["lost"] = At["lost"] \cup X
          BY <3>1, <3>2
        <4>3. Moves(At, O, "toWriter", "lost", X, K)
          BY <3>1, <3>2, <4>2 DEF Moves
        <4> QED BY <1>1, <1>5, <4>1, <4>3, MoveOn
      <3>4. CASE ~discards
        <4>1. \A q \in Places : O[q] = At[q]
          BY <3>1, <3>2, <3>4
        <4> QED BY <4>1, SameKeeps
      <3> QED BY <3>3, <3>4
    <2>8. PlacesInv(At', inputs, discards)
      <3> DEFINE Y == Items(Tail(owed))
                 Z == Carried(Head(owed))
      <3>1. O["owed"] = Z \cup Y /\ Below(Z, Y)
        BY <1>5, <2>2, AtIs
      <3>2. At'["owed"] = Y /\ At'["toWriter"] = O["toWriter"] \cup Z
        BY <1>5, <2>5, <2>6, AtIsNext
      <3>3. \A q \in Places \ {"owed", "toWriter"} : At'[q] = O[q]
        BY <1>3, <1>5, <2>5, AtIsNext
      <3>4. Passes("owed", "toWriter", {}, discards)
        BY <1>1, WaysToPass
      <3> HIDE DEF Y, Z, O
      <3>5. Moves(O, At', "owed", "toWriter", Z, Y)
        BY <3>1, <3>2, <3>3 DEF Moves
      <3> QED BY <1>1, <1>5, <2>7, <3>4, <3>5, MoveOn
    <2> QED BY <1>2, <1>4, <2>1, <2>2, <2>5, <2>6, <2>8
  <1> QED BY <1>7, <1>8, <1>9

\* Places and order, across a step of the writer.
LEMMA WriterKeeps ==
    ASSUME PathTypes, OrderInv, PlacesInv(At, inputs, discards), WriterStep
    PROVE  OrderInv' /\ PlacesInv(At', inputs', discards')
  <1>1. inputs \in Nat /\ discards \in BOOLEAN /\ written \in Seq(Nat)
    BY PathAssumption DEF PathTypes
  <1>2. /\ UNCHANGED <<owed, held, taken, discards, inputs>> /\ queue'["resend"] = queue["resend"]
        /\ toWriter # << >> /\ toWriter' = Tail(toWriter)
    <2>1. \/ queue' = queue
          \/ \E x : queue' = [queue EXCEPT !["main"] = x]
      BY DEF WriterStep, Write, SkipBatchEnd, FlushBatch, PassEof
    <2>2. queue'["resend"] = queue["resend"]
      BY <2>1, SinksAre DEF PathTypes
    <2>3. UNCHANGED <<config, batchVars, sinkVars>> /\ toWriter # << >> /\ toWriter' = Tail(toWriter)
      BY DEF WriterStep, Write, SkipBatchEnd, FlushBatch, PassEof
    <2> QED BY <2>2, <2>3 DEF config, batchVars, sinkVars
  <1>3. /\ InLine(Tail(toWriter))
        /\ Items(toWriter) = Carried(Head(toWriter)) \cup Items(Tail(toWriter))
        /\ Below(Carried(Head(toWriter)), Items(Tail(toWriter)))
        /\ Head(toWriter) \in Ends => Carried(Head(toWriter)) = {}
        /\ Head(toWriter) \notin Ends =>
               /\ Head(toWriter) \in Seq(Nat) /\ Rises(Head(toWriter))
               /\ Carried(Head(toWriter)) = ToSet(Head(toWriter))
    BY <1>2, WriterTakes
  <1>4. /\ At'["owed"] = At["owed"] /\ At'["heldM"] = At["heldM"] /\ At'["heldR"] = At["heldR"]
        /\ At'["takenM"] = At["takenM"] /\ At'["takenR"] = At["takenR"]
        /\ At'["queueR"] = At["queueR"]
        /\ At["toWriter"] = Items(toWriter) /\ At'["toWriter"] = Items(Tail(toWriter))
        /\ At["written"] = ToSet(written) /\ At'["written"] = ToSet(written')
        /\ At["queueM"] = Items(queue["main"]) /\ At'["queueM"] = Items(queue'["main"])
        /\ At["lost"] = lost /\ At'["lost"] = lost'
    BY <1>2, AtIs, AtIsNext
  <1>5. "written" \in Places /\ "toWriter" \in Places /\ "queueM" \in Places /\ "lost" \in Places
    BY DEF Places
  <1>6. ASSUME Rises(written'), InLine(queue'["main"]) PROVE OrderInv'
    <2>1. \A s \in SinkNodes : Rises(FlattenSeq(taken'[s])) /\ Rises(held'[s]) /\ InLine(queue'[s])
      BY <1>2, <1>6, SinksAre DEF OrderInv
    <2> QED BY <1>2, <1>3, <1>6, <2>1 DEF OrderInv
  <1>7. CASE Write
    <2>1. /\ Head(toWriter) \notin Ends /\ written' = written \o Head(toWriter) /\ queue' = queue
          /\ lost' = lost
      BY <1>7 DEF Write, Ends
    <2>2. Below(ToSet(written), ToSet(Head(toWriter)))
      BY <1>3, <2>1, NewerBehind DEF Below
    <2>3. Rises(written') /\ ToSet(written') = ToSet(written) \cup ToSet(Head(toWriter))
      <3>1. Rises(written) /\ Rises(Head(toWriter)) /\ Head(toWriter) \in Seq(Nat)
        BY <1>3, <2>1 DEF OrderInv
      <3> QED BY <1>1, <2>1, <2>2, <3>1, RisesConcat
    <2>4. OrderInv'
      <3>1. InLine(queue'["main"])
        BY <2>1, SinksAre DEF OrderInv
      <3> QED BY <1>6, <2>3, <3>1
    <2> DEFINE X == ToSet(Head(toWriter))
               Y == Items(Tail(toWriter))
    <2>5. Moves(At, At', "toWriter", "written", X, Y)
      <3>1. At["toWriter"] = X \cup Y /\ Below(X, Y) /\ At'["toWriter"] = Y
            /\ At'["written"] = At["written"] \cup X
        BY <1>3, <1>4, <2>1, <2>3
      <3> HIDE DEF X, Y
      <3>2. \A q \in Places \ {"toWriter", "written"} : At'[q] = At[q]
        BY <1>4, <2>1 DEF Places
      <3> QED BY <3>1, <3>2 DEF Moves
    <2>6. Passes("toWriter", "written", {}, discards)
      BY <1>1, WaysToPass
    <2> HIDE DEF X, Y
    <2>7. PlacesInv(At', inputs, discards)
      BY <1>1, <1>5, <2>5, <2>6, MoveOn
    <2> QED BY <1>2, <2>4, <2>7
  <1>8. CASE SkipBatchEnd
    <2>1. Head(toWriter) \in Ends /\ queue' = queue /\ lost' = lost /\ written' = written
      BY <1>8 DEF SkipBatchEnd, Ends
    <2>2. OrderInv'
      BY <1>6, <2>1, SinksAre DEF OrderInv
    <2>3. \A q \in Places : At'[q] = At[q]
      BY <1>3, <1>4, <2>1 DEF Places
    <2>4. PlacesInv(At', inputs, discards)
      BY <2>3, SameKeeps
    <2> QED BY <1>2, <2>2, <2>4
  <1>9. ASSUME NEW msg \in {written, Eof}, msg = written => written # << >>,
               queue' = [queue EXCEPT !["main"] = Forwarded(queue["main"], msg)],
               HasRoom(queue["main"]), lost' = lost \cup Discarded(queue["main"]),
               Head(toWriter) \in Ends,
               \/ msg = written /\ written' = << >>
               \/ msg = Eof /\ written' = written
        PROVE  OrderInv' /\ PlacesInv(At', inputs', discards')
    <2>1. /\ InLine(Forwarded(queue["main"], msg))
          /\ Items(Forwarded(queue["main"], msg)) = Items(Kept(queue["main"])) \cup Carried(msg)
          /\ Items(queue["main"]) = Discarded(queue["main"]) \cup Items(Kept(queue["main"]))
          /\ Below(Discarded(queue["main"]), Items(Kept(queue["main"])))
          /\ ~discards => Discarded(queue["main"]) = {}
          /\ Carried(Eof) = {} /\ Carried(written) = ToSet(written)
      BY <1>9, WriterSends
    <2>2. queue'["main"] = Forwarded(queue["main"], msg)
      BY <1>9, SinksAre DEF PathTypes
    <2>3. Rises(written')
      BY <1>9 DEF OrderInv, Rises
    <2>4. OrderInv'
      BY <1>6, <2>1, <2>2, <2>3
    <2> DEFINE X == Discarded(queue["main"])
               K == Items(Kept(queue["main"]))
               O == [q \in Places |-> IF q = "queueM" THEN K
                                      ELSE IF q = "lost" THEN lost \cup X ELSE At[q]]
    <2>5. /\ O["queueM"] = K /\ O["lost"] = lost \cup X
          /\ \A q \in Places \ {"queueM", "lost"} : O[q] = At[q]
      BY <1>5
    <2>6. At["queueM"] = X \cup K /\ Below(X, K)
      BY <1>4, <2>1
    <2>7. PlacesInv(O, inputs, discards)
      <3>1. Passes("queueM", "lost", {}, discards)
        BY <1>1, WaysToLose
      <3> HIDE DEF X, K, O
      <3>2. Moves(At, O, "queueM", "lost", X, K)
        BY <1>4, <2>5, <2>6 DEF Moves
      <3> QED BY <1>1, <1>5, <3>1, <3>2, MoveOn
    <2>8. At'["queueM"] = K \cup Carried(msg) /\ At'["lost"] = lost \cup X
          /\ At'["toWriter"] = At["toWriter"]
      BY <1>3, <1>4, <1>9, <2>1, <2>2
    <2> HIDE DEF X, K, O
    <2>9. PlacesInv(At', inputs, discards)
      <3>1. CASE msg = written /\ written' = << >>
        <4> DEFINE Wr == ToSet(written)
        <4>1. At["written"] = Wr \cup {} /\ Below(Wr, {}) /\ At'["written"] = {} /\ Carried(msg) = Wr
          BY <1>4, <2>1, <3>1 DEF Below, ToSet
        <4> HIDE DEF Wr
        <4>2. O["written"] = Wr \cup {} /\ At'["queueM"] = O["queueM"] \cup Wr
          BY <1>5, <2>5, <2>8, <4>1
        <4>3. \A q \in Places \ {"written", "queueM"} : At'[q] = O[q]
          BY <1>4, <2>5, <2>8 DEF Places
        <4>4. Moves(O, At', "written", "queueM", Wr, {})
          BY <4>1, <4>2, <4>3 DEF Moves
        <4>5. Passes("written", "queueM", {}, discards)
          BY <1>1, WaysToPass
        <4> QED BY <1>1, <1>5, <2>7, <4>4, <4>5, MoveOn
      <3>2. CASE msg = Eof /\ written' = written
        <4>1. \A q \in Places : At'[q] = O[q]
          BY <1>4, <2>1, <2>5, <2>8, <3>2 DEF Places
        <4> QED BY <2>7, <4>1, SameKeeps
      <3> QED BY <1>9, <3>1, <3>2
    <2> QED BY <1>2, <2>4, <2>9
  <1>10. CASE FlushBatch
    <2>1. /\ written # << >> /\ queue' = [queue EXCEPT !["main"] = Forwarded(queue["main"], written)]
          /\ HasRoom(queue["main"]) /\ lost' = lost \cup Discarded(queue["main"])
          /\ Head(toWriter) \in Ends /\ written' = << >>
      BY <1>10 DEF FlushBatch, Ends
    <2> QED BY <1>9, <2>1
  <1>11. CASE PassEof
    <2>1. /\ queue' = [queue EXCEPT !["main"] = Forwarded(queue["main"], Eof)]
          /\ HasRoom(queue["main"]) /\ lost' = lost \cup Discarded(queue["main"])
          /\ Head(toWriter) \in Ends /\ written' = written
      BY <1>11 DEF PassEof, Ends
    <2>2. Eof # written
      BY <1>1, EndsApart DEF Ends
    <2> QED BY <1>9, <2>1, <2>2
  <1> QED BY <1>7, <1>8, <1>10, <1>11 DEF WriterStep

\* The places of a sink.
QueueAt(s) == IF s = "main" THEN "queueM" ELSE "queueR"
HeldAt(s)  == IF s = "main" THEN "heldM" ELSE "heldR"
TakenAt(s) == IF s = "main" THEN "takenM" ELSE "takenR"

LEMMA SinkPlaces ==
    ASSUME NEW s \in SinkNodes, NEW d \in BOOLEAN
    PROVE  /\ QueueAt(s) \in Places /\ HeldAt(s) \in Places /\ TakenAt(s) \in Places /\ "lost" \in Places
           /\ QueueAt(s) # HeldAt(s) /\ QueueAt(s) # TakenAt(s) /\ HeldAt(s) # TakenAt(s)
           /\ "lost" \notin {QueueAt(s), HeldAt(s), TakenAt(s)}
           /\ Passes(QueueAt(s), TakenAt(s), {HeldAt(s)}, d)
           /\ Passes(QueueAt(s), HeldAt(s), {}, d) /\ Passes(HeldAt(s), TakenAt(s), {}, d)
           /\ Passes(QueueAt(s), "lost", {}, d) /\ Passes(HeldAt(s), "lost", {}, d)
           /\ At[QueueAt(s)] = Items(queue[s]) /\ At'[QueueAt(s)] = Items(queue'[s])
           /\ At[HeldAt(s)] = ToSet(held[s]) /\ At'[HeldAt(s)] = ToSet(held'[s])
           /\ At[TakenAt(s)] = ToSet(FlattenSeq(taken[s]))
           /\ At'[TakenAt(s)] = ToSet(FlattenSeq(taken'[s]))
  <1>1. CASE s = "main"
    <2>1. QueueAt(s) = "queueM" /\ HeldAt(s) = "heldM" /\ TakenAt(s) = "takenM"
      BY <1>1 DEF QueueAt, HeldAt, TakenAt
    <2>2. {"queueM", "heldM", "takenM", "lost"} \subseteq Places
      BY DEF Places
    <2> QED BY <1>1, <2>1, <2>2, WaysToPass, WaysToLose, AtIs, AtIsNext
  <1>2. CASE s = "resend"
    <2>1. QueueAt(s) = "queueR" /\ HeldAt(s) = "heldR" /\ TakenAt(s) = "takenR"
      BY <1>2 DEF QueueAt, HeldAt, TakenAt
    <2>2. {"queueR", "heldR", "takenR", "lost"} \subseteq Places
      BY DEF Places
    <2> QED BY <1>2, <2>1, <2>2, WaysToPass, WaysToLose, AtIs, AtIsNext
  <1> QED BY <1>1, <1>2, SinksAre

LEMMA OtherPlaces ==
    ASSUME NEW s \in SinkNodes, UNCHANGED <<toWriter, owed, written>>,
           \A r \in SinkNodes \ {s} :
               queue'[r] = queue[r] /\ held'[r] = held[r] /\ taken'[r] = taken[r]
    PROVE  \A q \in Places \ {QueueAt(s), HeldAt(s), TakenAt(s), "lost"} : At'[q] = At[q]
  <1>0. At'["toWriter"] = At["toWriter"] /\ At'["owed"] = At["owed"] /\ At'["written"] = At["written"]
    BY AtIs, AtIsNext
  <1>1. CASE s = "main"
    <2>1. QueueAt(s) = "queueM" /\ HeldAt(s) = "heldM" /\ TakenAt(s) = "takenM"
      BY <1>1 DEF QueueAt, HeldAt, TakenAt
    <2>2. queue'["resend"] = queue["resend"] /\ held'["resend"] = held["resend"]
          /\ taken'["resend"] = taken["resend"]
      BY <1>1, SinksAre
    <2>3. At'["queueR"] = At["queueR"] /\ At'["heldR"] = At["heldR"] /\ At'["takenR"] = At["takenR"]
      BY <2>2, AtIs, AtIsNext
    <2> QED BY <1>0, <2>1, <2>3 DEF Places
  <1>2. CASE s = "resend"
    <2>1. QueueAt(s) = "queueR" /\ HeldAt(s) = "heldR" /\ TakenAt(s) = "takenR"
      BY <1>2 DEF QueueAt, HeldAt, TakenAt
    <2>2. queue'["main"] = queue["main"] /\ held'["main"] = held["main"]
          /\ taken'["main"] = taken["main"]
      BY <1>2, SinksAre
    <2>3. At'["queueM"] = At["queueM"] /\ At'["heldM"] = At["heldM"] /\ At'["takenM"] = At["takenM"]
      BY <2>2, AtIs, AtIsNext
    <2> QED BY <1>0, <2>1, <2>3 DEF Places
  <1> QED BY <1>1, <1>2, SinksAre

\* A sink has done a step, in which X left its input or its hands.
LEMMA SinkKeeps ==
    ASSUME PathTypes, OrderInv, PlacesInv(At, inputs, discards), NEW s \in SinkNodes, SinkStep(s)
    PROVE  OrderInv' /\ PlacesInv(At', inputs', discards')
  <1>1. inputs \in Nat /\ discards \in BOOLEAN /\ held[s] \in Seq(Nat) /\ taken[s] \in Seq(Rows)
    BY PathAssumption DEF PathTypes
  <1>2. /\ \A r \in SinkNodes \ {s} :
               queue'[r] = queue[r] /\ held'[r] = held[r] /\ taken'[r] = taken[r]
        /\ UNCHANGED <<inputs, discards, toWriter, owed, written>>
    BY SinkEffect DEF config, batchVars
  <1>3. \A q \in Places \ {QueueAt(s), HeldAt(s), TakenAt(s), "lost"} : At'[q] = At[q]
    BY <1>2, OtherPlaces
  <1>4. ASSUME Rises(FlattenSeq(taken'[s])), Rises(held'[s]), InLine(queue'[s])
        PROVE  OrderInv'
    <2>1. \A r \in SinkNodes : Rises(FlattenSeq(taken'[r])) /\ Rises(held'[r]) /\ InLine(queue'[r])
      BY <1>2, <1>4 DEF OrderInv
    <2> QED BY <1>2, <2>1 DEF OrderInv
  <1> DEFINE Q == QueueAt(s)
             H == HeldAt(s)
             T == TakenAt(s)
  <1>5. /\ Q \in Places /\ H \in Places /\ T \in Places /\ "lost" \in Places
        /\ Q # H /\ Q # T /\ H # T /\ "lost" # Q /\ "lost" # H /\ "lost" # T
        /\ Passes(Q, T, {H}, discards)
        /\ Passes(Q, H, {}, discards) /\ Passes(H, T, {}, discards)
        /\ Passes(Q, "lost", {}, discards) /\ Passes(H, "lost", {}, discards)
        /\ At[Q] = Items(queue[s]) /\ At'[Q] = Items(queue'[s])
        /\ At[H] = ToSet(held[s]) /\ At'[H] = ToSet(held'[s])
        /\ At[T] = ToSet(FlattenSeq(taken[s])) /\ At'[T] = ToSet(FlattenSeq(taken'[s]))
    BY <1>1, SinkPlaces
  <1>6. At["lost"] = lost /\ At'["lost"] = lost'
    BY AtIs, AtIsNext
  <1>7. \A q \in Places \ {Q, H, T, "lost"} : At'[q] = At[q]
    BY <1>3
  <1> HIDE DEF Q, H, T
  <1>8. Rises(FlattenSeq(taken[s])) /\ Rises(held[s]) /\ InLine(queue[s]) /\ Rises(<< >>)
        /\ ToSet(<< >>) = {}
    BY DEF OrderInv, Rises, ToSet
  <1>9. Below(At[T], At[Q]) /\ Below(At[T], At[H])
    <2>1. s = "main" \/ s = "resend"
      BY SinksAre
    <2> QED BY <1>5, <2>1, NewerBehind
  <1>10. CASE Takes(s) /\ Head(queue[s]) # Eof /\ queue'[s] = Tail(queue[s])
    <2> DEFINE b == Head(queue[s])
               X == ToSet(b)
               Y == Items(queue'[s])
    <2>1. /\ InLine(queue'[s]) /\ Items(queue[s]) = X \cup Y /\ Below(X, Y)
          /\ b \in Rows /\ Rises(b) /\ held[s] = << >>
      BY <1>10, TakesOne
    <2>2. Below(At[T], X)
      BY <1>5, <1>9, <2>1 DEF Below
    <2>3. \/ /\ taken'[s] = Append(taken[s], b) /\ held'[s] = held[s] /\ lost' = lost
          \/ held'[s] = b /\ taken'[s] = taken[s] /\ lost' = lost
          \/ lost' = lost \cup X /\ held'[s] = held[s] /\ taken'[s] = taken[s]
      <3>1. held[s] \notin Rows
        BY <2>1 DEF Rows
      <3> QED BY <3>1, SinkEffect
    <2>4. At[Q] = X \cup Y /\ At'[Q] = Y /\ At[H] = {} /\ Below(X, Y)
      BY <1>5, <1>8, <2>1
    <2> HIDE DEF b, X, Y
    <2>5. CASE taken'[s] = Append(taken[s], b) /\ held'[s] = held[s] /\ lost' = lost
      <3>1. /\ Rises(FlattenSeq(Append(taken[s], b)))
            /\ ToSet(FlattenSeq(Append(taken[s], b))) = ToSet(FlattenSeq(taken[s])) \cup ToSet(b)
        BY <1>1, <1>5, <1>8, <2>1, <2>2, TakenAppend DEF X
      <3>2. At'[T] = At[T] \cup X
        BY <1>5, <2>5, <3>1 DEF X
      <3>3. \A q \in Places \ {Q, T} : At'[q] = At[q]
        BY <1>5, <1>6, <1>7, <2>5
      <3>4. Moves(At, At', Q, T, X, Y)
        BY <2>4, <3>2, <3>3 DEF Moves
      <3>5. {H} \in SUBSET Places /\ \A q \in {H} : At[q] = {}
        BY <1>5, <2>4
      <3>6. PlacesInv(At', inputs, discards)
        BY <1>1, <1>5, <3>4, <3>5, MoveKeeps
      <3> QED BY <1>2, <1>4, <1>8, <2>1, <2>5, <3>1, <3>6
    <2>6. CASE held'[s] = b /\ taken'[s] = taken[s] /\ lost' = lost
      <3>1. At'[H] = At[H] \cup X
        BY <1>5, <2>4, <2>6 DEF X
      <3>2. \A q \in Places \ {Q, H} : At'[q] = At[q]
        BY <1>5, <1>6, <1>7, <2>6
      <3>3. Moves(At, At', Q, H, X, Y)
        BY <2>4, <3>1, <3>2 DEF Moves
      <3>4. PlacesInv(At', inputs, discards)
        BY <1>1, <1>5, <3>3, MoveOn
      <3> QED BY <1>2, <1>4, <1>8, <2>1, <2>6, <3>4
    <2>7. CASE lost' = lost \cup X /\ held'[s] = held[s] /\ taken'[s] = taken[s]
      <3>1. \A q \in Places \ {Q, "lost"} : At'[q] = At[q]
        BY <1>5, <1>7, <2>7
      <3>2. Moves(At, At', Q, "lost", X, Y)
        BY <1>6, <2>4, <2>7, <3>1 DEF Moves
      <3>3. PlacesInv(At', inputs, discards)
        BY <1>1, <1>5, <3>2, MoveOn
      <3> QED BY <1>2, <1>4, <1>8, <2>1, <2>7, <3>3
    <2> QED BY <2>3, <2>5, <2>6, <2>7
  <1>11. CASE held[s] \in Rows /\ queue'[s] = queue[s] /\ held'[s] = << >>
    <2> DEFINE X == ToSet(held[s])
    <2>1. At[H] = X \cup {} /\ At'[H] = {} /\ Below(X, {}) /\ At'[Q] = At[Q]
      BY <1>5, <1>8, <1>11 DEF Below
    <2>2. \/ taken'[s] = Append(taken[s], held[s]) /\ lost' = lost
          \/ lost' = lost \cup X /\ taken'[s] = taken[s]
      <3>1. ~(Takes(s) /\ Head(queue[s]) # Eof)
        BY <1>11 DEF Takes, Rows
      <3> QED BY <3>1, SinkEffect
    <2> HIDE DEF X
    <2>3. CASE taken'[s] = Append(taken[s], held[s]) /\ lost' = lost
      <3>1. Below(ToSet(FlattenSeq(taken[s])), ToSet(held[s]))
        BY <1>5, <1>9
      <3>2. /\ Rises(FlattenSeq(Append(taken[s], held[s])))
            /\ ToSet(FlattenSeq(Append(taken[s], held[s])))
                   = ToSet(FlattenSeq(taken[s])) \cup ToSet(held[s])
        BY <1>1, <1>8, <1>11, <3>1, TakenAppend
      <3>3. At'[T] = At[T] \cup X
        BY <1>5, <2>3, <3>2 DEF X
      <3>4. \A q \in Places \ {H, T} : At'[q] = At[q]
        BY <1>5, <1>6, <1>7, <2>1, <2>3
      <3>5. Moves(At, At', H, T, X, {})
        BY <2>1, <3>3, <3>4 DEF Moves
      <3>6. PlacesInv(At', inputs, discards)
        BY <1>1, <1>5, <3>5, MoveOn
      <3> QED BY <1>2, <1>4, <1>8, <1>11, <2>3, <3>2, <3>6
    <2>4. CASE lost' = lost \cup X /\ taken'[s] = taken[s]
      <3>1. \A q \in Places \ {H, "lost"} : At'[q] = At[q]
        BY <1>5, <1>7, <2>1, <2>4
      <3>2. Moves(At, At', H, "lost", X, {})
        BY <1>6, <2>1, <2>4, <3>1 DEF Moves
      <3>3. PlacesInv(At', inputs, discards)
        BY <1>1, <1>5, <3>2, MoveOn
      <3> QED BY <1>2, <1>4, <1>8, <1>11, <2>4, <3>3
    <2> QED BY <2>2, <2>3, <2>4
  <1> QED BY <1>10, <1>11, SinkEffect

\* Places and order, when a batch goes to the alternative queue.
LEMMA RerouteKeeps ==
    ASSUME PathTypes, OrderInv, PlacesInv(At, inputs, discards), Reroute
    PROVE  OrderInv' /\ PlacesInv(At', inputs', discards')
  <1> DEFINE X == ToSet(Head(queue["main"]))
             Y == Items(Tail(queue["main"]))
  <1>1. inputs \in Nat /\ discards \in BOOLEAN
    BY PathAssumption DEF PathTypes
  <1>2. UNCHANGED <<toWriter, owed, written, held, taken, inputs, discards>>
        /\ Takes("main") /\ Head(queue["main"]) # Eof
    BY DEF Reroute, config, batchVars, sinkVars
  <1>3. /\ InLine(Tail(queue["main"])) /\ Below(X, Y) /\ Items(queue["main"]) = X \cup Y
    BY <1>2, SinksAre, TakesOne
  <1>4. /\ queue'["main"] = Tail(queue["main"]) /\ InLine(queue'["resend"])
        /\ \/ lost' = lost /\ Items(queue'["resend"]) = Items(queue["resend"]) \cup X
           \/ lost' = lost \cup X /\ Items(queue'["resend"]) = Items(queue["resend"])
    BY Rerouted
  <1>5. OrderInv'
    <2>1. \A s \in SinkNodes : Rises(FlattenSeq(taken'[s])) /\ Rises(held'[s]) /\ InLine(queue'[s])
      BY <1>2, <1>3, <1>4, SinksAre DEF OrderInv
    <2> QED BY <1>2, <2>1 DEF OrderInv
  <1> HIDE DEF X, Y
  <1>6. /\ At["queueM"] = X \cup Y /\ At'["queueM"] = Y
        /\ At["queueR"] = Items(queue["resend"]) /\ At'["queueR"] = Items(queue'["resend"])
        /\ At["lost"] = lost /\ At'["lost"] = lost'
        /\ \A q \in Places \ {"queueM", "queueR", "lost"} : At'[q] = At[q]
    <2>1. \A q \in Places \ {"queueM", "queueR", "lost"} : At'[q] = At[q]
      BY <1>2, AtIs, AtIsNext DEF Places
    <2> QED BY <1>3, <1>4, <2>1, AtIs, AtIsNext DEF Y
  <1>7. "queueM" \in Places /\ "queueR" \in Places /\ "lost" \in Places
    BY DEF Places
  <1>8. CASE lost' = lost /\ Items(queue'["resend"]) = Items(queue["resend"]) \cup X
    <2>1. Moves(At, At', "queueM", "queueR", X, Y)
      BY <1>3, <1>6, <1>8 DEF Moves
    <2>2. Passes("queueM", "queueR", {}, discards)
      BY <1>1, WaysToPass
    <2>3. PlacesInv(At', inputs, discards)
      BY <1>1, <1>7, <2>1, <2>2, MoveOn
    <2> QED BY <1>2, <1>5, <2>3
  <1>9. CASE lost' = lost \cup X /\ Items(queue'["resend"]) = Items(queue["resend"])
    <2>1. Moves(At, At', "queueM", "lost", X, Y)
      BY <1>3, <1>6, <1>9 DEF Moves
    <2>2. Passes("queueM", "lost", {}, discards)
      BY <1>1, WaysToLose
    <2>3. PlacesInv(At', inputs, discards)
      BY <1>1, <1>7, <2>1, <2>2, MoveOn
    <2> QED BY <1>2, <1>5, <2>3
  <1> QED BY <1>4, <1>8, <1>9

\* Places and order, when the sink finds the end of the stream.
LEMMA HearEofKeeps ==
    ASSUME PathTypes, OrderInv, PlacesInv(At, inputs, discards), HearEof
    PROVE  OrderInv' /\ PlacesInv(At', inputs', discards')
  <1>1. /\ UNCHANGED <<toWriter, owed, written, held, taken, inputs, discards, lost>>
        /\ Takes("main") /\ Head(queue["main"]) = Eof
        /\ queue' = [queue EXCEPT !["main"] = Tail(queue["main"])]
    BY DEF HearEof, config, batchVars
  <1>2. queue'["main"] = Tail(queue["main"]) /\ queue'["resend"] = queue["resend"]
    BY <1>1, SinksAre DEF PathTypes
  <1>3. /\ InLine(Tail(queue["main"]))
        /\ Items(queue["main"]) = Carried(Head(queue["main"])) \cup Items(Tail(queue["main"]))
    BY <1>1, SinksAre, TakesOne
  <1>4. Items(queue["main"]) = Items(Tail(queue["main"]))
    BY <1>1, <1>3, EndsApart DEF Ends
  <1>5. OrderInv'
    <2>1. \A s \in SinkNodes : Rises(FlattenSeq(taken'[s])) /\ Rises(held'[s]) /\ InLine(queue'[s])
      BY <1>1, <1>2, <1>3, SinksAre DEF OrderInv
    <2> QED BY <1>1, <2>1 DEF OrderInv
  <1>6. \A q \in Places : At'[q] = At[q]
    BY <1>1, <1>2, <1>4, AtIs, AtIsNext DEF Places
  <1>7. PlacesInv(At', inputs, discards)
    BY <1>6, SameKeeps
  <1> QED BY <1>1, <1>5, <1>7

\* Each item stays at one place, and the places in order, across every step.
LEMMA OrderKept ==
    ASSUME PathTypes, OrderInv, PlacesInv(At, inputs, discards), PathNext
    PROVE  OrderInv' /\ PlacesInv(At', inputs', discards')
  BY BatchOpKeeps, WriterKeeps, SinkKeeps, RerouteKeeps, HearEofKeeps DEF PathNext

-----------------------------------------------------------------------------
(* What has still to pass the writer.                                      *)

Messages == Ones \cup Ends

LEMMA HeadAndTail ==
    ASSUME NEW S, NEW a \in Seq(S), NEW b \in Seq(S), b # << >>
    PROVE  Append(a, Head(b)) \o Tail(b) = a \o b
  <1>1. Tail(b) \in Seq(S) /\ Head(b) \in S /\ Head(b) = b[1] /\ Len(b) \in Nat \ {0}
    BY TailIs
  <1>2. b = <<b[1]>> \o SubSeq(b, 2, Len(b))
    <2>1. 1 \in 1..Len(b) /\ Len(b) \in 1..Len(b)
      BY <1>1
    <2>2. SubSeq(b, 1, Len(b)) = <<b[1]>> \o SubSeq(b, 1 + 1, Len(b))
      BY <2>1, SubSeqRecursiveFirst
    <2> QED BY <2>2, SubSeqFull
  <1>3. Tail(b) = SubSeq(b, 2, Len(b))
    BY TailIsSubSeq
  <1>4. Append(a, Head(b)) = a \o <<Head(b)>> /\ <<Head(b)>> \in Seq(S)
    BY <1>1, AppendIsConcat
  <1>5. (a \o <<Head(b)>>) \o Tail(b) = a \o (<<Head(b)>> \o Tail(b))
    BY <1>1, <1>4, ConcatAssociative
  <1> QED BY <1>1, <1>2, <1>3, <1>4, <1>5

LEMMA ConcatTail ==
    ASSUME NEW S, NEW a \in Seq(S), NEW b \in Seq(S), a # << >>
    PROVE  /\ Tail(a) \o b \in Seq(S) /\ Len(Tail(a) \o b) = Len(a \o b) - 1
           /\ Len(a \o b) \in Nat \ {0} /\ (a \o b)[1] = Head(a) /\ a \o b \in Seq(S)
           /\ \A k \in 1..(Len(a \o b) - 1) : (Tail(a) \o b)[k] = (a \o b)[k + 1]
  <1> DEFINE c == a \o b
             t == Tail(a)
             d == t \o b
             n == Len(a)
             m == Len(b)
  <1>1. /\ t \in Seq(S) /\ Head(a) = a[1] /\ n \in Nat \ {0} /\ Len(t) = n - 1
        /\ \A i \in 1..(n - 1) : i + 1 \in 1..n /\ t[i] = a[i + 1]
    BY TailIs
  <1>2. /\ c \in Seq(S) /\ m \in Nat /\ Len(c) = n + m
        /\ \A i \in 1..n : c[i] = a[i]
        /\ \A i \in (n + 1)..(n + m) : i - n \in 1..m /\ c[i] = b[i - n]
    BY ConcatElements
  <1>0. t \in Seq(S)
    BY <1>1
  <1> HIDE DEF t
  <1>3. /\ d \in Seq(S) /\ Len(d) = Len(t) + m
        /\ \A i \in 1..Len(t) : d[i] = t[i]
        /\ \A i \in (Len(t) + 1)..(Len(t) + m) : i - Len(t) \in 1..m /\ d[i] = b[i - Len(t)]
    BY <1>0, ConcatElements
  <1> HIDE DEF c, d, n, m
  <1>4. 1 \in 1..n
    BY <1>1
  <1>5. ASSUME NEW k \in 1..(n + m - 1) PROVE d[k] = c[k + 1]
    <2>1. CASE k \in 1..(n - 1)
      BY <1>1, <1>2, <1>3, <2>1
    <2>2. CASE k \notin 1..(n - 1)
      <3>1. k \in n..(n - 1 + m) /\ k + 1 \in (n + 1)..(n + m) /\ k - (n - 1) = (k + 1) - n
            /\ k \in (n - 1 + 1)..(n - 1 + m)
        BY <1>1, <1>2, <2>2
      <3>2. d[k] = b[k - (n - 1)]
        BY <1>1, <1>3, <3>1
      <3>3. c[k + 1] = b[(k + 1) - n]
        BY <1>2, <3>1
      <3> QED BY <3>1, <3>2, <3>3
    <2> QED BY <2>1, <2>2
  <1>6. Len(c) = n + m /\ Len(d) = n + m - 1 /\ Len(c) \in Nat \ {0}
    BY <1>1, <1>2, <1>3
  <1>7. c[1] = Head(a)
    BY <1>1, <1>2, <1>4
  <1> QED BY <1>2, <1>3, <1>5, <1>6, <1>7 DEF c, d, t

\* A message has passed the writer.
LEMMA FillsPass ==
    ASSUME NEW ch \in Seq(Messages), NEW new \in Seq(Messages), Len(ch) \in Nat \ {0},
           Len(new) = Len(ch) - 1, \A k \in 1..(Len(ch) - 1) : new[k] = ch[k + 1],
           NEW c, NEW n, NEW m, NEW e, Fills(c, ch, n, m, e)
    PROVE  /\ \E d : Fills(d, new, IF ch[1] \in Ends THEN 0 ELSE n + 1, m, e)
           /\ n \in Nat /\ (ch[1] = Eof => n = 0)
           /\ ch[1] = BatchEnd /\ n > 0 =>
                  \/ batchSize > 0 /\ n = batchSize
                  \/ lingers
                  \/ e /\ \A k \in 1..Len(ch) : ch[k] \in Ends
           /\ batchSize > 0 => n <= batchSize
  <1> DEFINE N == Len(ch)
             d == [k \in 0..(N - 1) |-> c[k + 1]]
  <1>1. /\ N \in Nat \ {0} /\ Len(new) = N - 1
        /\ \A k \in 1..(N - 1) : new[k] = ch[k + 1]
    OBVIOUS
  <1>2. c \in [0..N -> Nat] /\ c[0] = n /\ c[N] = m
    BY DEF Fills
  <1>3. \A k \in 1..N : c[k] = IF ch[k] \in Ends THEN 0 ELSE c[k - 1] + 1
    BY DEF Fills
  <1>4. \A k \in 1..N : ch[k] = Eof => c[k - 1] = 0
    BY DEF Fills
  <1>5. batchSize > 0 => /\ \A k \in 0..N : c[k] <= batchSize
                         /\ \A k \in 1..N : c[k - 1] = batchSize => ch[k] = BatchEnd
    BY DEF Fills
  <1>6. \A k \in 1..N : ch[k] = BatchEnd /\ c[k - 1] > 0 =>
            \/ batchSize > 0 /\ c[k - 1] = batchSize
            \/ lingers
            \/ e /\ \A j \in k..N : ch[j] \in Ends
    BY DEF Fills
  <1>7. d \in [0..(N - 1) -> Nat] /\ \A k \in 0..(N - 1) : d[k] = c[k + 1]
    BY <1>1, <1>2
  <1> HIDE DEF N, d
  <1>8. 0 \in 0..(N - 1) /\ N - 1 \in 0..(N - 1) /\ 1 \in 1..N /\ 1 - 1 = 0 /\ (N - 1) + 1 = N /\ 0 + 1 = 1
        /\ 0 \in 0..N
    BY <1>1
  <1>9. \A k \in 1..(N - 1) : /\ k + 1 \in 1..N /\ (k + 1) - 1 = k /\ k \in 0..(N - 1)
                              /\ k - 1 \in 0..(N - 1) /\ (k - 1) + 1 = k
    BY <1>1
  <1>10. \A k \in 1..(N - 1) : d[k] = c[k + 1] /\ d[k - 1] = c[k] /\ c[(k + 1) - 1] = c[k]
                               /\ new[k] = ch[k + 1]
    BY <1>1, <1>7, <1>9
  <1>11. d[0] = (IF ch[1] \in Ends THEN 0 ELSE n + 1) /\ d[N - 1] = m
    <2>1. d[0] = c[1] /\ d[N - 1] = c[N]
      BY <1>7, <1>8
    <2>2. c[1] = IF ch[1] \in Ends THEN 0 ELSE c[0] + 1
      BY <1>3, <1>8
    <2> QED BY <1>2, <2>1, <2>2
  <1>12. ASSUME NEW k \in 1..(N - 1) PROVE d[k] = IF new[k] \in Ends THEN 0 ELSE d[k - 1] + 1
    <2>1. c[k + 1] = IF ch[k + 1] \in Ends THEN 0 ELSE c[(k + 1) - 1] + 1
      BY <1>3, <1>9
    <2>2. d[k] = c[k + 1] /\ d[k - 1] = c[k] /\ c[(k + 1) - 1] = c[k] /\ new[k] = ch[k + 1]
      BY <1>10
    <2> QED BY <2>1, <2>2
  <1>13. \A k \in 1..(N - 1) : new[k] = Eof => d[k - 1] = 0
    <2> SUFFICES ASSUME NEW k \in 1..(N - 1), new[k] = Eof PROVE d[k - 1] = 0
      OBVIOUS
    <2>1. ch[k + 1] = Eof /\ k + 1 \in 1..N /\ d[k - 1] = c[k] /\ c[(k + 1) - 1] = c[k]
      BY <1>9, <1>10
    <2>2. c[(k + 1) - 1] = 0
      BY <1>4, <2>1
    <2> QED BY <2>1, <2>2
  <1>14. ASSUME batchSize > 0
         PROVE  /\ \A k \in 0..(N - 1) : d[k] <= batchSize
                /\ \A k \in 1..(N - 1) : d[k - 1] = batchSize => new[k] = BatchEnd
    <2>1. \A k \in 0..(N - 1) : k + 1 \in 0..N
      BY <1>1
    <2>2. \A k \in 0..(N - 1) : d[k] <= batchSize
      BY <1>5, <1>7, <1>14, <2>1
    <2>3. \A k \in 1..(N - 1) : d[k - 1] = batchSize => new[k] = BatchEnd
      BY <1>5, <1>9, <1>10, <1>14
    <2> QED BY <2>2, <2>3
  <1>15. ASSUME NEW k \in 1..(N - 1), new[k] = BatchEnd, d[k - 1] > 0
         PROVE  \/ batchSize > 0 /\ d[k - 1] = batchSize
                \/ lingers
                \/ e /\ \A j \in k..(N - 1) : new[j] \in Ends
    <2>1. \/ batchSize > 0 /\ c[k] = batchSize
          \/ lingers
          \/ e /\ \A j \in (k + 1)..N : ch[j] \in Ends
      BY <1>6, <1>9, <1>10, <1>15
    <2>2. \A j \in k..(N - 1) : j \in 1..(N - 1) /\ j + 1 \in (k + 1)..N
      BY <1>1
    <2>3. (\A j \in (k + 1)..N : ch[j] \in Ends) => \A j \in k..(N - 1) : new[j] \in Ends
      BY <1>10, <2>2
    <2>4. d[k - 1] = c[k]
      BY <1>10
    <2> QED BY <2>1, <2>3, <2>4
  <1>16. Fills(d, new, IF ch[1] \in Ends THEN 0 ELSE n + 1, m, e)
    BY <1>1, <1>7, <1>11, <1>12, <1>13, <1>14, <1>15 DEF Fills
  <1>17. n \in Nat
    BY <1>2, <1>8
  <1>18. ch[1] = Eof => n = 0
    BY <1>2, <1>4, <1>8
  <1>19. ch[1] = BatchEnd /\ n > 0 =>
              \/ batchSize > 0 /\ n = batchSize
              \/ lingers
              \/ e /\ \A k \in 1..N : ch[k] \in Ends
    BY <1>2, <1>6, <1>8
  <1>20. batchSize > 0 => n <= batchSize
    BY <1>2, <1>5, <1>8
  <1> QED BY <1>16, <1>17, <1>18, <1>19, <1>20 DEF N

\* BatchOp owes one more message.
LEMMA FillsMore ==
    ASSUME NEW ch \in Seq(Messages), NEW msg \in Messages,
           NEW c, NEW n, NEW m, NEW e \in BOOLEAN, NEW f \in BOOLEAN, Fills(c, ch, n, m, e),
           e => f /\ msg \in Ends, msg = Eof => m = 0,
           batchSize > 0 => (m = batchSize => msg = BatchEnd) /\ (m + 1 <= batchSize \/ msg \in Ends),
           msg = BatchEnd => m = 0 \/ (batchSize > 0 /\ m = batchSize) \/ lingers \/ f,
           batchSize \in Nat
    PROVE  \E d : Fills(d, Append(ch, msg), n, IF msg \in Ends THEN 0 ELSE m + 1, f)
  <1> DEFINE N == Len(ch)
             new == Append(ch, msg)
             last == IF msg \in Ends THEN 0 ELSE m + 1
             d == [k \in 0..(N + 1) |-> IF k = N + 1 THEN last ELSE c[k]]
  <1>1. /\ N \in Nat /\ Len(new) = N + 1
        /\ \A k \in 1..N : new[k] = ch[k]
        /\ new[N + 1] = msg
    BY AppendProperties
  <1>2. c \in [0..N -> Nat] /\ c[0] = n /\ c[N] = m
    BY DEF Fills
  <1>3. \A k \in 1..N : c[k] = IF ch[k] \in Ends THEN 0 ELSE c[k - 1] + 1
    BY DEF Fills
  <1>4. \A k \in 1..N : ch[k] = Eof => c[k - 1] = 0
    BY DEF Fills
  <1>5. batchSize > 0 => /\ \A k \in 0..N : c[k] <= batchSize
                         /\ \A k \in 1..N : c[k - 1] = batchSize => ch[k] = BatchEnd
    BY DEF Fills
  <1>6. \A k \in 1..N : ch[k] = BatchEnd /\ c[k - 1] > 0 =>
            \/ batchSize > 0 /\ c[k - 1] = batchSize
            \/ lingers
            \/ e /\ \A j \in k..N : ch[j] \in Ends
    BY DEF Fills
  <1>7. m \in Nat /\ last \in Nat
    <2>1. N \in 0..N
      BY <1>1
    <2> QED BY <1>2, <2>1
  <1>8. \A k \in 0..N : k \in 0..(N + 1) /\ k # N + 1
    BY <1>1
  <1>9. /\ d \in [0..(N + 1) -> Nat] /\ \A k \in 0..N : d[k] = c[k]
        /\ d[N + 1] = last
    <2> HIDE DEF last
    <2>1. \A k \in 0..(N + 1) : k = N + 1 \/ k \in 0..N
      BY <1>1
    <2>2. N + 1 \in 0..(N + 1)
      BY <1>1
    <2> QED BY <1>2, <1>7, <1>8, <2>1, <2>2
  <1>10. last = IF msg \in Ends THEN 0 ELSE m + 1
    OBVIOUS
  <1> HIDE DEF N, new, d, last
  <1>11. /\ \A k \in 1..(N + 1) : k \in 1..N \/ k = N + 1
         /\ \A k \in 1..N : k \in 0..N /\ k - 1 \in 0..N /\ k \in 1..(N + 1)
         /\ (N + 1) - 1 = N /\ N \in 0..N /\ 0 \in 0..N
    BY <1>1
  <1>12. \A k \in 1..N : d[k] = c[k] /\ d[k - 1] = c[k - 1] /\ new[k] = ch[k]
    BY <1>1, <1>9, <1>11
  <1>13. d[(N + 1) - 1] = m /\ d[0] = n
    BY <1>2, <1>9, <1>11
  <1>14. \A k \in 1..(N + 1) : d[k] = IF new[k] \in Ends THEN 0 ELSE d[k - 1] + 1
    <2> SUFFICES ASSUME NEW k \in 1..(N + 1)
                 PROVE  d[k] = IF new[k] \in Ends THEN 0 ELSE d[k - 1] + 1
      OBVIOUS
    <2>1. CASE k \in 1..N
      BY <1>3, <1>12, <2>1
    <2>2. CASE k = N + 1
      BY <1>1, <1>9, <1>10, <1>13, <2>2
    <2> QED BY <1>11, <2>1, <2>2
  <1>15. \A k \in 1..(N + 1) : new[k] = Eof => d[k - 1] = 0
    <2> SUFFICES ASSUME NEW k \in 1..(N + 1), new[k] = Eof PROVE d[k - 1] = 0
      OBVIOUS
    <2>1. CASE k \in 1..N
      BY <1>4, <1>12, <2>1
    <2>2. CASE k = N + 1
      BY <1>1, <1>13, <2>2
    <2> QED BY <1>11, <2>1, <2>2
  <1>16. ASSUME batchSize > 0
         PROVE  /\ \A k \in 0..(N + 1) : d[k] <= batchSize
                /\ \A k \in 1..(N + 1) : d[k - 1] = batchSize => new[k] = BatchEnd
    <2>1. last <= batchSize
      BY <1>7, <1>10, <1>16
    <2>2. ASSUME NEW k \in 0..(N + 1) PROVE d[k] <= batchSize
      <3>1. k \in 0..N \/ k = N + 1
        BY <1>1
      <3> QED BY <1>5, <1>9, <1>16, <2>1, <3>1
    <2>3. ASSUME NEW k \in 1..(N + 1), d[k - 1] = batchSize PROVE new[k] = BatchEnd
      <3>1. CASE k \in 1..N
        BY <1>5, <1>12, <1>16, <2>3, <3>1
      <3>2. CASE k = N + 1
        BY <1>1, <1>13, <1>16, <2>3, <3>2
      <3> QED BY <1>11, <3>1, <3>2
    <2> QED BY <2>2, <2>3
  <1>17. ASSUME NEW k \in 1..(N + 1), new[k] = BatchEnd, d[k - 1] > 0
         PROVE  \/ batchSize > 0 /\ d[k - 1] = batchSize
                \/ lingers
                \/ f /\ \A j \in k..(N + 1) : new[j] \in Ends
    <2>1. CASE k \in 1..N
      <3>1. \/ batchSize > 0 /\ c[k - 1] = batchSize
            \/ lingers
            \/ e /\ \A j \in k..N : ch[j] \in Ends
        BY <1>6, <1>12, <1>17, <2>1
      <3>2. ASSUME e, \A j \in k..N : ch[j] \in Ends PROVE f /\ \A j \in k..(N + 1) : new[j] \in Ends
        <4>1. \A j \in k..(N + 1) : j = N + 1 \/ (j \in k..N /\ j \in 1..N)
          BY <1>1
        <4> QED BY <1>1, <1>12, <3>2, <4>1
      <3>3. d[k - 1] = c[k - 1]
        BY <1>12, <2>1
      <3> QED BY <3>1, <3>2, <3>3
    <2>2. CASE k = N + 1
      <3>1. msg = BatchEnd /\ m > 0
        BY <1>1, <1>13, <1>17, <2>2
      <3>2. (batchSize > 0 /\ m = batchSize) \/ lingers \/ f
        BY <1>7, <3>1
      <3>3. \A j \in k..(N + 1) : j = N + 1
        BY <1>1, <2>2
      <3>4. \A j \in k..(N + 1) : new[j] \in Ends
        BY <1>1, <3>1, <3>3 DEF Ends
      <3> QED BY <1>13, <2>2, <3>2, <3>4
    <2> QED BY <1>11, <2>1, <2>2
  <1>18. Fills(d, new, n, last, f)
    BY <1>1, <1>9, <1>13, <1>14, <1>15, <1>16, <1>17 DEF Fills
  <1> QED BY <1>18 DEF new, last

LEMMA AppendTwo ==
    ASSUME NEW S, NEW a \in Seq(S), NEW x \in S, NEW y \in S
    PROVE  /\ a \o << >> = a /\ a \o <<x>> = Append(a, x)
           /\ a \o (<<x>> \o << >>) = Append(a, x)
           /\ a \o (<<x>> \o <<y>>) = Append(Append(a, x), y)
           /\ Append(a, x) \in Seq(S)
  <1>1. <<x>> \in Seq(S) /\ <<y>> \in Seq(S)
    OBVIOUS
  <1>2. a \o << >> = a /\ <<x>> \o << >> = <<x>>
    BY <1>1, ConcatEmptySeq
  <1>3. a \o <<x>> = Append(a, x) /\ Append(a, x) \in Seq(S)
    BY AppendIsConcat, AppendProperties
  <1>4. Append(a, x) \o <<y>> = Append(Append(a, x), y)
    BY <1>3, AppendIsConcat
  <1>5. (a \o <<x>>) \o <<y>> = a \o (<<x>> \o <<y>>)
    BY <1>1, ConcatAssociative
  <1> QED BY <1>2, <1>3, <1>4, <1>5

LEMMA PairIs ==
    ASSUME NEW S, NEW x \in S, NEW y \in S
    PROVE  <<x, y>> = <<x>> \o <<y>>
  <1>1. <<x, y>> \in Seq(S) /\ Len(<<x, y>>) = 2 /\ <<x, y>>[1] = x /\ <<x, y>>[2] = y
    OBVIOUS
  <1>2. <<x>> \in Seq(S) /\ <<y>> \in Seq(S) /\ Len(<<x>>) = 1 /\ Len(<<y>>) = 1
        /\ <<x>>[1] = x /\ <<y>>[1] = y
    OBVIOUS
  <1> DEFINE a == <<x>>
             b == <<y>>
             c == a \o b
             d == <<x, y>>
  <1>3. a \in Seq(S) /\ b \in Seq(S) /\ Len(a) = 1 /\ Len(b) = 1 /\ a[1] = x /\ b[1] = y
        /\ d \in Seq(S) /\ Len(d) = 2 /\ d[1] = x /\ d[2] = y
    BY <1>1, <1>2
  <1> HIDE DEF a, b, d
  <1>4. /\ c \in Seq(S) /\ Len(c) = Len(a) + Len(b)
        /\ \A i \in 1..(Len(a) + Len(b)) : c[i] = IF i <= Len(a) THEN a[i] ELSE b[i - Len(a)]
    BY <1>3, ConcatProperties
  <1> HIDE DEF c
  <1>5. Len(c) = 2 /\ c[1] = x /\ c[2] = y
    BY <1>3, <1>4
  <1>6. \A i \in 1..Len(d) : d[i] = c[i]
    <2>1. \A i \in 1..2 : i = 1 \/ i = 2
      OBVIOUS
    <2> QED BY <1>3, <1>5, <2>1
  <1>7. d = c
    BY <1>3, <1>4, <1>5, <1>6, SeqEqual
  <1> QED BY <1>7 DEF a, b, c, d

LEMMA ComingIs ==
    ASSUME PathTypes
    PROVE  /\ toWriter \in Seq(Messages) /\ owed \in Seq(Messages) /\ Coming \in Seq(Messages)
           /\ BatchEnd \in Messages /\ Eof \in Messages /\ BatchEnd \in Ends /\ Eof \in Ends
           /\ batchSize \in Nat /\ inputs \in Nat /\ currIndex \in Nat /\ BatchEnd # Eof
  <1>1. toWriter \in Seq(Messages) /\ owed \in Seq(Messages)
    BY DEF PathTypes, Messages
  <1>2. Coming \in Seq(Messages)
    BY <1>1, ConcatProperties DEF Coming
  <1>3. BatchEnd \in Messages /\ Eof \in Messages /\ BatchEnd \in Ends /\ Eof \in Ends
    BY DEF Messages, Ends
  <1> QED BY <1>1, <1>2, <1>3, PathAssumption DEF PathTypes

\* What BatchOp adds, as one message or two.
LEMMA ComingMore ==
    ASSUME PathTypes
    PROVE  /\ IngestItem =>
                  /\ <<inputs + 1>> \in Messages /\ <<inputs + 1>> \notin Ends
                  /\ Coming' = IF batchSize > 0 /\ currIndex + 1 >= batchSize
                               THEN Append(Append(Coming, <<inputs + 1>>), BatchEnd)
                               ELSE Append(Coming, <<inputs + 1>>)
           /\ IngestEof => Coming' = Append(Append(Coming, BatchEnd), Eof)
           /\ Linger => Coming' = Append(Coming, BatchEnd)
  <1>1. /\ toWriter \in Seq(Messages) /\ BatchEnd \in Messages /\ Eof \in Messages /\ inputs \in Nat
        /\ batchSize \in Nat /\ currIndex \in Nat
    BY ComingIs
  <1>2. ASSUME owed = << >> PROVE Coming = toWriter
    BY <1>1, <1>2, ConcatEmptySeq DEF Coming
  <1>3. ASSUME IngestItem
        PROVE  /\ <<inputs + 1>> \in Messages /\ <<inputs + 1>> \notin Ends
               /\ Coming' = IF batchSize > 0 /\ currIndex + 1 >= batchSize
                            THEN Append(Append(Coming, <<inputs + 1>>), BatchEnd)
                            ELSE Append(Coming, <<inputs + 1>>)
    <2> DEFINE x == <<inputs + 1>>
    <2>1. x \in Messages /\ x \notin Ends
      <3>1. inputs + 1 \in Nat
        BY <1>1
      <3>2. x \in Ones /\ x \in Seq(Nat)
        BY <3>1, EndsApart
      <3> QED BY <3>2, EndsApart DEF Messages
    <2>2. /\ owed = << >> /\ toWriter' = toWriter
          /\ owed' = <<x>> \o (IF batchSize > 0 /\ currIndex + 1 >= batchSize THEN <<BatchEnd>> ELSE << >>)
      BY <1>3 DEF IngestItem
    <2> HIDE DEF x
    <2>3. Coming' = toWriter \o owed' /\ Coming = toWriter
      BY <1>2, <2>2 DEF Coming
    <2>4. CASE batchSize > 0 /\ currIndex + 1 >= batchSize
      <3>1. owed' = <<x>> \o <<BatchEnd>>
        BY <2>2, <2>4
      <3>2. Coming' = Append(Append(Coming, x), BatchEnd)
        BY <1>1, <2>1, <2>3, <3>1, AppendTwo
      <3> QED BY <2>1, <2>4, <3>2 DEF x
    <2>5. CASE ~(batchSize > 0 /\ currIndex + 1 >= batchSize)
      <3>1. owed' = <<x>> \o << >>
        BY <2>2, <2>5
      <3>2. Coming' = Append(Coming, x)
        BY <1>1, <2>1, <2>3, <3>1, AppendTwo
      <3> QED BY <2>1, <2>5, <3>2 DEF x
    <2> QED BY <2>4, <2>5
  <1>4. ASSUME IngestEof PROVE Coming' = Append(Append(Coming, BatchEnd), Eof)
    <2>1. owed = << >> /\ toWriter' = toWriter /\ owed' = <<BatchEnd, Eof>>
      BY <1>4 DEF IngestEof
    <2>2. <<BatchEnd, Eof>> = <<BatchEnd>> \o <<Eof>>
      BY <1>1, PairIs
    <2>3. Coming' = toWriter \o (<<BatchEnd>> \o <<Eof>>) /\ Coming = toWriter
      BY <1>2, <2>1, <2>2 DEF Coming
    <2> QED BY <1>1, <2>3, AppendTwo
  <1>5. ASSUME Linger PROVE Coming' = Append(Coming, BatchEnd)
    <2>1. owed = << >> /\ toWriter' = toWriter /\ owed' = <<BatchEnd>>
      BY <1>5 DEF Linger
    <2>2. Coming' = toWriter \o <<BatchEnd>> /\ Coming = toWriter
      BY <1>2, <2>1 DEF Coming
    <2> QED BY <1>1, <2>2, AppendTwo
  <1> QED BY <1>3, <1>4, <1>5

\* While channels wait, nothing is discarded.
LEMMA NothingDiscarded ==
    ASSUME ~discards, NEW ch, HasRoom(ch)
    PROVE  Discarded(ch) = {} /\ \A msg : Forwarded(ch, msg) = Append(ch, msg)
  BY DEF HasRoom, Discarded, Forwarded

\* A message that BatchOp broadcasts was to come before.
LEMMA ComingSent ==
    ASSUME PathTypes, SendOwed, ~discards
    PROVE  Coming' = Coming
  <1>1. /\ toWriter' = Append(toWriter, Head(owed)) /\ owed' = Tail(owed) /\ owed # << >>
    BY NothingDiscarded DEF SendOwed
  <1>2. toWriter \in Seq(Messages) /\ owed \in Seq(Messages)
    BY ComingIs
  <1>3. Append(toWriter, Head(owed)) \o Tail(owed) = toWriter \o owed
    BY <1>1, <1>2, HeadAndTail
  <1> QED BY <1>1, <1>3 DEF Coming

\* What is to come when the writer has taken a message.
LEMMA ComingPasses ==
    ASSUME PathTypes, toWriter # << >>, toWriter' = Tail(toWriter), owed' = owed
    PROVE  /\ Coming' \in Seq(Messages) /\ Len(Coming') = Len(Coming) - 1
           /\ Len(Coming) \in Nat \ {0} /\ Coming[1] = Head(toWriter)
           /\ \A k \in 1..(Len(Coming) - 1) : Coming'[k] = Coming[k + 1]
  <1>1. toWriter \in Seq(Messages) /\ owed \in Seq(Messages)
    BY ComingIs
  <1>2. Coming' = Tail(toWriter) \o owed
    BY DEF Coming
  <1> QED BY <1>1, <1>2, ConcatTail DEF Coming

LEMMA FillsNext ==
    ASSUME UNCHANGED <<batchSize, lingers>>, NEW ch, NEW n, NEW m, NEW e,
           ch = Coming', n = Len(written'), m = currIndex', e = ended',
           \E d : Fills(d, ch, n, m, e)
    PROVE  (\E c : Fills(c, Coming, Len(written), currIndex, ended))'
  <1>1. PICK d : Fills(d, ch, n, m, e)
    OBVIOUS
  <1>2. Fills(d, Coming, Len(written), currIndex, ended)'
    BY <1>1 DEF Fills
  <1> QED BY <1>2
-----------------------------------------------------------------------------
(* Batches and the end of the stream.                                      *)

\* The count of items, across a step of BatchOp.
LEMMA FillByBatchOp ==
    ASSUME PathTypes, FillInv, IngestItem \/ IngestEof \/ Linger \/ SendOwed
    PROVE  FillInv'
  <1>1. /\ Coming \in Seq(Messages) /\ BatchEnd \in Messages /\ Eof \in Messages
        /\ BatchEnd \in Ends /\ Eof \in Ends /\ batchSize \in Nat /\ currIndex \in Nat /\ BatchEnd # Eof
        /\ ended \in BOOLEAN
    BY ComingIs DEF PathTypes
  <1>2. UNCHANGED <<batchSize, lingers, discards, written>>
    BY DEF IngestItem, IngestEof, Linger, SendOwed, config
  <1>3. batchSize > 0 => currIndex < batchSize
    BY DEF FillInv
  <1>4. batchSize > 0 => currIndex' < batchSize
    BY <1>1, <1>3 DEF IngestItem, IngestEof, Linger, SendOwed
  <1>5. ASSUME ~discards PROVE \E d : Fills(d, Coming', Len(written'), currIndex', ended')
    <2>1. PICK c : Fills(c, Coming, Len(written), currIndex, ended)
      BY <1>5 DEF FillInv
    <2> DEFINE C == Coming
               n == Len(written)
               i == currIndex
    <2>2. Len(written') = n
      BY <1>2
    <2>3. CASE IngestItem
      <3> DEFINE x == <<inputs + 1>>
      <3>1. x \in Messages /\ x \notin Ends /\ x # Eof /\ x # BatchEnd /\ ~ended /\ ended' = ended
            /\ ended = FALSE
        BY <1>1, <2>3, ComingMore DEF IngestItem
      <3>2. /\ Coming' = (IF batchSize > 0 /\ i + 1 >= batchSize
                          THEN Append(Append(C, x), BatchEnd) ELSE Append(C, x))
            /\ currIndex' = (IF batchSize > 0 /\ i + 1 >= batchSize THEN 0 ELSE i + 1)
        BY <2>3, ComingMore DEF IngestItem
      <3> HIDE DEF x, C, n, i
      <3>3. \E d : Fills(d, Append(C, x), n, i + 1, FALSE) /\ C \in Seq(Messages) /\ i \in Nat
        <4>1. /\ C \in Seq(Messages) /\ i \in Nat /\ Fills(c, C, n, i, FALSE)
              /\ (batchSize > 0 => (i = batchSize => x = BatchEnd) /\ (i + 1 <= batchSize \/ x \in Ends))
          <5>1. C \in Seq(Messages) /\ i \in Nat
            BY <1>1 DEF C, i
          <5>2. Fills(c, C, n, i, FALSE)
            BY <2>1, <3>1 DEF C, n, i
          <5>3. batchSize > 0 => i < batchSize
            BY <1>3 DEF i
          <5>4. batchSize > 0 => i # batchSize /\ i + 1 <= batchSize
            BY <1>1, <5>1, <5>3
          <5> QED BY <5>1, <5>2, <5>4
        <4>2. \E d : Fills(d, Append(C, x), n, IF x \in Ends THEN 0 ELSE i + 1, FALSE)
          BY <1>1, <3>1, <4>1, FillsMore
        <4> QED BY <3>1, <4>1, <4>2
      <3>4. CASE batchSize > 0 /\ i + 1 >= batchSize
        <4>1. PICK d : Fills(d, Append(C, x), n, i + 1, FALSE)
          BY <3>3
        <4>2. Append(C, x) \in Seq(Messages) /\ i \in Nat
          BY <3>1, <3>3, AppendTwo
        <4>3. i + 1 = batchSize
          <5>1. i < batchSize
            BY <1>3, <3>4 DEF i
          <5> QED BY <1>1, <3>4, <4>2, <5>1
        <4> DEFINE D == Append(C, x)
                   k == i + 1
        <4>4. Fills(d, D, n, k, FALSE) /\ D \in Seq(Messages) /\ k = batchSize
          BY <4>1, <4>2, <4>3
        <4> HIDE DEF D, k
        <4>5. \E g : Fills(g, Append(D, BatchEnd), n, IF BatchEnd \in Ends THEN 0 ELSE k + 1, FALSE)
          BY <1>1, <3>4, <4>4, FillsMore
        <4>6. Coming' = Append(D, BatchEnd) /\ currIndex' = 0 /\ ended' = FALSE
          BY <3>1, <3>2, <3>4 DEF D
        <4> QED BY <1>1, <2>2, <4>5, <4>6
      <3>5. CASE ~(batchSize > 0 /\ i + 1 >= batchSize)
        <4>1. Coming' = Append(C, x) /\ currIndex' = i + 1 /\ ended' = FALSE
          BY <3>1, <3>2, <3>5
        <4> QED BY <2>2, <3>3, <4>1
      <3> QED BY <3>4, <3>5
    <2>4. ASSUME NEW f \in BOOLEAN, f = ended \/ f = TRUE, lingers \/ f = TRUE
          PROVE  \E d : Fills(d, Append(C, BatchEnd), n, 0, f)
      <3>1. ended => f /\ BatchEnd \in Ends
        BY <1>1, <2>4
      <3>2. BatchEnd = BatchEnd => i = 0 \/ (batchSize > 0 /\ i = batchSize) \/ lingers \/ f
        BY <2>4
      <3>3. \E d : Fills(d, Append(C, BatchEnd), n, IF BatchEnd \in Ends THEN 0 ELSE i + 1, f)
        BY <1>1, <2>1, <3>1, <3>2, FillsMore
      <3> QED BY <1>1, <3>3
    <2>5. CASE IngestEof
      <3>1. Coming' = Append(Append(C, BatchEnd), Eof) /\ currIndex' = 0 /\ ended' = TRUE
        BY <2>5, ComingMore DEF IngestEof
      <3>2. PICK d : Fills(d, Append(C, BatchEnd), n, 0, TRUE)
        BY <2>4
      <3> DEFINE D == Append(C, BatchEnd)
      <3>3. Fills(d, D, n, 0, TRUE) /\ D \in Seq(Messages)
        BY <1>1, <3>2, AppendTwo
      <3> HIDE DEF D
      <3>4. batchSize > 0 => (0 = batchSize => Eof = BatchEnd) /\ (0 + 1 <= batchSize \/ Eof \in Ends)
        BY <1>1
      <3>5. \E g : Fills(g, Append(D, Eof), n, IF Eof \in Ends THEN 0 ELSE 0 + 1, TRUE)
        BY <1>1, <3>3, <3>4, FillsMore
      <3>6. Coming' = Append(D, Eof)
        BY <3>1 DEF D
      <3> QED BY <1>1, <2>2, <3>1, <3>5, <3>6
    <2>6. CASE Linger
      <3>1. Coming' = Append(C, BatchEnd) /\ currIndex' = 0 /\ ended' = ended /\ lingers
        BY <2>6, ComingMore DEF Linger
      <3>2. \E d : Fills(d, Append(C, BatchEnd), n, 0, ended)
        BY <1>1, <2>4, <3>1
      <3> QED BY <2>2, <3>1, <3>2
    <2>7. CASE SendOwed
      <3>1. Coming' = Coming /\ currIndex' = currIndex /\ ended' = ended
        BY <1>5, <2>7, ComingSent DEF SendOwed
      <3> QED BY <1>2, <2>1, <3>1
    <2> QED BY <2>3, <2>5, <2>6, <2>7
  <1>6. ASSUME ~discards PROVE (\E c : Fills(c, Coming, Len(written), currIndex, ended))'
    BY <1>2, <1>5, <1>6, FillsNext
  <1> QED BY <1>2, <1>4, <1>6 DEF FillInv

\* What the writer finds, by what it has counted.
LEMMA FillAtWriter ==
    ASSUME PathTypes, FillInv, ~discards, toWriter # << >>,
           toWriter' = Tail(toWriter), owed' = owed
    PROVE  LET n == Len(written) IN
           /\ \E d : Fills(d, Coming', IF Head(toWriter) \in Ends THEN 0 ELSE n + 1, currIndex, ended)
           /\ n \in Nat /\ (Head(toWriter) = Eof => n = 0)
           /\ Head(toWriter) = BatchEnd /\ n > 0 =>
                  \/ batchSize > 0 /\ n = batchSize
                  \/ lingers
                  \/ ended /\ \A k \in 1..Len(Coming) : Coming[k] \in Ends
           /\ batchSize > 0 => n <= batchSize
  <1>1. /\ Coming \in Seq(Messages) /\ Coming' \in Seq(Messages) /\ Len(Coming') = Len(Coming) - 1
        /\ Len(Coming) \in Nat \ {0} /\ Coming[1] = Head(toWriter)
        /\ \A k \in 1..(Len(Coming) - 1) : Coming'[k] = Coming[k + 1]
    BY ComingIs, ComingPasses
  <1>2. PICK c : Fills(c, Coming, Len(written), currIndex, ended)
    BY DEF FillInv
  <1> DEFINE C == Coming
             D == Coming'
             n == Len(written)
  <1>3. /\ C \in Seq(Messages) /\ D \in Seq(Messages) /\ Len(D) = Len(C) - 1
        /\ Len(C) \in Nat \ {0} /\ C[1] = Head(toWriter)
        /\ \A k \in 1..(Len(C) - 1) : D[k] = C[k + 1]
        /\ Fills(c, C, n, currIndex, ended)
    BY <1>1, <1>2
  <1> HIDE DEF C, D, n
  <1>4. /\ \E d : Fills(d, D, IF C[1] \in Ends THEN 0 ELSE n + 1, currIndex, ended)
        /\ n \in Nat /\ (C[1] = Eof => n = 0)
        /\ C[1] = BatchEnd /\ n > 0 =>
               \/ batchSize > 0 /\ n = batchSize
               \/ lingers
               \/ ended /\ \A k \in 1..Len(C) : C[k] \in Ends
        /\ batchSize > 0 => n <= batchSize
    BY <1>3, FillsPass
  <1> QED BY <1>3, <1>4 DEF C, D, n

\* The count of items, across a step of the writer.
LEMMA FillByWriter ==
    ASSUME PathTypes, OrderInv, FillInv, WriterStep
    PROVE  FillInv'
  <1>1. /\ UNCHANGED <<config, batchVars>> /\ toWriter # << >> /\ toWriter' = Tail(toWriter)
    BY DEF WriterStep, Write, SkipBatchEnd, FlushBatch, PassEof
  <1>2. UNCHANGED <<batchSize, lingers, discards, owed, currIndex, ended>>
    BY <1>1 DEF config, batchVars
  <1>3. ASSUME ~discards PROVE \E d : Fills(d, Coming', Len(written'), currIndex', ended')
    <2>1. /\ \E d : Fills(d, Coming', IF Head(toWriter) \in Ends THEN 0 ELSE Len(written) + 1,
                          currIndex, ended)
          /\ Head(toWriter) = Eof => Len(written) = 0
      BY <1>1, <1>2, <1>3, FillAtWriter
    <2>2. Len(written') = IF Head(toWriter) \in Ends THEN 0 ELSE Len(written) + 1
      <3>1. CASE Write
        <4>1. Head(toWriter) \notin Ends /\ written' = written \o Head(toWriter)
          BY <3>1 DEF Write, Ends
        <4>2. Head(toWriter) \in Seq(Nat) /\ Len(Head(toWriter)) = 1 /\ written \in Seq(Nat)
          BY <1>1, <4>1, WriterTakes DEF PathTypes
        <4>3. Len(written \o Head(toWriter)) = Len(written) + Len(Head(toWriter))
          BY <4>2, ConcatProperties
        <4> QED BY <4>1, <4>2, <4>3
      <3>2. CASE SkipBatchEnd \/ FlushBatch
        BY <3>2 DEF SkipBatchEnd, FlushBatch, Ends
      <3>3. CASE PassEof
        BY <2>1, <3>3 DEF PassEof, Ends
      <3> QED BY <3>1, <3>2, <3>3 DEF WriterStep
    <2> QED BY <1>2, <2>1, <2>2
  <1>4. ASSUME ~discards PROVE (\E c : Fills(c, Coming, Len(written), currIndex, ended))'
    BY <1>2, <1>3, <1>4, FillsNext
  <1> QED BY <1>2, <1>4 DEF FillInv

\* The count of items of each batch to come, across every step.
LEMMA FillKept ==
    ASSUME PathTypes, OrderInv, FillInv, PathNext
    PROVE  FillInv'
  <1>1. CASE (\E s \in SinkNodes : SinkStep(s)) \/ Reroute \/ HearEof
    <2>1. UNCHANGED <<config, batchVars, toWriter, written>>
      BY <1>1 DEF SinkStep, CollectBatch, CollectFails, DropFailed, Retry, GiveUp, Reroute, HearEof
    <2>2. UNCHANGED <<batchSize, lingers, discards, currIndex, Coming, written, ended>>
      BY <2>1 DEF config, batchVars, Coming
    <2>3. ASSUME ~discards PROVE (\E c : Fills(c, Coming, Len(written), currIndex, ended))'
      <3>1. \E d : Fills(d, Coming', Len(written'), currIndex', ended')
        BY <2>2, <2>3 DEF FillInv
      <3> QED BY <2>2, <3>1, FillsNext
    <2> QED BY <2>2, <2>3 DEF FillInv
  <1> QED BY <1>1, FillByBatchOp, FillByWriter DEF PathNext

\* Without an alternative queue nothing is in it, and a retry loses nothing.
LEMMA ModeKept ==
    ASSUME PathTypes, OrderInv, ModeInv, PathNext
    PROVE  ModeInv'
  <1>1. UNCHANGED <<onFailure, discards, ioErrors>>
    <2>1. UNCHANGED config
      BY DEF PathNext, IngestItem, IngestEof, Linger, SendOwed, WriterStep, Write, SkipBatchEnd,
             FlushBatch, PassEof, SinkStep, CollectBatch, CollectFails, DropFailed, Retry, GiveUp,
             Reroute, HearEof
    <2> QED BY <2>1 DEF config
  <1>2. ASSUME onFailure # "alter"
        PROVE  queue'["resend"] = << >> /\ held'["resend"] = << >> /\ taken'["resend"] = << >>
    <2>1. queue["resend"] = << >> /\ held["resend"] = << >> /\ taken["resend"] = << >>
      BY <1>2 DEF ModeInv
    <2>2. CASE \E s \in SinkNodes : SinkStep(s)
      <3>1. PICK s \in SinkNodes : SinkStep(s)
        BY <2>2
      <3>2. CASE s = "resend"
        BY <2>1, <3>1, <3>2, SinkEffect DEF Takes, Rows
      <3>3. CASE s = "main"
        <4>1. queue'["resend"] = queue["resend"] /\ held'["resend"] = held["resend"]
              /\ taken'["resend"] = taken["resend"]
          BY <3>1, <3>3, SinkEffect, SinksAre
        <4> QED BY <2>1, <4>1
      <3> QED BY <3>2, <3>3, SinksAre
    <2>3. CASE IngestItem \/ IngestEof \/ Linger \/ SendOwed
      BY <2>1, <2>3 DEF IngestItem, IngestEof, Linger, SendOwed, sinkVars
    <2>4. CASE WriterStep \/ HearEof
      <3>1. queue' = queue \/ \E x : queue' = [queue EXCEPT !["main"] = x]
        BY <2>4 DEF WriterStep, Write, SkipBatchEnd, FlushBatch, PassEof, HearEof
      <3>2. queue'["resend"] = queue["resend"]
        BY <3>1, SinksAre DEF PathTypes
      <3>3. held' = held /\ taken' = taken
        BY <2>4 DEF WriterStep, Write, SkipBatchEnd, FlushBatch, PassEof, HearEof, sinkVars
      <3> QED BY <2>1, <3>2, <3>3
    <2>5. CASE Reroute
      BY <1>2, <2>5 DEF Reroute
    <2> QED BY <2>2, <2>3, <2>4, <2>5 DEF PathNext
  <1>3. ASSUME ~discards, onFailure = "retry", ioErrors
        PROVE  lost' = {}
    <2>1. lost = {}
      BY <1>3 DEF ModeInv
    <2>2. CASE \E s \in SinkNodes : SinkStep(s)
      <3>1. PICK s \in SinkNodes : SinkStep(s)
        BY <2>2
      <3>2. Retries(s)
        BY <1>3, <3>1 DEF Retries
      <3> QED BY <1>3, <2>1, <3>1, <3>2, SinkEffect
    <2>3. CASE SendOwed \/ FlushBatch \/ PassEof
      <3>1. \E ch : HasRoom(ch) /\ lost' = lost \cup Discarded(ch)
        BY <2>3 DEF SendOwed, FlushBatch, PassEof
      <3> QED BY <1>3, <2>1, <3>1, NothingDiscarded
    <2>4. CASE IngestItem \/ IngestEof \/ Linger \/ Write \/ SkipBatchEnd \/ HearEof
      BY <2>1, <2>4 DEF IngestItem, IngestEof, Linger, Write, SkipBatchEnd, HearEof
    <2>5. CASE Reroute
      BY <1>3, <2>5 DEF Reroute
    <2> QED BY <2>2, <2>3, <2>4, <2>5 DEF PathNext, WriterStep
  <1>4. /\ queue'["resend"] = << >> /\ held'["resend"] = << >> /\ taken'["resend"] = << >>
        \/ onFailure = "alter"
    BY <1>2
  <1>5. lost' = {} \/ ~(~discards /\ onFailure = "retry" /\ ioErrors)
    BY <1>3
  <1> QED BY <1>1, <1>4, <1>5 DEF ModeInv

LEMMA EndsWellMore ==
    ASSUME NEW ch \in Seq(Messages), NEW msg \in Messages, NEW f \in BOOLEAN, NEW g \in BOOLEAN,
           EndsWell(ch, f), f => g /\ msg = BatchEnd, msg = Eof => g
    PROVE  EndsWell(Append(ch, msg), g)
  <1> DEFINE N == Len(ch)
             new == Append(ch, msg)
  <1>1. /\ N \in Nat /\ DOMAIN ch = 1..N /\ DOMAIN new = 1..(N + 1)
        /\ \A k \in 1..N : new[k] = ch[k]
        /\ new[N + 1] = msg
    BY AppendProperties, LenProperties
  <1> HIDE DEF N, new
  <1>2. \A k \in 1..(N + 1) : k \in 1..N \/ k = N + 1
    BY <1>1
  <1>3. ASSUME NEW k \in 1..(N + 1), new[k] = Eof
        PROVE  g /\ \A j \in 1..(N + 1) : j > k => new[j] = BatchEnd
    <2>1. CASE k \in 1..N
      <3>1. f /\ \A j \in 1..N : j > k => ch[j] = BatchEnd
        BY <1>1, <1>3, <2>1 DEF EndsWell
      <3> QED BY <1>1, <1>2, <3>1
    <2>2. CASE k = N + 1
      <3>1. \A j \in 1..(N + 1) : ~(j > k)
        BY <1>1, <2>2
      <3> QED BY <1>1, <1>3, <2>2, <3>1
    <2> QED BY <1>2, <2>1, <2>2
  <1>4. EndsWell(new, g)
    BY <1>1, <1>3 DEF EndsWell
  <1> QED BY <1>4 DEF new

LEMMA OnlyEndsMore ==
    ASSUME NEW ch \in Seq(Messages), OnlyEnds(ch), BatchEnd \in Messages
    PROVE  OnlyEnds(Append(ch, BatchEnd))
  <1>1. /\ DOMAIN ch = 1..Len(ch) /\ Len(ch) \in Nat
        /\ DOMAIN Append(ch, BatchEnd) = 1..(Len(ch) + 1)
        /\ \A k \in 1..Len(ch) : Append(ch, BatchEnd)[k] = ch[k]
        /\ Append(ch, BatchEnd)[Len(ch) + 1] = BatchEnd
    BY AppendProperties, LenProperties
  <1>2. \A k \in 1..(Len(ch) + 1) : k \in 1..Len(ch) \/ k = Len(ch) + 1
    BY <1>1
  <1> QED BY <1>1, <1>2 DEF OnlyEnds

LEMMA EndsWellPass ==
    ASSUME NEW ch \in Seq(Messages), NEW new \in Seq(Messages), Len(ch) \in Nat \ {0},
           Len(new) = Len(ch) - 1, \A k \in 1..(Len(ch) - 1) : new[k] = ch[k + 1]
    PROVE  /\ \A f : EndsWell(ch, f) => EndsWell(new, f)
           /\ \A f : EndsWell(ch, f) /\ ch[1] = Eof => f /\ OnlyEnds(new)
           /\ OnlyEnds(ch) => OnlyEnds(new) /\ ch[1] = BatchEnd
  <1>1. /\ DOMAIN ch = 1..Len(ch) /\ DOMAIN new = 1..(Len(ch) - 1)
        /\ \A k \in 1..(Len(ch) - 1) : k + 1 \in 1..Len(ch) /\ k + 1 > 1
        /\ \A j, k \in 1..(Len(ch) - 1) : j > k => j + 1 > k + 1
        /\ 1 \in 1..Len(ch)
    OBVIOUS
  <1>2. \A f : EndsWell(ch, f) => EndsWell(new, f)
    BY <1>1 DEF EndsWell
  <1>3. \A f : EndsWell(ch, f) /\ ch[1] = Eof => f /\ OnlyEnds(new)
    BY <1>1 DEF EndsWell, OnlyEnds
  <1>4. OnlyEnds(ch) => OnlyEnds(new) /\ ch[1] = BatchEnd
    BY <1>1 DEF OnlyEnds
  <1> QED BY <1>2, <1>3, <1>4

LEMMA NoEofComing ==
    ASSUME NEW ch, OnlyEnds(ch)
    PROVE  \A g : EndsWell(ch, g)
  BY PathAssumption DEF OnlyEnds, EndsWell

LEMMA EofTaken ==
    ASSUME NEW S, NEW q \in Seq(S), q # << >>, \A k \in DOMAIN q : q[k] = Eof => k = Len(q)
    PROVE  /\ \A k \in DOMAIN Tail(q) : Tail(q)[k] = Eof => k = Len(Tail(q))
           /\ ToSet(Tail(q)) \subseteq ToSet(q) /\ Head(q) \in ToSet(q)
           /\ Head(q) = Eof => Tail(q) = << >>
  <1>1. /\ Tail(q) \in Seq(S) /\ Head(q) = q[1] /\ Len(q) \in Nat \ {0} /\ DOMAIN q = 1..Len(q)
        /\ Len(Tail(q)) = Len(q) - 1 /\ DOMAIN Tail(q) = 1..(Len(q) - 1)
        /\ \A i \in 1..(Len(q) - 1) : i + 1 \in 1..Len(q) /\ Tail(q)[i] = q[i + 1]
    BY TailIs
  <1>2. 1 \in 1..Len(q)
    BY <1>1
  <1>3. ASSUME NEW k \in DOMAIN Tail(q), Tail(q)[k] = Eof PROVE k = Len(Tail(q))
    <2>1. k + 1 \in DOMAIN q /\ q[k + 1] = Eof /\ k \in 1..(Len(q) - 1)
      BY <1>1, <1>3
    <2>2. k + 1 = Len(q)
      BY <2>1
    <2> QED BY <1>1, <2>1, <2>2
  <1>4. ToSet(Tail(q)) \subseteq ToSet(q) /\ Head(q) \in ToSet(q)
    BY <1>1, <1>2 DEF ToSet
  <1>5. ASSUME Head(q) = Eof PROVE Tail(q) = << >>
    <2>1. Len(q) = 1
      BY <1>1, <1>2, <1>5
    <2> QED BY <1>1, <2>1
  <1> QED BY <1>3, <1>4, <1>5

LEMMA EofPut ==
    ASSUME NEW S, NEW q \in Seq(S), NEW x \in S, Eof \notin ToSet(q)
    PROVE  /\ \A k \in DOMAIN Append(q, x) : Append(q, x)[k] = Eof => k = Len(Append(q, x))
           /\ x # Eof => Eof \notin ToSet(Append(q, x))
           /\ ToSet(Append(q, x)) = ToSet(q) \cup {x}
  <1> DEFINE N == Len(q)
             d == Append(q, x)
  <1>1. /\ N \in Nat /\ Len(d) = N + 1 /\ DOMAIN d = 1..(N + 1) /\ DOMAIN q = 1..N
        /\ \A i \in 1..N : d[i] = q[i]
        /\ d[N + 1] = x
    BY AppendProperties, LenProperties
  <1> HIDE DEF N, d
  <1>2. \A i \in 1..(N + 1) : i \in 1..N \/ i = N + 1
    BY <1>1
  <1>3. \A i \in 1..N : q[i] # Eof /\ i \in 1..(N + 1)
    BY <1>1 DEF ToSet
  <1>4. \A k \in DOMAIN d : d[k] = Eof => k = Len(d)
    BY <1>1, <1>2, <1>3
  <1>5. N + 1 \in 1..(N + 1)
    BY <1>1
  <1>6. ToSet(d) = ToSet(q) \cup {x}
    BY <1>1, <1>2, <1>3, <1>5 DEF ToSet
  <1> QED BY <1>4, <1>6 DEF d

LEMMA EofByBatchOp ==
    ASSUME PathTypes, EofInv, ~discards, IngestItem \/ IngestEof \/ Linger \/ SendOwed
    PROVE  EofInv'
  <1> DEFINE q == queue["main"]
             C == Coming
             f == ended /\ ~heardEof /\ Eof \notin ToSet(q)
  <1>1. /\ C \in Seq(Messages) /\ BatchEnd \in Messages /\ Eof \in Messages /\ BatchEnd # Eof
        /\ ended \in BOOLEAN /\ heardEof \in BOOLEAN /\ BatchEnd \in Ends /\ Eof \in Ends
    BY ComingIs DEF PathTypes
  <1>2. UNCHANGED <<queue, held, heardEof, discards, written>>
    BY DEF IngestItem, IngestEof, Linger, SendOwed, config, sinkVars
  <1>3. /\ EndsWell(C, f)
        /\ heardEof \/ Eof \in ToSet(q) => ended /\ written = << >> /\ OnlyEnds(C)
        /\ \A k \in DOMAIN q : q[k] = Eof => k = Len(q)
        /\ heardEof => q = << >> /\ held["main"] = << >>
    BY DEF EofInv
  <1> HIDE DEF q, C
  <1>4. ASSUME EndsWell(Coming', ended' /\ ~heardEof /\ Eof \notin ToSet(q)),
               heardEof \/ Eof \in ToSet(q) => ended' /\ OnlyEnds(Coming')
        PROVE  EofInv'
    <2>1. queue'["main"] = q /\ held'["main"] = held["main"] /\ heardEof' = heardEof /\ written' = written
      BY <1>2 DEF q
    <2>2. EndsWell(Coming', ended' /\ ~heardEof' /\ Eof \notin ToSet(queue'["main"]))
      BY <1>4, <2>1
    <2> QED BY <1>3, <1>4, <2>1, <2>2 DEF EofInv, EndsWell, OnlyEnds
  <1>5. ASSUME ~ended
        PROVE  /\ EndsWell(C, FALSE) /\ ~heardEof /\ Eof \notin ToSet(q)
               /\ \A x \in Messages : x # Eof => EndsWell(Append(C, x), FALSE)
    <2>1. ~heardEof /\ Eof \notin ToSet(q) /\ f = FALSE
      BY <1>3, <1>5
    <2>2. EndsWell(C, FALSE)
      BY <1>3, <2>1
    <2>3. ASSUME NEW x \in Messages, x # Eof PROVE EndsWell(Append(C, x), FALSE)
      BY <1>1, <2>2, <2>3, EndsWellMore
    <2> QED BY <2>1, <2>2, <2>3
  <1>6. CASE IngestItem
    <2> DEFINE x == <<inputs + 1>>
    <2>1. x \in Messages /\ x # Eof /\ ~ended /\ ended' = ended
          /\ (Coming' = Append(Append(C, x), BatchEnd) \/ Coming' = Append(C, x))
      BY <1>1, <1>6, ComingMore DEF IngestItem, C
    <2> HIDE DEF x
    <2>2. EndsWell(Append(C, x), FALSE) /\ Append(C, x) \in Seq(Messages)
      BY <1>1, <1>5, <2>1, AppendTwo
    <2>3. EndsWell(Append(Append(C, x), BatchEnd), FALSE)
      BY <1>1, <2>2, EndsWellMore
    <2>4. EndsWell(Coming', FALSE)
      BY <2>1, <2>2, <2>3
    <2>5. (ended' /\ ~heardEof /\ Eof \notin ToSet(q)) = FALSE
      BY <2>1
    <2> QED BY <1>4, <1>5, <2>1, <2>4, <2>5
  <1>7. CASE IngestEof
    <2>1. Coming' = Append(Append(C, BatchEnd), Eof) /\ ended' = TRUE /\ ~ended
      BY <1>7, ComingMore DEF IngestEof, C
    <2>2. EndsWell(Append(C, BatchEnd), FALSE) /\ Append(C, BatchEnd) \in Seq(Messages)
      BY <1>1, <1>5, <2>1, AppendTwo
    <2>3. EndsWell(Append(Append(C, BatchEnd), Eof), TRUE)
      BY <1>1, <2>2, EndsWellMore
    <2>4. (ended' /\ ~heardEof /\ Eof \notin ToSet(q)) = TRUE
      BY <1>5, <2>1
    <2> QED BY <1>4, <1>5, <2>1, <2>3, <2>4
  <1>8. CASE Linger
    <2>1. Coming' = Append(C, BatchEnd) /\ ended' = ended
      BY <1>8, ComingMore DEF Linger, C
    <2>2. EndsWell(Append(C, BatchEnd), f)
      <3>1. f \in BOOLEAN
        BY <1>1
      <3> HIDE DEF f
      <3> QED BY <1>1, <1>3, <3>1, EndsWellMore
    <2>3. OnlyEnds(C) => OnlyEnds(Append(C, BatchEnd))
      BY <1>1, OnlyEndsMore
    <2> QED BY <1>3, <1>4, <2>1, <2>2, <2>3
  <1>9. CASE SendOwed
    <2>1. Coming' = C /\ ended' = ended
      BY <1>9, ComingSent DEF SendOwed, C
    <2> QED BY <1>3, <1>4, <2>1
  <1> QED BY <1>6, <1>7, <1>8, <1>9

LEMMA EofByWriter ==
    ASSUME PathTypes, OrderInv, FillInv, EofInv, ~discards, WriterStep
    PROVE  EofInv'
  <1> DEFINE q == queue["main"]
             C == Coming
             D == Coming'
             f == ended /\ ~heardEof /\ Eof \notin ToSet(q)
  <1>1. /\ UNCHANGED <<config, batchVars, sinkVars>> /\ toWriter # << >> /\ toWriter' = Tail(toWriter)
    BY DEF WriterStep, Write, SkipBatchEnd, FlushBatch, PassEof
  <1>2. UNCHANGED <<ended, owed, held, heardEof, discards>>
    BY <1>1 DEF config, batchVars, sinkVars
  <1>3. /\ C \in Seq(Messages) /\ D \in Seq(Messages) /\ Len(D) = Len(C) - 1
        /\ Len(C) \in Nat \ {0} /\ C[1] = Head(toWriter)
        /\ \A k \in 1..(Len(C) - 1) : D[k] = C[k + 1]
    BY <1>1, <1>2, ComingIs, ComingPasses
  <1>4. /\ EndsWell(C, f)
        /\ heardEof \/ Eof \in ToSet(q) => ended /\ written = << >> /\ OnlyEnds(C)
        /\ \A k \in DOMAIN q : q[k] = Eof => k = Len(q)
        /\ heardEof => q = << >> /\ held["main"] = << >>
    BY DEF EofInv
  <1>5. q \in Seq(Rows \cup {Eof}) /\ queue \in [SinkNodes -> Seq(Rows \cup {Eof})]
        /\ written \in Seq(Nat) /\ BatchEnd # Eof /\ Eof \notin Seq(Nat)
    BY SinksAre, PathAssumption DEF PathTypes
  <1> HIDE DEF q, C, D
  <1>6. /\ \A g : EndsWell(C, g) => EndsWell(D, g)
        /\ \A g : EndsWell(C, g) /\ C[1] = Eof => g /\ OnlyEnds(D)
        /\ OnlyEnds(C) => OnlyEnds(D) /\ C[1] = BatchEnd
    BY <1>3, EndsWellPass
  <1>7. EndsWell(D, f)
    BY <1>4, <1>6
  <1>8. ASSUME NEW p, queue'["main"] = p,
               EndsWell(D, ended /\ ~heardEof /\ Eof \notin ToSet(p)),
               heardEof \/ Eof \in ToSet(p) => ended /\ written' = << >> /\ OnlyEnds(D),
               \A k \in DOMAIN p : p[k] = Eof => k = Len(p),
               heardEof => p = << >> /\ held["main"] = << >>
        PROVE  EofInv'
    <2>1. EndsWell(Coming', ended' /\ ~heardEof' /\ Eof \notin ToSet(queue'["main"]))
      BY <1>2, <1>8 DEF D
    <2>2. OnlyEnds(D) => OnlyEnds(Coming')
      BY DEF D
    <2> QED BY <1>2, <1>8, <2>1, <2>2 DEF EofInv, EndsWell, OnlyEnds
  <1>9. CASE Write
    <2>1. queue'["main"] = q /\ C[1] # BatchEnd
      BY <1>3, <1>9 DEF Write, q
    <2>2. ~heardEof /\ Eof \notin ToSet(q)
      BY <1>4, <1>6, <2>1
    <2> QED BY <1>4, <1>7, <1>8, <2>1, <2>2
  <1>10. CASE SkipBatchEnd
    <2>1. queue'["main"] = q /\ written' = written
      BY <1>10 DEF SkipBatchEnd, q
    <2> QED BY <1>4, <1>6, <1>7, <1>8, <2>1
  <1>11. ASSUME NEW x \in Rows \cup {Eof}, HasRoom(q), queue' = [queue EXCEPT !["main"] = Forwarded(q, x)]
         PROVE  queue'["main"] = Append(q, x)
    BY <1>5, <1>11, NothingDiscarded, SinksAre
  <1>12. CASE FlushBatch
    <2>1. /\ written # << >> /\ HasRoom(q) /\ queue' = [queue EXCEPT !["main"] = Forwarded(q, written)]
      BY <1>12 DEF FlushBatch, q
    <2>2. written \in Rows \cup {Eof} /\ written # Eof
      BY <1>5, <2>1 DEF Rows
    <2>3. queue'["main"] = Append(q, written)
      BY <1>11, <2>1, <2>2
    <2>4. ~heardEof /\ Eof \notin ToSet(q)
      BY <1>4, <2>1
    <2>5. /\ \A k \in DOMAIN Append(q, written) : Append(q, written)[k] = Eof => k = Len(Append(q, written))
          /\ Eof \notin ToSet(Append(q, written))
      BY <1>5, <2>2, <2>4, EofPut
    <2>6. EndsWell(D, ended /\ ~heardEof /\ Eof \notin ToSet(Append(q, written)))
      BY <1>7, <2>4, <2>5 DEF EndsWell
    <2> QED BY <1>8, <2>3, <2>4, <2>5, <2>6
  <1>13. CASE PassEof
    <2>1. /\ C[1] = Eof /\ HasRoom(q) /\ queue' = [queue EXCEPT !["main"] = Forwarded(q, Eof)]
          /\ written' = written
      BY <1>3, <1>13 DEF PassEof, q
    <2>2. queue'["main"] = Append(q, Eof)
      BY <1>11, <2>1
    <2>3. ended /\ ~heardEof /\ Eof \notin ToSet(q) /\ OnlyEnds(D)
      BY <1>4, <1>6, <2>1
    <2>4. written = << >>
      <3>1. Len(written) = 0
        BY <1>1, <1>2, <1>3, <2>1, FillAtWriter
      <3> QED BY <1>5, <3>1
    <2>5. /\ \A k \in DOMAIN Append(q, Eof) : Append(q, Eof)[k] = Eof => k = Len(Append(q, Eof))
      BY <1>5, <2>3, EofPut
    <2>6. \A g : EndsWell(D, g)
      BY <2>3, NoEofComing
    <2> QED BY <1>8, <2>1, <2>2, <2>3, <2>4, <2>5, <2>6
  <1> QED BY <1>9, <1>10, <1>12, <1>13 DEF WriterStep

LEMMA EofBySink ==
    ASSUME PathTypes, OrderInv, PlacesInv(At, inputs, discards), EofInv, ~discards,
           (\E s \in SinkNodes : SinkStep(s)) \/ Reroute \/ HearEof
    PROVE  EofInv'
  <1> DEFINE q == queue["main"]
             f == ended /\ ~heardEof /\ Eof \notin ToSet(q)
  <1>1. /\ EndsWell(Coming, f)
        /\ heardEof \/ Eof \in ToSet(q) => ended /\ written = << >> /\ OnlyEnds(Coming)
        /\ \A k \in DOMAIN q : q[k] = Eof => k = Len(q)
        /\ heardEof => q = << >> /\ held["main"] = << >>
    BY DEF EofInv
  <1>2. UNCHANGED <<Coming, ended, written, discards>>
    <2>1. UNCHANGED <<config, batchVars, toWriter, written>>
      BY DEF SinkStep, CollectBatch, CollectFails, DropFailed, Retry, GiveUp, Reroute, HearEof
    <2> QED BY <2>1 DEF config, batchVars, Coming
  <1>3. q \in Seq(Rows \cup {Eof}) /\ queue \in [SinkNodes -> Seq(Rows \cup {Eof})]
    BY SinksAre DEF PathTypes
  <1> HIDE DEF q
  <1>4. ASSUME q # << >>
        PROVE  /\ \A k \in DOMAIN Tail(q) : Tail(q)[k] = Eof => k = Len(Tail(q))
               /\ ToSet(Tail(q)) \subseteq ToSet(q) /\ Head(q) \in ToSet(q)
               /\ Head(q) = Eof => Tail(q) = << >>
    BY <1>1, <1>3, <1>4, EofTaken
  <1>5. ASSUME NEW p, queue'["main"] = p, ToSet(p) \subseteq ToSet(q),
               \A k \in DOMAIN p : p[k] = Eof => k = Len(p),
               heardEof' = heardEof, heardEof => p = << >> /\ held'["main"] = << >>
        PROVE  EofInv'
    <2>1. EndsWell(Coming, ended /\ ~heardEof /\ Eof \notin ToSet(p))
      BY <1>1, <1>5 DEF EndsWell
    <2>2. EndsWell(Coming', ended' /\ ~heardEof' /\ Eof \notin ToSet(queue'["main"]))
      BY <1>2, <1>5, <2>1
    <2>3. OnlyEnds(Coming) => OnlyEnds(Coming')
      BY <1>2
    <2> QED BY <1>1, <1>2, <1>5, <2>2, <2>3 DEF EofInv, EndsWell, OnlyEnds
  <1>6. CASE \E s \in SinkNodes : SinkStep(s)
    <2>1. PICK s \in SinkNodes : SinkStep(s)
      BY <1>6
    <2>2. heardEof' = heardEof
      BY <2>1, SinkEffect
    <2>3. CASE s = "main"
      <3>1. (q # << >> /\ queue'["main"] = Tail(q)) \/ (held["main"] # << >> /\ queue'["main"] = q)
        BY <2>1, <2>3, SinkEffect DEF Takes, Rows, q
      <3>2. ~heardEof
        BY <1>1, <3>1
      <3> QED BY <1>1, <1>4, <1>5, <2>2, <3>1, <3>2
    <2>4. CASE s = "resend"
      <3>1. queue'["main"] = q /\ held'["main"] = held["main"]
        BY <2>1, <2>4, SinkEffect, SinksAre DEF q
      <3> QED BY <1>1, <1>5, <2>2, <3>1
    <2> QED BY <2>3, <2>4, SinksAre
  <1>7. CASE Reroute
    <2>1. heardEof' = heardEof /\ held' = held /\ q # << >> /\ queue'["main"] = Tail(q)
      BY <1>7, Rerouted DEF Reroute, Takes, sinkVars, q
    <2>2. ~heardEof
      BY <1>1, <2>1
    <2> QED BY <1>4, <1>5, <2>1, <2>2
  <1>8. CASE HearEof
    <2>1. /\ heardEof' = TRUE /\ held' = held /\ q # << >> /\ Head(q) = Eof /\ held["main"] = << >>
          /\ queue'["main"] = Tail(q)
      BY <1>3, <1>8, SinksAre DEF HearEof, Takes, q
    <2>2. Tail(q) = << >> /\ Eof \in ToSet(q)
      BY <1>4, <2>1
    <2>3. ended /\ written = << >> /\ OnlyEnds(Coming)
      BY <1>1, <2>2
    <2>4. EndsWell(Coming, ended' /\ ~heardEof' /\ Eof \notin ToSet(queue'["main"]))
      BY <2>3, NoEofComing
    <2>5. EndsWell(Coming', ended' /\ ~heardEof' /\ Eof \notin ToSet(queue'["main"])) /\ OnlyEnds(Coming')
      BY <1>2, <2>3, <2>4
    <2>6. DOMAIN << >> = {}
      OBVIOUS
    <2> QED BY <1>2, <2>1, <2>2, <2>3, <2>5, <2>6 DEF EofInv, EndsWell, OnlyEnds
  <1> QED BY <1>6, <1>7, <1>8

\* The end of the stream is the last that comes, across every step.
LEMMA EofKept ==
    ASSUME PathTypes, OrderInv, PlacesInv(At, inputs, discards), FillInv, EofInv, PathNext
    PROVE  EofInv'
  <1>1. CASE discards
    <2>1. UNCHANGED config
      BY DEF PathNext, IngestItem, IngestEof, Linger, SendOwed, WriterStep, Write, SkipBatchEnd,
             FlushBatch, PassEof, SinkStep, CollectBatch, CollectFails, DropFailed, Retry, GiveUp,
             Reroute, HearEof
    <2>2. discards' = discards
      BY <2>1 DEF config
    <2> QED BY <1>1, <2>2 DEF EofInv
  <1>2. CASE ~discards
    BY <1>2, EofByBatchOp, EofByWriter, EofBySink DEF PathNext
  <1> QED BY <1>1, <1>2

-----------------------------------------------------------------------------
(* The batches.                                                            *)

\* The batches of a state.
LEMMA BatchIs ==
    \A b : b \in AllBatches <=>
        /\ b # << >> /\ b # Eof
        /\ \E s \in SinkNodes : b \in ToSet(taken[s]) \/ b = held[s] \/ b \in ToSet(queue[s])
  BY DEF AllBatches, BatchesOf

\* The batches of the next state.
LEMMA BatchIsNext ==
    \A b : b \in AllBatches' <=>
        /\ b # << >> /\ b # Eof
        /\ \E s \in SinkNodes : b \in ToSet(taken'[s]) \/ b = held'[s] \/ b \in ToSet(queue'[s])
  BY DEF AllBatches, BatchesOf

\* The last of a sequence in order is the largest.
LEMMA LastIs ==
    ASSUME NEW s \in Seq(Nat), NEW n \in Nat, Rises(s), n \in ToSet(s), \A x \in ToSet(s) : x <= n
    PROVE  Last(s) = n
  <1>1. Len(s) \in Nat /\ DOMAIN s = 1..Len(s) /\ Last(s) = s[Len(s)]
    BY DEF Last
  <1>2. PICK i \in 1..Len(s) : s[i] = n
    BY <1>1 DEF ToSet
  <1>3. Len(s) \in 1..Len(s)
    BY <1>1
  <1>4. s[Len(s)] \in Nat /\ s[Len(s)] <= n
    BY <1>1, <1>3 DEF ToSet
  <1>5. ASSUME i < Len(s) PROVE FALSE
    <2>1. s[i] < s[Len(s)]
      BY <1>1, <1>3, <1>5 DEF Rises
    <2> QED BY <1>2, <1>4, <2>1
  <1>6. i = Len(s)
    <2>1. i <= Len(s) /\ i \in Int /\ Len(s) \in Int
      BY <1>1
    <2> QED BY <1>5, <2>1
  <1> QED BY <1>1, <1>2, <1>6

\* When only ends are to come, what the writer holds reaches to the last of what came.
LEMMA NothingComes ==
    ASSUME PathTypes, OrderInv, PlacesInv(At, inputs, discards), ~discards, written # << >>,
           \A k \in 1..Len(Coming) : Coming[k] \in Ends
    PROVE  Last(written) = inputs
  <1>1. /\ toWriter \in Seq(Messages) /\ owed \in Seq(Messages) /\ inputs \in Nat
        /\ written \in Seq(Nat) /\ Rises(written) /\ discards = FALSE
    BY ComingIs DEF PathTypes, OrderInv
  <1>2. /\ Len(toWriter) \in Nat /\ Len(owed) \in Nat
        /\ Len(Coming) = Len(toWriter) + Len(owed)
        /\ \A i \in 1..Len(toWriter) : Coming[i] = toWriter[i]
        /\ \A i \in (Len(toWriter) + 1)..(Len(toWriter) + Len(owed)) :
               Coming[i] = owed[i - Len(toWriter)]
    BY <1>1, ConcatElements DEF Coming
  <1>3. Items(toWriter) = {}
    <2>1. \A i \in 1..Len(toWriter) : i \in 1..Len(Coming)
      BY <1>2
    <2>2. \A i \in 1..Len(toWriter) : Carried(toWriter[i]) = {}
      BY <1>2, <2>1, EndsApart
    <2>3. DOMAIN toWriter = 1..Len(toWriter)
      BY <1>1
    <2> QED BY <2>2, <2>3 DEF Items
  <1>4. Items(owed) = {}
    <2> DEFINE n == Len(toWriter)
    <2>1. \A i \in 1..Len(owed) : /\ i + n \in 1..Len(Coming) /\ (i + n) - n = i
                                  /\ i + n \in (n + 1)..(n + Len(owed))
      BY <1>2
    <2>2. \A i \in 1..Len(owed) : owed[i] \in Ends
      BY <1>2, <2>1
    <2>3. \A i \in 1..Len(owed) : Carried(owed[i]) = {}
      BY <2>2, EndsApart
    <2>4. DOMAIN owed = 1..Len(owed)
      BY <1>1
    <2> QED BY <2>3, <2>4 DEF Items
  <1>5. /\ \A p \in Places : \A x \in At[p] : x \in 1..inputs /\ x \in Nat
        /\ \A x \in 1..inputs : \E p \in Places : x \in At[p]
        /\ \A p, q \in Places : Before(p, q, discards) => Below(At[p], At[q])
    BY <1>1, PlacesAre
  <1>6. written[1] \in At["written"] /\ "written" \in Places
    <2>1. 1 \in DOMAIN written
      BY <1>1
    <2> QED BY <2>1, AtIs DEF ToSet, Places
  <1>7. inputs \in 1..inputs /\ written[1] \in 1..inputs
    BY <1>1, <1>5, <1>6
  <1>8. PICK p \in Places : inputs \in At[p]
    BY <1>5, <1>7
  <1>9. p = "written"
    <2>1. p # "toWriter" /\ p # "owed"
      BY <1>3, <1>4, <1>8, AtIs
    <2>2. \A q \in Places \ {"written", "toWriter", "owed"} : Before(q, "written", FALSE)
      BY RankIs DEF Places, Before
    <2>3. ASSUME p # "written" PROVE FALSE
      <3>1. Below(At[p], At["written"])
        BY <1>1, <1>5, <1>6, <2>1, <2>2, <2>3
      <3>2. inputs < written[1]
        BY <1>6, <1>8, <3>1 DEF Below
      <3> QED BY <1>1, <1>7, <3>2
    <2> QED BY <2>3
  <1>10. inputs \in ToSet(written) /\ \A x \in ToSet(written) : x <= inputs
    BY <1>5, <1>6, <1>8, <1>9, AtIs
  <1> QED BY <1>1, <1>10, LastIs

\* A batch that the writer ends is full, ended by time, or the last.
LEMMA WrittenIsFull ==
    ASSUME PathTypes, OrderInv, PlacesInv(At, inputs, discards), FillInv, FlushBatch, ~discards,
           batchSize > 0
    PROVE  /\ Len(written) <= batchSize
           /\ Len(written) = batchSize \/ lingers \/ (ended /\ Last(written) = inputs)
  <1>1. /\ toWriter # << >> /\ toWriter' = Tail(toWriter) /\ owed' = owed /\ written # << >>
        /\ Head(toWriter) = BatchEnd /\ written \in Seq(Nat)
    BY DEF FlushBatch, batchVars, PathTypes
  <1>2. /\ Len(written) \in Nat /\ Len(written) <= batchSize
        /\ Len(written) > 0 =>
               \/ Len(written) = batchSize
               \/ lingers
               \/ ended /\ \A k \in 1..Len(Coming) : Coming[k] \in Ends
    BY <1>1, FillAtWriter
  <1>3. Len(written) > 0
    BY <1>1
  <1> QED BY <1>1, <1>2, <1>3, NothingComes

LEMMA AddedTo ==
    ASSUME NEW S, NEW q \in Seq(S), NEW x \in S
    PROVE  ToSet(Append(q, x)) = ToSet(q) \cup {x} /\ Append(q, x) \in Seq(S)
  <1>1. /\ Len(q) \in Nat /\ DOMAIN q = 1..Len(q) /\ DOMAIN Append(q, x) = 1..(Len(q) + 1)
        /\ \A k \in 1..Len(q) : Append(q, x)[k] = q[k]
        /\ Append(q, x)[Len(q) + 1] = x /\ Append(q, x) \in Seq(S)
    BY AppendProperties, LenProperties
  <1>2. /\ \A k \in 1..(Len(q) + 1) : k \in 1..Len(q) \/ k = Len(q) + 1
        /\ \A k \in 1..Len(q) : k \in 1..(Len(q) + 1)
        /\ Len(q) + 1 \in 1..(Len(q) + 1)
    BY <1>1
  <1>3. ToSet(Append(q, x)) = ToSet(q) \cup {x}
    BY <1>1, <1>2 DEF ToSet
  <1> QED BY <1>1, <1>3

LEMMA BatchesSame ==
    ASSUME BatchesAreFull, AllBatches' \subseteq AllBatches,
           UNCHANGED <<batchSize, lingers, discards, inputs>>, ended => ended'
    PROVE  BatchesAreFull'
  BY DEF BatchesAreFull

LEMMA BatchesByBatchOp ==
    ASSUME PathTypes, BatchesAreFull, IngestItem \/ IngestEof \/ Linger \/ SendOwed
    PROVE  BatchesAreFull'
  <1>1. UNCHANGED <<batchSize, lingers, discards, taken, held, queue>>
    BY DEF IngestItem, IngestEof, Linger, SendOwed, config, sinkVars
  <1>2. AllBatches' = AllBatches
    BY <1>1 DEF AllBatches, BatchesOf
  <1>3. CASE IngestItem
    BY <1>1, <1>2, <1>3 DEF BatchesAreFull, IngestItem
  <1>4. CASE IngestEof \/ Linger \/ SendOwed
    BY <1>1, <1>2, <1>4, BatchesSame DEF IngestEof, Linger, SendOwed
  <1> QED BY <1>3, <1>4

LEMMA BatchesByWriter ==
    ASSUME PathTypes, OrderInv, PlacesInv(At, inputs, discards), FillInv, BatchesAreFull, WriterStep
    PROVE  BatchesAreFull'
  <1>1. UNCHANGED <<batchSize, lingers, discards, inputs, ended, taken, held>>
    BY DEF WriterStep, Write, SkipBatchEnd, FlushBatch, PassEof, config, batchVars, sinkVars
  <1>2. CASE Write \/ SkipBatchEnd
    <2>1. queue' = queue
      BY <1>2 DEF Write, SkipBatchEnd
    <2>2. AllBatches' = AllBatches
      BY <1>1, <2>1 DEF AllBatches, BatchesOf
    <2> QED BY <1>1, <2>2, BatchesSame
  <1>3. CASE discards
    BY <1>1, <1>3 DEF BatchesAreFull
  <1>4. ASSUME NEW msg, ~discards, HasRoom(queue["main"]), msg \in Rows \cup {Eof},
               queue' = [queue EXCEPT !["main"] = Forwarded(queue["main"], msg)]
        PROVE  \A b \in AllBatches' : b \in AllBatches \/ b = msg
    <2> DEFINE q == queue["main"]
    <2>1. q \in Seq(Rows \cup {Eof}) /\ queue \in [SinkNodes -> Seq(Rows \cup {Eof})]
      BY SinksAre DEF PathTypes
    <2>2. Forwarded(q, msg) = Append(q, msg)
      BY <1>4, NothingDiscarded
    <2> HIDE DEF q
    <2>3. ToSet(Append(q, msg)) = ToSet(q) \cup {msg} /\ Append(q, msg) \in Seq(Rows \cup {Eof})
      BY <1>4, <2>1, AddedTo
    <2>4. queue'["main"] = Append(q, msg) /\ queue'["resend"] = queue["resend"]
      <3>1. queue' = [queue EXCEPT !["main"] = Append(q, msg)]
        BY <1>4, <2>2 DEF q
      <3> QED BY <2>1, <2>3, <3>1, SinksAre, ExceptOne
    <2>5. ToSet(queue'["main"]) = ToSet(queue["main"]) \cup {msg}
      BY <2>3, <2>4 DEF q
    <2> SUFFICES ASSUME NEW b \in AllBatches', b # msg PROVE b \in AllBatches
      OBVIOUS
    <2>6. /\ b # << >> /\ b # Eof
          /\ \E s \in SinkNodes : b \in ToSet(taken'[s]) \/ b = held'[s] \/ b \in ToSet(queue'[s])
      BY BatchIsNext
    <2>7. \A s \in SinkNodes : b \in ToSet(queue'[s]) => b \in ToSet(queue[s])
      <3>1. b \in ToSet(queue'["main"]) => b \in ToSet(queue["main"])
        BY <2>5
      <3>2. b \in ToSet(queue'["resend"]) => b \in ToSet(queue["resend"])
        BY <2>4
      <3> QED BY <3>1, <3>2, SinksAre
    <2>8. \E s \in SinkNodes : b \in ToSet(taken[s]) \/ b = held[s] \/ b \in ToSet(queue[s])
      BY <1>1, <2>6, <2>7
    <2> QED BY <2>6, <2>8, BatchIs
  <1>5. CASE FlushBatch /\ ~discards
    <2>1. written \in Rows \cup {Eof}
      BY <1>5 DEF FlushBatch, PathTypes, Rows
    <2>2. \A b \in AllBatches' : b \in AllBatches \/ b = written
      BY <1>4, <1>5, <2>1 DEF FlushBatch
    <2>3. batchSize > 0 => /\ Len(written) <= batchSize
                           /\ Len(written) = batchSize \/ lingers \/ (ended /\ Last(written) = inputs)
      BY <1>5, WrittenIsFull
    <2> QED BY <1>1, <2>2, <2>3 DEF BatchesAreFull
  <1>6. CASE PassEof /\ ~discards
    <2>1. \A b \in AllBatches' : b \in AllBatches \/ b = Eof
      BY <1>4, <1>6 DEF PassEof
    <2>2. AllBatches' \subseteq AllBatches
      BY <2>1, BatchIsNext
    <2> QED BY <1>1, <2>2, BatchesSame
  <1> QED BY <1>2, <1>3, <1>5, <1>6 DEF WriterStep

LEMMA TailOf ==
    ASSUME NEW S, NEW q \in Seq(S), q # << >>
    PROVE  ToSet(Tail(q)) \subseteq ToSet(q) /\ Head(q) \in ToSet(q)
  <1>1. /\ Head(q) = q[1] /\ Len(q) \in Nat \ {0} /\ DOMAIN q = 1..Len(q)
        /\ DOMAIN Tail(q) = 1..(Len(q) - 1)
        /\ \A i \in 1..(Len(q) - 1) : i + 1 \in 1..Len(q) /\ Tail(q)[i] = q[i + 1]
    BY TailIs
  <1>2. 1 \in 1..Len(q)
    BY <1>1
  <1> QED BY <1>1, <1>2 DEF ToSet

LEMMA BatchesBySink ==
    ASSUME PathTypes, OrderInv, PlacesInv(At, inputs, discards), BatchesAreFull,
           (\E s \in SinkNodes : SinkStep(s)) \/ Reroute \/ HearEof
    PROVE  BatchesAreFull'
  <1>1. UNCHANGED <<batchSize, lingers, discards, inputs, ended>>
    <2>1. UNCHANGED <<config, batchVars>>
      BY DEF SinkStep, CollectBatch, CollectFails, DropFailed, Retry, GiveUp, Reroute, HearEof
    <2> QED BY <2>1 DEF config, batchVars
  <1>2. ASSUME NEW s \in SinkNodes
        PROVE  /\ queue[s] \in Seq(Rows \cup {Eof}) /\ taken[s] \in Seq(Rows)
               /\ queue[s] # << >> => /\ ToSet(Tail(queue[s])) \subseteq ToSet(queue[s])
                                      /\ Head(queue[s]) \in ToSet(queue[s])
    BY TailOf DEF PathTypes
  <1>3. ASSUME NEW s \in SinkNodes, SinkStep(s)
        PROVE  AllBatches' \subseteq AllBatches
    <2> DEFINE Here == ToSet(taken[s]) \cup {held[s]} \cup ToSet(queue[s])
    <2>1. \A r \in SinkNodes \ {s} : queue'[r] = queue[r] /\ held'[r] = held[r] /\ taken'[r] = taken[r]
      BY <1>3, SinkEffect
    <2>2. \/ /\ queue[s] # << >> /\ Head(queue[s]) \in Rows /\ queue'[s] = Tail(queue[s])
             /\ \/ taken'[s] = Append(taken[s], Head(queue[s])) /\ held'[s] = held[s]
                \/ held'[s] = Head(queue[s]) /\ taken'[s] = taken[s]
                \/ held'[s] = held[s] /\ taken'[s] = taken[s]
          \/ /\ held[s] \in Rows /\ queue'[s] = queue[s] /\ held'[s] = << >>
             /\ taken'[s] = Append(taken[s], held[s]) \/ taken'[s] = taken[s]
      BY <1>3, SinkEffect, TakesOne DEF Takes
    <2>3. \A b \in Rows : ToSet(Append(taken[s], b)) = ToSet(taken[s]) \cup {b}
      BY <1>2, AddedTo
    <2>4. /\ ToSet(taken'[s]) \subseteq Here
          /\ held'[s] \in Here \cup {<< >>}
          /\ ToSet(queue'[s]) \subseteq Here
      <3>1. CASE /\ queue[s] # << >> /\ Head(queue[s]) \in Rows /\ queue'[s] = Tail(queue[s])
                 /\ \/ taken'[s] = Append(taken[s], Head(queue[s])) /\ held'[s] = held[s]
                    \/ held'[s] = Head(queue[s]) /\ taken'[s] = taken[s]
                    \/ held'[s] = held[s] /\ taken'[s] = taken[s]
        <4>1. ToSet(Append(taken[s], Head(queue[s]))) = ToSet(taken[s]) \cup {Head(queue[s])}
          BY <2>3, <3>1
        <4>2. /\ ToSet(Tail(queue[s])) \subseteq ToSet(queue[s])
              /\ Head(queue[s]) \in ToSet(queue[s])
          BY <1>2, <3>1
        <4> QED BY <3>1, <4>1, <4>2
      <3>2. CASE held[s] \in Rows /\ queue'[s] = queue[s] /\ held'[s] = << >>
                 /\ (taken'[s] = Append(taken[s], held[s]) \/ taken'[s] = taken[s])
        <4>1. ToSet(Append(taken[s], held[s])) = ToSet(taken[s]) \cup {held[s]}
          BY <2>3, <3>2
        <4> QED BY <3>2, <4>1
      <3> QED BY <2>2, <3>1, <3>2
    <2> SUFFICES ASSUME NEW b \in AllBatches' PROVE b \in AllBatches
      OBVIOUS
    <2>5. /\ b # << >> /\ b # Eof
          /\ \E r \in SinkNodes : b \in ToSet(taken'[r]) \/ b = held'[r] \/ b \in ToSet(queue'[r])
      BY BatchIsNext
    <2>6. \E r \in SinkNodes : b \in ToSet(taken[r]) \/ b = held[r] \/ b \in ToSet(queue[r])
      BY <2>1, <2>4, <2>5
    <2> QED BY <2>5, <2>6, BatchIs
  <1>4. ASSUME taken' = taken, held' = held, queue["main"] # << >>,
               queue'["main"] = Tail(queue["main"]),
               ToSet(queue'["resend"]) \subseteq ToSet(queue["resend"]) \cup {Head(queue["main"])}
        PROVE  AllBatches' \subseteq AllBatches
    <2>1. /\ ToSet(queue'["main"]) \subseteq ToSet(queue["main"])
          /\ ToSet(queue'["resend"]) \subseteq ToSet(queue["resend"]) \cup ToSet(queue["main"])
      BY <1>2, <1>4, SinksAre
    <2> SUFFICES ASSUME NEW b \in AllBatches' PROVE b \in AllBatches
      OBVIOUS
    <2>2. /\ b # << >> /\ b # Eof
          /\ \E r \in SinkNodes : b \in ToSet(taken'[r]) \/ b = held'[r] \/ b \in ToSet(queue'[r])
      BY BatchIsNext
    <2>3. \E r \in SinkNodes : b \in ToSet(taken[r]) \/ b = held[r] \/ b \in ToSet(queue[r])
      BY <1>4, <2>1, <2>2, SinksAre
    <2> QED BY <2>2, <2>3, BatchIs
  <1>5. CASE Reroute
    <2>1. taken' = taken /\ held' = held /\ queue["main"] # << >>
      BY <1>5 DEF Reroute, Takes, sinkVars
    <2>2. /\ queue'["main"] = Tail(queue["main"])
          /\ ToSet(queue'["resend"]) \subseteq ToSet(queue["resend"]) \cup {Head(queue["main"])}
      BY <1>5, Rerouted
    <2> QED BY <1>1, <1>4, <2>1, <2>2, BatchesSame
  <1>6. CASE HearEof
    <2>1. /\ taken' = taken /\ held' = held /\ queue["main"] # << >>
          /\ queue' = [queue EXCEPT !["main"] = Tail(queue["main"])]
      BY <1>6 DEF HearEof, Takes
    <2>2. queue'["main"] = Tail(queue["main"]) /\ queue'["resend"] = queue["resend"]
      BY <2>1, SinksAre DEF PathTypes
    <2> QED BY <1>1, <1>4, <2>1, <2>2, BatchesSame
  <1> QED BY <1>1, <1>3, <1>5, <1>6, BatchesSame

\* No batch is too long, or ends too early, across every step.
LEMMA BatchesKept ==
    ASSUME PathTypes, OrderInv, PlacesInv(At, inputs, discards), FillInv, BatchesAreFull, PathNext
    PROVE  BatchesAreFull'
  BY BatchesByBatchOp, BatchesByWriter, BatchesBySink DEF PathNext
-----------------------------------------------------------------------------
(* The invariant.                                                          *)

LEMMA FillsOfNone ==
    ASSUME batchSize \in Nat, NEW e
    PROVE  \E c : Fills(c, << >>, 0, 0, e)
  <1> DEFINE c == [k \in 0..0 |-> 0]
  <1>1. c \in [0..0 -> Nat] /\ c[0] = 0 /\ (\A k \in 0..0 : c[k] = 0) /\ Len(<< >>) = 0
    OBVIOUS
  <1>2. ~ \E k \in 1..0 : TRUE
    OBVIOUS
  <1> HIDE DEF c
  <1>3. Fills(c, << >>, 0, 0, e)
    BY <1>1, <1>2 DEF Fills
  <1> QED BY <1>3

\* A rule starts with empty channels.
LEMMA PathInvAtStart ==
    ASSUME PathInit
    PROVE  PathInv
  <1>1. /\ inputs = 0 /\ ended = FALSE /\ currIndex = 0
        /\ owed = << >> /\ toWriter = << >> /\ written = << >>
        /\ queue = [s \in SinkNodes |-> << >>] /\ held = [s \in SinkNodes |-> << >>]
        /\ taken = [s \in SinkNodes |-> << >>]
        /\ lost = {} /\ heardEof = FALSE
    BY DEF PathInit, PathStarts
  <1>2. /\ batchSize \in {0, BatchSize} /\ lingers \in BOOLEAN
        /\ discards \in BOOLEAN /\ ioErrors \in BOOLEAN
        /\ onFailure \in {"drop", "retry", "alter"} /\ batchSize \in Nat
    BY PathAssumption DEF PathInit
  <1>3. \A s \in SinkNodes : queue[s] = << >> /\ held[s] = << >> /\ taken[s] = << >>
    BY <1>1
  <1>4. FlattenSeq(<< >>) = << >> /\ Items(<< >>) = {} /\ InLine(<< >>) /\ ToSet(<< >>) = {}
        /\ Rises(<< >>) /\ DOMAIN << >> = {}
    BY FlattenEmpty, ShortLines DEF ToSet, Rises
  <1>5. PathTypes
    <2>1. queue \in [SinkNodes -> Seq(Rows \cup {Eof})] /\ held \in [SinkNodes -> Seq(Nat)]
          /\ taken \in [SinkNodes -> Seq(Rows)]
      BY <1>1
    <2>2. Len(<< >>) = 0 /\ << >> \in Seq(Ones \cup Ends) /\ << >> \in Seq(Nat)
          /\ 0 <= PathLength /\ 0 \in 0..MaxInputs
      BY PathAssumption
    <2> QED BY <2>2, <1>1, <1>2, <1>3, <2>1, PathAssumption DEF PathTypes
  <1>6. OrderInv
    BY <1>1, <1>3, <1>4 DEF OrderInv
  <1>7. PlacesInv(At, inputs, discards)
    <2>1. \A p \in Places : At[p] = {}
      BY <1>1, <1>3, <1>4, SinksAre, AtIs DEF Places
    <2>2. 1..0 = {}
      OBVIOUS
    <2>3. \A p, q \in Places : At[p] \cap At[q] = {} /\ Below(At[p], At[q])
      BY <2>1 DEF Below
    <2>4. UNION {At[p] : p \in Places} = {}
      BY <2>1
    <2> QED BY <1>1, <2>2, <2>3, <2>4 DEF PlacesInv
  <1>8. ModeInv
    BY <1>1, <1>3, SinksAre DEF ModeInv
  <1>9. FillInv /\ Coming = << >>
    <2>1. << >> \o << >> = << >>
      BY ConcatEmptySeq
    <2>2. Coming = << >>
      BY <1>1, <2>1 DEF Coming
    <2>3. \E c : Fills(c, Coming, Len(written), currIndex, ended)
      BY <1>1, <1>2, <2>2, FillsOfNone
    <2> QED BY <1>1, <1>2, <2>2, <2>3 DEF FillInv
  <1>10. EofInv
    BY <1>1, <1>3, <1>4, <1>9, SinksAre DEF EofInv, EndsWell
  <1>11. BatchesAreFull
    <2>1. AllBatches = {}
      BY <1>3, <1>4, BatchIs
    <2> QED BY <2>1 DEF BatchesAreFull
  <1> QED BY <1>5, <1>6, <1>7, <1>8, <1>9, <1>10, <1>11 DEF PathInv

\* Every step keeps the invariant.
LEMMA PathInvKept ==
    ASSUME PathInv, [PathNext]_pathVars
    PROVE  PathInv'
  <1>1. CASE PathNext
    <2>1. /\ PathTypes /\ OrderInv /\ PlacesInv(At, inputs, discards)
          /\ ModeInv /\ FillInv /\ EofInv /\ BatchesAreFull
      BY DEF PathInv
    <2>2. PathTypes' /\ OrderInv' /\ PlacesInv(At', inputs', discards')
      BY <1>1, <2>1, TypesKept, OrderKept
    <2>3. ModeInv' /\ FillInv' /\ EofInv' /\ BatchesAreFull'
      BY <1>1, <2>1, ModeKept, FillKept, EofKept, BatchesKept
    <2> QED BY <2>2, <2>3 DEF PathInv
  <1>2. CASE UNCHANGED pathVars
    <2>1. UNCHANGED <<batchSize, lingers, discards, onFailure, ioErrors, inputs, ended, currIndex,
                      owed, toWriter, written, queue, held, taken, lost, heardEof>>
      BY <1>2 DEF pathVars
    <2>2. PathTypes' /\ OrderInv' /\ ModeInv'
      BY <2>1 DEF PathInv, PathTypes, OrderInv, ModeInv
    <2>3. At' = At /\ Coming' = Coming /\ AllBatches' = AllBatches
      BY <2>1 DEF At, Coming, AllBatches, BatchesOf
    <2>4. PlacesInv(At', inputs', discards') /\ BatchesAreFull'
      BY <2>1, <2>3 DEF PathInv, BatchesAreFull
    <2>5. FillInv'
      <3>1. ASSUME ~discards PROVE (\E c : Fills(c, Coming, Len(written), currIndex, ended))'
        <4>1. \E d : Fills(d, Coming', Len(written'), currIndex', ended')
          BY <2>1, <2>3, <3>1 DEF PathInv, FillInv
        <4> QED BY <2>1, <4>1, FillsNext
      <3> QED BY <2>1, <3>1 DEF PathInv, FillInv
    <2>6. EofInv'
      BY <2>1, <2>3 DEF PathInv, EofInv, EndsWell, OnlyEnds
    <2> QED BY <2>2, <2>4, <2>5, <2>6 DEF PathInv
  <1> QED BY <1>1, <1>2

\* Whatever the sinks meet, and whatever the sizes of batches and channels, each item is at
\* one place on its way, the places are in order, and every batch to come is counted: the
\* inductive invariant (batch_op.go:85-116, batch_writer_op.go:85-124, sink_node.go:101-191).
THEOREM PathInvariant == PathSpec => []PathInv
  BY PathInvAtStart, PathInvKept, PTL DEF PathSpec
-----------------------------------------------------------------------------
(* What follows from it.                                                   *)

\* A message of a channel whose items have come.
LEMMA Narrow ==
    ASSUME NEW q, NEW R, NEW F, R \subseteq Rows, F \subseteq Ends, q \in Seq(R \cup F),
           Items(q) \subseteq Arrivals
    PROVE  q \in Seq(Batches \cup F)
  <1>1. DOMAIN q = 1..Len(q) /\ \A i \in 1..Len(q) : q[i] \in R \cup F
    OBVIOUS
  <1>2. ASSUME NEW i \in 1..Len(q) PROVE q[i] \in Batches \cup F
    <2>1. CASE q[i] \in F
      BY <2>1
    <2>2. CASE q[i] \in R
      <3> DEFINE b == q[i]
      <3>1. b \in Seq(Nat) /\ b # << >> /\ Carried(b) = ToSet(b)
        BY <2>2, EndsApart DEF Rows
      <3>2. ToSet(b) \subseteq Arrivals
        BY <1>1, <3>1 DEF Items
      <3> HIDE DEF b
      <3>3. \A j \in 1..Len(b) : b[j] \in Arrivals
        BY <3>1, <3>2 DEF ToSet
      <3>4. b \in Seq(Arrivals)
        BY <3>1, <3>3
      <3> QED BY <3>1, <3>4 DEF Batches, b
    <2> QED BY <1>1, <2>1, <2>2
  <1>3. Len(q) \in Nat /\ q = [i \in 1..Len(q) |-> q[i]]
    OBVIOUS
  <1> QED BY <1>2, <1>3

LEMMA NarrowList ==
    ASSUME NEW s \in Seq(Nat), ToSet(s) \subseteq Arrivals
    PROVE  s \in Seq(Arrivals)
  <1>1. \A j \in 1..Len(s) : s[j] \in Arrivals
    BY DEF ToSet
  <1> QED BY <1>1

\* The items of what a sink has handed over are those of its batches.
LEMMA TakenItems ==
    ASSUME NEW t \in Seq(Rows)
    PROVE  ToSet(FlattenSeq(t)) = Items(t) /\ FlattenSeq(t) \in Seq(Nat)
  <1>1. t \in Seq(Seq(Nat)) /\ DOMAIN t = 1..Len(t)
    BY DEF Rows
  <1>2. Range(FlattenSeq(t)) = UNION {Range(t[i]) : i \in 1..Len(t)} /\ FlattenSeq(t) \in Seq(Nat)
    BY <1>1, FlattenRange, FlattenType
  <1>3. \A f : Range(f) = ToSet(f)
    BY DEF Range, ToSet
  <1>4. \A i \in 1..Len(t) : Carried(t[i]) = ToSet(t[i])
    BY <1>1, EndsApart
  <1>5. Items(t) = UNION {ToSet(t[i]) : i \in 1..Len(t)}
    BY <1>1, <1>4 DEF Items
  <1>6. {Range(t[i]) : i \in 1..Len(t)} = {ToSet(t[i]) : i \in 1..Len(t)}
    BY <1>3
  <1> QED BY <1>2, <1>3, <1>5, <1>6

LEMMA AllArrived ==
    ASSUME PathInv
    PROVE  /\ \A p \in Places : At[p] \subseteq Arrivals
           /\ \A x \in Arrivals : \E p \in Places : x \in At[p]
           /\ \A p, q \in Places : p # q => At[p] \cap At[q] = {}
  BY DEF PathInv, PlacesInv, Arrivals

\* Only items that have come are anywhere on the way.
LEMMA TypesFollow ==
    ASSUME PathInv
    PROVE  PathTypeOK
  <1>1. PathTypes
    BY DEF PathInv
  <1>2. /\ Items(owed) \subseteq Arrivals /\ Items(toWriter) \subseteq Arrivals
        /\ ToSet(written) \subseteq Arrivals /\ lost \subseteq Arrivals
        /\ \A s \in SinkNodes : /\ Items(queue[s]) \subseteq Arrivals
                                /\ ToSet(held[s]) \subseteq Arrivals
                                /\ ToSet(FlattenSeq(taken[s])) \subseteq Arrivals
    BY AllArrived, AtIs, SinksAre DEF Places
  <1>3. {BatchEnd, Eof} \subseteq Ends /\ {Eof} \subseteq Ends /\ Ones \subseteq Rows
        /\ Ends = {BatchEnd, Eof}
    BY EndsApart DEF Ends
  <1>4. /\ owed \in Seq(Batches \cup {BatchEnd, Eof}) /\ toWriter \in Seq(Batches \cup {BatchEnd, Eof})
    BY <1>1, <1>2, <1>3, Narrow DEF PathTypes
  <1>5. written \in Seq(Arrivals)
    BY <1>1, <1>2, NarrowList DEF PathTypes
  <1>6. ASSUME NEW s \in SinkNodes
        PROVE  /\ queue[s] \in Seq(Batches \cup {Eof}) /\ Len(queue[s]) <= PathLength
               /\ held[s] \in Seq(Arrivals)
               /\ taken[s] \in Seq(Batches)
    <2>1. /\ queue[s] \in Seq(Rows \cup {Eof}) /\ Len(queue[s]) <= PathLength
          /\ held[s] \in Seq(Nat) /\ taken[s] \in Seq(Rows)
      BY <1>1 DEF PathTypes
    <2>2. queue[s] \in Seq(Batches \cup {Eof})
      BY <1>2, <1>3, <2>1, Narrow
    <2>3. held[s] \in Seq(Arrivals)
      BY <1>2, <2>1, NarrowList
    <2>4. Items(taken[s]) \subseteq Arrivals
      BY <1>2, <2>1, TakenItems
    <2>5. taken[s] \in Seq(Rows \cup {}) /\ {} \subseteq Ends /\ Rows \subseteq Rows
      BY <2>1
    <2>6. taken[s] \in Seq(Batches \cup {})
      BY <2>4, <2>5, Narrow
    <2> QED BY <2>1, <2>2, <2>3, <2>6
  <1> QED BY <1>1, <1>2, <1>4, <1>5, <1>6 DEF PathTypes, PathTypeOK

LEMMA ItemsAre == \A ch : Items(ch) = UNION {Carried(msg) : msg \in ToSet(ch)}
  BY DEF Items, ToSet

\* With a retry, no item is lost: the places are all along the way.
LEMMA RetryFollows ==
    ASSUME PathInv
    PROVE  NothingLostByRetry
  <1> SUFFICES ASSUME ~discards, onFailure = "retry", ioErrors PROVE Along = Arrivals
    BY DEF NothingLostByRetry
  <1>1. /\ lost = {} /\ PathTypes
        /\ queue["resend"] = << >> /\ held["resend"] = << >> /\ taken["resend"] = << >>
    BY DEF PathInv, ModeInv
  <1> DEFINE waiting == ToSet(owed) \cup ToSet(toWriter) \cup AllBatches \cup {written}
  <1>2. \A x : x \in Along <=> \E msg \in waiting : x \in Carried(msg)
    BY DEF Along
  <1>3. /\ \A s \in SinkNodes : held[s] \in Seq(Nat) /\ taken[s] \in Seq(Rows)
        /\ written \in Seq(Nat) /\ Carried(written) = ToSet(written)
        /\ \A s \in SinkNodes : Carried(held[s]) = ToSet(held[s])
    BY <1>1, EndsApart DEF PathTypes
  <1>4. Carried(<< >>) = {} /\ Carried(Eof) = {}
    <2>1. << >> \in Seq(Nat) /\ ToSet(<< >>) = {}
      BY DEF ToSet
    <2> QED BY <2>1, EndsApart DEF Ends
  <1>5. \A x : (\E b \in AllBatches : x \in Carried(b)) <=>
               \E s \in SinkNodes : \/ x \in ToSet(FlattenSeq(taken[s]))
                                    \/ x \in ToSet(held[s]) \/ x \in Items(queue[s])
    <2> SUFFICES ASSUME NEW x
                 PROVE  (\E b \in AllBatches : x \in Carried(b)) <=>
                        \E s \in SinkNodes : \/ x \in ToSet(FlattenSeq(taken[s]))
                                             \/ x \in ToSet(held[s]) \/ x \in Items(queue[s])
      OBVIOUS
    <2>1. \A s \in SinkNodes :
              /\ x \in ToSet(FlattenSeq(taken[s])) <=> \E b \in ToSet(taken[s]) : x \in Carried(b)
              /\ x \in Items(queue[s]) <=> \E b \in ToSet(queue[s]) : x \in Carried(b)
              /\ x \in ToSet(held[s]) <=> x \in Carried(held[s])
      BY <1>3, TakenItems, ItemsAre
    <2>2. \A b : x \in Carried(b) => b # << >> /\ b # Eof
      BY <1>4
    <2> QED BY <2>1, <2>2, BatchIs
  <1>6. ASSUME NEW x PROVE x \in Along <=> \E p \in Places : x \in At[p]
    <2>1. x \in Along <=> \/ x \in Items(owed) \/ x \in Items(toWriter) \/ x \in ToSet(written)
                          \/ \E b \in AllBatches : x \in Carried(b)
      BY <1>2, <1>3, ItemsAre
    <2>2. (\E b \in AllBatches : x \in Carried(b)) <=>
              \/ x \in At["takenM"] \/ x \in At["heldM"] \/ x \in At["queueM"]
              \/ x \in At["takenR"] \/ x \in At["heldR"] \/ x \in At["queueR"]
      BY <1>5, AtIs, SinksAre
    <2>3. x \in Along <=>
              \/ x \in At["owed"] \/ x \in At["toWriter"] \/ x \in At["written"]
              \/ x \in At["takenM"] \/ x \in At["heldM"] \/ x \in At["queueM"]
              \/ x \in At["takenR"] \/ x \in At["heldR"] \/ x \in At["queueR"]
      BY <2>1, <2>2, AtIs
    <2>4. x \notin At["lost"]
      BY <1>1, AtIs
    <2> QED BY <2>3, <2>4 DEF Places
  <1> QED BY <1>6, AllArrived

\* An item at one place is not handed over twice.
LEMMA TwiceFollows ==
    ASSUME PathInv
    PROVE  NothingTwice
  <1> DEFINE a == FlattenSeq(taken["main"])
             b == FlattenSeq(taken["resend"])
             c == a \o b
  <1>1. /\ a \in Seq(Nat) /\ b \in Seq(Nat) /\ Rises(a) /\ Rises(b)
    BY SinksAre, TakenItems DEF PathInv, PathTypes, OrderInv
  <1>2. ToSet(a) \cap ToSet(b) = {} /\ lost \cap ToSet(a) = {} /\ lost \cap ToSet(b) = {}
    BY AllArrived, AtIs DEF Places
  <1> SUFFICES IsInjective(c) /\ lost \cap ToSet(c) = {}
    BY DEF NothingTwice
  <1> HIDE DEF a, b
  <1>3. \A f : Range(f) = ToSet(f)
    BY DEF Range, ToSet
  <1>4. \A s \in Seq(Nat) : Rises(s) => IsInjective(s)
    <2> SUFFICES ASSUME NEW s \in Seq(Nat), Rises(s), NEW i \in DOMAIN s, NEW j \in DOMAIN s,
                        s[i] = s[j]
                 PROVE  i = j
      BY DEF IsInjective
    <2>1. i \in Int /\ j \in Int /\ s[i] \in Nat /\ s[j] \in Nat
      OBVIOUS
    <2>2. ~(i < j) /\ ~(j < i)
      BY <2>1 DEF Rises
    <2> QED BY <2>1, <2>2
  <1>5. IsInjective(a) /\ IsInjective(b) /\ Range(a) \cap Range(b) = {}
    BY <1>1, <1>2, <1>3, <1>4
  <1>6. IsInjective(c)
    BY <1>1, <1>5, ConcatInjective
  <1>7. \A x : x \in ToSet(c) => x \in ToSet(a) \/ x \in ToSet(b)
    <2>1. /\ DOMAIN c = 1..(Len(a) + Len(b)) /\ Len(a) \in Nat /\ Len(b) \in Nat
          /\ \A i \in 1..Len(a) : c[i] = a[i]
          /\ \A i \in (Len(a) + 1)..(Len(a) + Len(b)) : i - Len(a) \in 1..Len(b) /\ c[i] = b[i - Len(a)]
      BY <1>1, ConcatElements
    <2>2. \A i \in 1..(Len(a) + Len(b)) : i \in 1..Len(a) \/ i \in (Len(a) + 1)..(Len(a) + Len(b))
      BY <2>1
    <2>3. DOMAIN a = 1..Len(a) /\ DOMAIN b = 1..Len(b)
      BY <1>1
    <2> HIDE DEF c
    <2> QED BY <2>1, <2>2, <2>3 DEF ToSet
  <1> QED BY <1>2, <1>6, <1>7

\* What a sink has handed over is in order.
LEMMA OrderFollows ==
    ASSUME PathInv
    PROVE  CollectedInOrder
  <1> SUFFICES ASSUME NEW s \in SinkNodes
               PROVE  LET all == FlattenSeq(taken[s]) IN
                      \A i \in 1..(Len(all) - 1) : all[i] < all[i + 1]
    BY DEF CollectedInOrder
  <1> DEFINE all == FlattenSeq(taken[s])
  <1>1. all \in Seq(Nat) /\ Rises(all)
    BY TakenItems DEF PathInv, PathTypes, OrderInv
  <1> HIDE DEF all
  <1>2. \A i \in 1..(Len(all) - 1) : i \in DOMAIN all /\ i + 1 \in DOMAIN all /\ i < i + 1
    BY <1>1
  <1>3. \A i \in 1..(Len(all) - 1) : all[i] < all[i + 1]
    BY <1>1, <1>2 DEF Rises
  <1> QED BY <1>3 DEF all

\* When the end of the stream is heard, nothing is on its way.
LEMMA EofFollows ==
    ASSUME PathInv
    PROVE  EofIsLast
  <1> SUFFICES ASSUME heardEof, ~discards, onFailure # "alter"
               PROVE  Arrivals \subseteq Delivered \cup lost
    BY DEF EofIsLast
  <1>1. /\ written = << >> /\ OnlyEnds(Coming) /\ queue["main"] = << >> /\ held["main"] = << >>
        /\ queue["resend"] = << >> /\ held["resend"] = << >> /\ PathTypes
    BY DEF PathInv, EofInv, ModeInv
  <1>2. toWriter \in Seq(Messages) /\ owed \in Seq(Messages) /\ BatchEnd \in Ends
    BY <1>1, ComingIs
  <1>3. /\ Len(toWriter) \in Nat /\ Len(owed) \in Nat
        /\ DOMAIN Coming = 1..(Len(toWriter) + Len(owed))
        /\ \A i \in 1..Len(toWriter) : Coming[i] = toWriter[i]
        /\ \A i \in (Len(toWriter) + 1)..(Len(toWriter) + Len(owed)) :
               Coming[i] = owed[i - Len(toWriter)]
    BY <1>2, ConcatElements DEF Coming
  <1>4. Items(toWriter) = {} /\ Items(owed) = {}
    <2> DEFINE n == Len(toWriter)
    <2>1. /\ \A i \in 1..n : i \in DOMAIN Coming
          /\ \A i \in 1..Len(owed) : /\ i + n \in DOMAIN Coming /\ (i + n) - n = i
                                     /\ i + n \in (n + 1)..(n + Len(owed))
      BY <1>3
    <2>2. /\ \A i \in 1..n : toWriter[i] = BatchEnd
          /\ \A i \in 1..Len(owed) : owed[i] = BatchEnd
      BY <1>1, <1>3, <2>1 DEF OnlyEnds
    <2>3. Carried(BatchEnd) = {} /\ DOMAIN toWriter = 1..n /\ DOMAIN owed = 1..Len(owed)
      BY <1>2, EndsApart
    <2> QED BY <2>2, <2>3 DEF Items
  <1>5. \A p \in Places \ {"takenM", "takenR", "lost"} : At[p] = {}
    BY <1>1, <1>4, AtIs, ShortLines DEF Places, ToSet
  <1> SUFFICES ASSUME NEW x \in Arrivals PROVE x \in Delivered \cup lost
    OBVIOUS
  <1>6. x \in At["takenM"] \/ x \in At["takenR"] \/ x \in At["lost"]
    BY <1>5, AllArrived
  <1> QED BY <1>6, AtIs, SinksAre DEF Delivered

\* With nothing to come and no item counted, the writer holds none.
LEMMA BehindFollows ==
    ASSUME PathInv
    PROVE  NothingLeftBehind
  <1> SUFFICES ASSUME ~discards, currIndex = 0, owed = << >>, toWriter = << >>
               PROVE  written = << >>
    BY DEF NothingLeftBehind
  <1>1. PICK c : Fills(c, Coming, Len(written), 0, ended)
    BY DEF PathInv, FillInv
  <1>2. Len(Coming) = 0
    <2>1. << >> \o << >> = << >>
      BY ConcatEmptySeq
    <2> QED BY <2>1 DEF Coming
  <1>3. Len(written) = 0
    BY <1>1, <1>2 DEF Fills
  <1> QED BY <1>3 DEF PathInv, PathTypes

\* Nothing is lost by a sink that retries, nothing is handed over twice or out of order,
\* batches have their size, and neither the end of a batch nor the end of the stream leaves
\* an item behind: PathSound holds in every state (batch_op.go:85-116, sink_node.go:101-191).
THEOREM PathIsSound == PathSpec => []PathSound
  <1>1. PathInv => PathSound
    <2> SUFFICES ASSUME PathInv PROVE PathSound
      OBVIOUS
    <2>1. BatchesAreFull
      BY DEF PathInv
    <2> QED BY <2>1, TypesFollow, RetryFollows, TwiceFollows, OrderFollows, EofFollows,
               BehindFollows DEF PathSound
  <1> QED BY <1>1, PathInvariant, PTL

-----------------------------------------------------------------------------
(* A node with several workers.                                            *)

\* The inputs that the distributor has received, and those it has handed over.
Received == Len(items) - Len(inQueue)
Handed   == Received - (IF distributor = NoItem THEN 0 ELSE 1)

WorkersTypes ==
    /\ checkpoints \in BOOLEAN /\ stopping \in BOOLEAN
    /\ items \in Seq(ItemKinds) /\ Len(items) <= MaxItems
    /\ inQueue \in Seq(Nat) /\ Len(inQueue) <= InputLength /\ Len(inQueue) <= Len(items)
    /\ \A i \in 1..Len(inQueue) : inQueue[i] = Received + i
    /\ counter \in 0..NumWorkers
    /\ distributor # NoItem => /\ counter \in Workers
                               /\ distributor = Received /\ Received > 0
    /\ working \in [Workers -> [item : Nat \cup {NoItem}, pc : {"free", "busy", "done"},
                                out : Seq(Whats)]]
    /\ \A w \in Workers : /\ working[w].pc = "free" => working[w].item = NoItem
                          /\ working[w].item = NoItem => working[w].pc = "free"
    /\ turn \in Workers
    /\ merging \in Seq(Nat \X Whats)
    /\ running \subseteq Goroutines
    /\ result \in Seq(Seq(Whats) \cup {NoItem}) /\ Len(result) = Len(items)
    /\ output \in Seq(Nat \X (Whats \cup {"barrier"}))

\* Two workers have different inputs, none of them has what the distributor has, and what
\* a worker has made of an input is its result.
HandsInv ==
    /\ \A w \in Workers : working[w].item # NoItem =>
           working[w].item \in 1..Received /\ working[w].item # distributor
    /\ \A v, w \in Workers : v # w /\ working[v].item # NoItem => working[v].item # working[w].item
    /\ \A w \in Workers : working[w].pc = "done" => result[working[w].item] = working[w].out

\* The merger has not had the results of the input k.
Pending(k) == k > Received \/ k = distributor \/ \E w \in Workers : working[w].item = k

\* m is the rest of what the merger sends of an input, and s of its results are sent.
RestOf(m, k, s) ==
    /\ k \in 1..Len(items) /\ ~Pending(k) /\ result[k] # NoItem
    /\ Len(result[k]) = s + Len(m)
    /\ \A i \in 1..Len(m) : m[i] = <<k, result[k][s + i]>>

SentInv ==
    /\ \A j \in DOMAIN output : output[j][2] # "barrier" =>
           output[j][1] \in 1..Len(items) /\ ~Pending(output[j][1])
    /\ merging # << >> =>
           LET k == Head(merging)[1] IN RestOf(merging, k, SentOf(output, k, Len(output)))
    /\ NoneRepeated

\* The i-th worker from the worker t on.
Nth(t, i) == IF t + i < NumWorkers THEN t + i ELSE t + i - NumWorkers

\* The workers from the t-th on have the inputs behind the m-th up to the h-th, and the next
\* one is for the worker behind them.
InTurns(t, c, m, h) ==
    /\ h - m \in 0..NumWorkers
    /\ \A i \in 0..(NumWorkers - 1) :
           working[Nth(t, i)].item = IF i < h - m THEN m + 1 + i ELSE NoItem
    /\ c = Nth(t, h - m) \/ (c = NumWorkers /\ Nth(t, h - m) = 0)

\* The merger has had the results of the first m inputs, and has sent or sends them.
Merged(m) ==
    /\ m \in Nat /\ InTurns(turn, counter, m, Handed)
    /\ \A k \in 1..m : result[k] # NoItem
    /\ output \o merging = InOrderOf(m)

TurnsInv ==
    ~checkpoints => /\ \A k \in 1..Len(items) : items[k] # "barrier"
                    /\ \E m \in Nat : Merged(m)

WorkersInv == WorkersTypes /\ HandsInv /\ SentInv /\ TurnsInv

LEMMA WorkersConstants ==
    /\ NumWorkers \in Nat \ {0} /\ InputLength \in Nat \ {0} /\ MaxItems \in Nat \ {0}
    /\ NoItem \notin Nat /\ NoItem \notin Seq(Whats)
    /\ Workers = 0..(NumWorkers - 1) /\ NoItem \notin 1..MaxItems
  BY WorkersAssumption DEF Workers

LEMMA WorkResultsType ==
    \A r \in WorkResults \cup {<<"control">>} : r \in Seq(Whats)
  <1>1. << >> \in Seq(Whats) /\ <<"row">> \in Seq(Whats) /\ <<"error">> \in Seq(Whats)
    BY DEF Whats
  <1>2. <<"row", "row">> \in Seq(Whats) /\ <<"control">> \in Seq(Whats)
    BY DEF Whats
  <1> QED BY <1>1, <1>2 DEF WorkResults

\* What a step of one worker does with the worker.
OneWorker(w, r) ==
    /\ w \in Workers
    /\ r \in [item : Nat \cup {NoItem}, pc : {"free", "busy", "done"}, out : Seq(Whats)]
    /\ (r.pc = "free") <=> (r.item = NoItem)
    /\ working' = [working EXCEPT ![w] = r]

LEMMA OneWorkerTypes ==
    ASSUME WorkersTypes, NEW w, NEW r, OneWorker(w, r)
    PROVE  /\ working' \in [Workers -> [item : Nat \cup {NoItem}, pc : {"free", "busy", "done"},
                                        out : Seq(Whats)]]
           /\ \A v \in Workers : /\ working'[v].pc = "free" => working'[v].item = NoItem
                                 /\ working'[v].item = NoItem => working'[v].pc = "free"
           /\ working'[w] = r /\ \A v \in Workers : v # w => working'[v] = working[v]
  <1>1. w \in Workers /\ working \in [Workers -> [item : Nat \cup {NoItem},
                                       pc : {"free", "busy", "done"}, out : Seq(Whats)]]
    BY DEF OneWorker, WorkersTypes
  <1>2. \A v \in Workers : working'[v] = IF v = w THEN r ELSE working[v]
    BY <1>1 DEF OneWorker
  <1>3. working' \in [Workers -> [item : Nat \cup {NoItem}, pc : {"free", "busy", "done"},
                                  out : Seq(Whats)]]
    BY <1>1 DEF OneWorker
  <1>4. \A v \in Workers : /\ working[v].pc = "free" => working[v].item = NoItem
                           /\ working[v].item = NoItem => working[v].pc = "free"
    BY DEF WorkersTypes
  <1>5. \A v \in Workers : /\ working'[v].pc = "free" => working'[v].item = NoItem
                           /\ working'[v].item = NoItem => working'[v].pc = "free"
    BY <1>2, <1>4 DEF OneWorker
  <1> QED BY <1>1, <1>2, <1>3, <1>5

LEMMA FreeIs ==
    Free \in [item : Nat \cup {NoItem}, pc : {"free", "busy", "done"}, out : Seq(Whats)]
    /\ Free.pc = "free" /\ Free.item = NoItem
  BY DEF Free

\* The steps of the workers, each as a step of one of them.
LEMMA HandOverIs ==
    ASSUME WorkersTypes, HandOver
    PROVE  /\ OneWorker(counter, [item |-> distributor, pc |-> "busy", out |-> << >>])
           /\ counter \in Workers /\ distributor \in Nat /\ distributor # NoItem
           /\ working[counter].item = NoItem
  <1>1. counter \in Workers /\ distributor \in Nat /\ distributor # NoItem
    <2>1. distributor # NoItem
      BY DEF HandOver
    <2>2. Len(items) \in Nat /\ Len(inQueue) \in Nat /\ Len(inQueue) <= Len(items)
      BY DEF WorkersTypes
    <2>3. Received \in Nat
      BY <2>2 DEF Received
    <2> QED BY <2>1, <2>3 DEF WorkersTypes
  <1>2. << >> \in Seq(Whats)
    OBVIOUS
  <1>3. working[counter].item = NoItem
    BY FreeIs DEF HandOver
  <1> QED BY <1>1, <1>2, <1>3 DEF OneWorker, HandOver

LEMMA DoneIs ==
    ASSUME NEW x \in [item : Nat \cup {NoItem}, pc : {"free", "busy", "done"}, out : Seq(Whats)],
           NEW r
    PROVE  [x EXCEPT !.pc = "done", !.out = r] = [item |-> x.item, pc |-> "done", out |-> r]
  <1> DEFINE y == [x EXCEPT !.pc = "done"]
  <1>1. y = [item |-> x.item, pc |-> "done", out |-> x.out]
    OBVIOUS
  <1>2. [x EXCEPT !.pc = "done", !.out = r] = [y EXCEPT !.out = r]
    OBVIOUS
  <1> HIDE DEF y
  <1>3. [y EXCEPT !.out = r] = [item |-> x.item, pc |-> "done", out |-> r]
    BY <1>1
  <1> QED BY <1>2, <1>3

LEMMA WorkIs ==
    ASSUME WorkersTypes, NEW w \in Workers, Work(w)
    PROVE  \E r \in Seq(Whats) :
             /\ OneWorker(w, [item |-> working[w].item, pc |-> "done", out |-> r])
             /\ working[w].item # NoItem /\ working[w].item \in Nat
             /\ result' = [result EXCEPT ![working[w].item] = r]
  <1>1. PICK r \in WorkResults \cup {<<"control">>} :
             /\ working' = [working EXCEPT ![w].pc = "done", ![w].out = r]
             /\ result' = [result EXCEPT ![working[w].item] = r]
    BY DEF Work
  <1>2. r \in Seq(Whats)
    BY WorkResultsType
  <1>3. working[w] \in [item : Nat \cup {NoItem}, pc : {"free", "busy", "done"}, out : Seq(Whats)]
    BY DEF WorkersTypes
  <1>4. working[w].pc = "busy" /\ (working[w].item = NoItem => working[w].pc = "free")
    BY DEF Work, WorkersTypes
  <1>5. working[w].item # NoItem /\ working[w].item \in Nat
    BY <1>3, <1>4
  <1> DEFINE d == [item |-> working[w].item, pc |-> "done", out |-> r]
  <1>6. working' = [working EXCEPT ![w] = d]
    <2>1. working \in [Workers -> [item : Nat \cup {NoItem}, pc : {"free", "busy", "done"},
                                   out : Seq(Whats)]]
      BY DEF WorkersTypes
    <2>2. \A v \in Workers : working'[v] = IF v = w THEN [working[w] EXCEPT !.pc = "done", !.out = r]
                                             ELSE working[v]
      BY <1>1, <2>1
    <2>3. [working[w] EXCEPT !.pc = "done", !.out = r] = d
      BY <1>3, DoneIs, Zenon
    <2>4. DOMAIN working' = Workers /\ DOMAIN working = Workers
      BY <1>1, <2>1
    <2>5. working' = [v \in Workers |-> working'[v]]
      BY <1>1, <2>1
    <2>6. [working EXCEPT ![w] = d] = [v \in Workers |-> IF v = w THEN d ELSE working[v]]
      BY <2>4
    <2> QED BY <2>2, <2>3, <2>5, <2>6
  <1>7. d \in [item : Nat \cup {NoItem}, pc : {"free", "busy", "done"}, out : Seq(Whats)]
    BY <1>2, <1>5
  <1>8. d.pc # "free" /\ d.item # NoItem
    BY <1>5
  <1>9. OneWorker(w, d)
    BY <1>6, <1>7, <1>8 DEF OneWorker
  <1> QED BY <1>1, <1>2, <1>5, <1>9

LEMMA WorkBarrierIs ==
    ASSUME WorkersTypes, NEW w \in Workers, WorkBarrier(w)
    PROVE  OneWorker(w, Free) /\ working[w].item # NoItem /\ working[w].item \in Nat
  <1>1. working[w] \in [item : Nat \cup {NoItem}, pc : {"free", "busy", "done"}, out : Seq(Whats)]
        /\ (working[w].item = NoItem => working[w].pc = "free") /\ working[w].pc = "busy"
    BY DEF WorkersTypes, WorkBarrier
  <1>2. OneWorker(w, Free)
    BY FreeIs DEF OneWorker, WorkBarrier
  <1> QED BY <1>1, <1>2

LEMMA MergeIs ==
    ASSUME WorkersTypes, NEW w \in Workers, Merge(w)
    PROVE  /\ OneWorker(w, Free) /\ working[w].item # NoItem /\ working[w].item \in Nat
           /\ working[w].out \in Seq(Whats) /\ w = turn /\ merging = << >>
           /\ merging' \in Seq(Nat \X Whats) /\ Len(merging') = Len(working[w].out)
           /\ \A i \in 1..Len(merging') : merging'[i] = <<working[w].item, working[w].out[i]>>
           /\ merging' = Pairs(w)
  <1>1. working[w] \in [item : Nat \cup {NoItem}, pc : {"free", "busy", "done"}, out : Seq(Whats)]
        /\ (working[w].item = NoItem => working[w].pc = "free") /\ working[w].pc = "done"
    BY DEF WorkersTypes, Merge
  <1>2. OneWorker(w, Free)
    BY FreeIs DEF OneWorker, Merge
  <1>3. working[w].item # NoItem /\ working[w].item \in Nat /\ working[w].out \in Seq(Whats)
    BY <1>1
  <1> DEFINE k == working[w].item
             o == working[w].out
  <1>4. Len(o) \in Nat /\ DOMAIN o = 1..Len(o) /\ \A i \in 1..Len(o) : o[i] \in Whats
    BY <1>3
  <1>5. merging' = [i \in 1..Len(o) |-> <<k, o[i]>>]
    BY <1>4 DEF Merge, Pairs
  <1>6. k \in Nat
    BY <1>3
  <1> HIDE DEF k, o
  <1>7. merging' \in Seq(Nat \X Whats) /\ Len(merging') = Len(o)
    BY <1>4, <1>5, <1>6
  <1>8. \A i \in 1..Len(merging') : merging'[i] = <<k, o[i]>>
    BY <1>5, <1>7
  <1> QED BY <1>2, <1>3, <1>7, <1>8 DEF k, o, Merge

LEMMA Counts ==
    ASSUME WorkersTypes
    PROVE  /\ Len(items) \in Nat /\ Len(inQueue) \in Nat /\ Len(result) = Len(items)
           /\ Received \in 0..Len(items) /\ Received = Len(items) - Len(inQueue)
           /\ Handed \in 0..Received
           /\ Handed = IF distributor = NoItem THEN Received ELSE Received - 1
           /\ distributor # NoItem => distributor = Received /\ Received > 0
           /\ \A i \in 1..Len(inQueue) : inQueue[i] = Received + i
           /\ DOMAIN items = 1..Len(items) /\ DOMAIN output = 1..Len(output) /\ Len(output) \in Nat
  <1>1. /\ Len(items) \in Nat /\ Len(inQueue) \in Nat /\ Len(result) = Len(items)
        /\ Len(inQueue) <= Len(items)
        /\ DOMAIN items = 1..Len(items) /\ DOMAIN output = 1..Len(output) /\ Len(output) \in Nat
    BY DEF WorkersTypes
  <1>2. Received \in 0..Len(items) /\ Received = Len(items) - Len(inQueue)
    BY <1>1 DEF Received
  <1>3. distributor # NoItem => distributor = Received /\ Received > 0
    BY DEF WorkersTypes
  <1>4. Handed = IF distributor = NoItem THEN Received ELSE Received - 1
    BY <1>2 DEF Handed
  <1>5. Handed \in 0..Received
    BY <1>2, <1>3, <1>4
  <1>6. \A i \in 1..Len(inQueue) : inQueue[i] = Received + i
    BY DEF WorkersTypes
  <1> QED BY <1>1, <1>2, <1>3, <1>4, <1>5, <1>6

LEMMA ArriveTypes ==
    ASSUME WorkersTypes, NEW kind \in ItemKinds, Arrive(kind)
    PROVE  WorkersTypes' /\ Received' = Received /\ Len(items') = Len(items) + 1
  <1>1. /\ items \in Seq(ItemKinds) /\ inQueue \in Seq(Nat) /\ Len(items) \in Nat
        /\ result \in Seq(Seq(Whats) \cup {NoItem}) /\ Len(result) = Len(items)
    BY DEF WorkersTypes
  <1>2. items' = Append(items, kind) /\ inQueue' = Append(inQueue, Len(items) + 1)
        /\ result' = Append(result, NoItem)
    BY DEF Arrive
  <1>3. /\ items' \in Seq(ItemKinds) /\ Len(items') = Len(items) + 1
        /\ inQueue' \in Seq(Nat) /\ Len(inQueue') = Len(inQueue) + 1
        /\ result' \in Seq(Seq(Whats) \cup {NoItem}) /\ Len(result') = Len(items) + 1
        /\ \A i \in 1..Len(inQueue) : inQueue'[i] = inQueue[i]
        /\ inQueue'[Len(inQueue) + 1] = Len(items) + 1
    BY <1>1, <1>2, AppendProperties
  <1>4. Received' = Received
    BY <1>3, Counts DEF Received
  <1>5. \A i \in 1..Len(inQueue') : inQueue'[i] = Received' + i
    <2> SUFFICES ASSUME NEW i \in 1..Len(inQueue') PROVE inQueue'[i] = Received + i
      BY <1>4
    <2>1. CASE i = Len(inQueue) + 1
      BY <1>3, <2>1, Counts
    <2>2. CASE i \in 1..Len(inQueue)
      BY <1>3, <2>2, Counts
    <2> QED BY <1>3, <2>1, <2>2, Counts
  <1>6. Len(items') <= MaxItems /\ Len(inQueue') <= InputLength /\ Len(inQueue') <= Len(items')
    BY <1>3, Counts, WorkersConstants DEF Arrive
  <1>7. UNCHANGED <<checkpoints, counter, distributor, working, turn, merging, stopping,
                    running, output>>
    BY DEF Arrive
  <1> QED BY <1>3, <1>4, <1>5, <1>6, <1>7 DEF WorkersTypes

LEMMA TakeTypes ==
    ASSUME WorkersTypes, Take
    PROVE  /\ WorkersTypes' /\ Received' = Received + 1 /\ distributor' = Received + 1
           /\ distributor = NoItem /\ distributor' # NoItem /\ Handed' = Handed
           /\ counter' = IF counter = NumWorkers THEN 0 ELSE counter
  <1>1. inQueue \in Seq(Nat) /\ inQueue # << >> /\ Len(inQueue) \in Nat \ {0}
    BY DEF WorkersTypes, Take
  <1>2. /\ inQueue' = Tail(inQueue) /\ distributor' = Head(inQueue) /\ distributor = NoItem
        /\ counter' = IF counter = NumWorkers THEN 0 ELSE counter
    BY DEF Take
  <1>3. /\ inQueue' \in Seq(Nat) /\ Len(inQueue') = Len(inQueue) - 1
        /\ \A i \in 1..Len(inQueue') : inQueue'[i] = inQueue[i + 1]
    BY <1>1, <1>2, HeadTailProperties
  <1>4. Head(inQueue) = inQueue[1]
    BY <1>1
  <1>5. items' = items
    BY DEF Take
  <1>6. Received' = Received + 1
    BY <1>3, <1>5, Counts DEF Received
  <1>7. distributor' = Received + 1 /\ Received + 1 \in Nat
    BY <1>1, <1>2, <1>4, Counts
  <1>8. distributor' # NoItem
    BY <1>7, WorkersConstants
  <1>9. Handed' = Handed
    <2>1. Handed = Received
      BY <1>2, Counts
    <2>2. Handed' = Received' - 1
      BY <1>8 DEF Handed
    <2> QED BY <1>6, <2>1, <2>2, Counts
  <1>10. counter' \in 0..NumWorkers /\ counter' \in Workers
    <2>1. counter \in 0..NumWorkers
      BY DEF WorkersTypes
    <2> QED BY <1>2, <2>1, WorkersConstants
  <1>11. \A i \in 1..Len(inQueue') : inQueue'[i] = Received' + i
    <2> SUFFICES ASSUME NEW i \in 1..Len(inQueue') PROVE inQueue'[i] = Received + 1 + i
      BY <1>6
    <2>1. i + 1 \in 1..Len(inQueue)
      BY <1>1, <1>3
    <2>2. inQueue[i + 1] = Received + (i + 1)
      BY <2>1, Counts
    <2> QED BY <1>3, <2>2, Counts
  <1>12. UNCHANGED <<checkpoints, items, working, turn, merging, stopping, running, result, output>>
    BY DEF Take
  <1>13. Len(inQueue') <= InputLength /\ Len(inQueue') <= Len(items')
    <2>1. Len(inQueue) <= InputLength /\ Len(inQueue) <= Len(items)
      BY DEF WorkersTypes
    <2>2. Len(inQueue) \in Nat /\ Len(inQueue') = Len(inQueue) - 1 /\ Len(items') = Len(items)
      BY <1>1, <1>3, <1>5
    <2> QED BY <2>1, <2>2, WorkersConstants, Counts
  <1>14. WorkersTypes'
    <2>1. counter' \in Workers /\ distributor' = Received' /\ Received' > 0
      BY <1>6, <1>7, <1>10, Counts
    <2> QED BY <1>3, <1>10, <1>11, <1>12, <1>13, <2>1 DEF WorkersTypes
  <1> QED BY <1>2, <1>6, <1>7, <1>8, <1>9, <1>14

LEMMA HandOverTypes ==
    ASSUME WorkersTypes, HandOver
    PROVE  /\ WorkersTypes' /\ Received' = Received /\ Handed' = Handed + 1
           /\ distributor' = NoItem /\ distributor = Received /\ counter' = counter + 1
  <1>1. OneWorker(counter, [item |-> distributor, pc |-> "busy", out |-> << >>])
        /\ counter \in Workers /\ distributor # NoItem
    BY HandOverIs
  <1>2. distributor' = NoItem /\ counter' = counter + 1
        /\ UNCHANGED <<checkpoints, items, inQueue, turn, merging, stopping, running, result, output>>
    BY DEF HandOver
  <1>3. Received' = Received
    BY <1>2 DEF Received
  <1>4. distributor = Received
    BY <1>1, Counts
  <1>5. Handed' = Handed + 1
    <2>1. Handed = Received - 1
      BY <1>1, Counts
    <2>2. Handed' = Received - 0
      BY <1>2, <1>3 DEF Handed
    <2> QED BY <2>1, <2>2, Counts
  <1>6. counter' \in 0..NumWorkers
    BY <1>1, <1>2, WorkersConstants
  <1>7. /\ working' \in [Workers -> [item : Nat \cup {NoItem}, pc : {"free", "busy", "done"},
                                     out : Seq(Whats)]]
        /\ \A v \in Workers : /\ working'[v].pc = "free" => working'[v].item = NoItem
                              /\ working'[v].item = NoItem => working'[v].pc = "free"
    BY <1>1, OneWorkerTypes
  <1>8. WorkersTypes'
    BY <1>2, <1>3, <1>6, <1>7 DEF WorkersTypes
  <1> QED BY <1>2, <1>3, <1>4, <1>5, <1>8

LEMMA WorkTypes ==
    ASSUME WorkersTypes, HandsInv, NEW w \in Workers, Work(w)
    PROVE  /\ WorkersTypes' /\ Received' = Received /\ Handed' = Handed
           /\ working[w].item \in 1..Len(items)
           /\ \A k \in 1..Len(items) : k # working[w].item => result'[k] = result[k]
           /\ result'[working[w].item] = working'[w].out
           /\ working'[w].item = working[w].item /\ working'[w].pc = "done"
           /\ \A v \in Workers : v # w => working'[v] = working[v]
           /\ \A v \in Workers : working'[v].item = working[v].item
  <1>1. PICK r \in Seq(Whats) :
             /\ OneWorker(w, [item |-> working[w].item, pc |-> "done", out |-> r])
             /\ working[w].item # NoItem /\ working[w].item \in Nat
             /\ result' = [result EXCEPT ![working[w].item] = r]
    BY WorkIs
  <1>2. UNCHANGED <<checkpoints, items, inQueue, counter, distributor, turn, merging,
                    stopping, running, output>>
    BY DEF Work
  <1>3. Received' = Received /\ Handed' = Handed
    BY <1>2 DEF Received, Handed
  <1>4. working[w].item \in 1..Len(items)
    <2>1. working[w].item \in 1..Received
      BY <1>1 DEF HandsInv
    <2> QED BY <2>1, Counts
  <1>5. /\ working' \in [Workers -> [item : Nat \cup {NoItem}, pc : {"free", "busy", "done"},
                                     out : Seq(Whats)]]
        /\ \A v \in Workers : /\ working'[v].pc = "free" => working'[v].item = NoItem
                              /\ working'[v].item = NoItem => working'[v].pc = "free"
        /\ working'[w] = [item |-> working[w].item, pc |-> "done", out |-> r]
        /\ \A v \in Workers : v # w => working'[v] = working[v]
    BY <1>1, OneWorkerTypes
  <1>6. /\ result' \in Seq(Seq(Whats) \cup {NoItem}) /\ Len(result') = Len(result)
        /\ \A j \in 1..Len(result) : result'[j] = IF j = working[w].item THEN r ELSE result[j]
    <2>1. result \in Seq(Seq(Whats) \cup {NoItem}) /\ r \in Seq(Whats) \cup {NoItem}
      BY DEF WorkersTypes
    <2>2. working[w].item \in 1..Len(result)
      BY <1>4, Counts
    <2> DEFINE k == working[w].item
    <2>3. k \in 1..Len(result) /\ result' = [result EXCEPT ![k] = r]
      BY <1>1, <2>2
    <2> HIDE DEF k
    <2>4. /\ result' \in Seq(Seq(Whats) \cup {NoItem}) /\ Len(result') = Len(result)
          /\ \A j \in 1..Len(result) : result'[j] = IF j = k THEN r ELSE result[j]
      BY <2>1, <2>3, ExceptSeq
    <2> QED BY <2>4 DEF k
  <1>7. Len(result') = Len(items')
    BY <1>2, <1>6, Counts
  <1>8. WorkersTypes'
    BY <1>2, <1>3, <1>5, <1>6, <1>7 DEF WorkersTypes
  <1>9. working'[w].item = working[w].item /\ working'[w].pc = "done" /\ working'[w].out = r
    BY <1>5
  <1> QED BY <1>3, <1>4, <1>5, <1>6, <1>8, <1>9, Counts

LEMMA WorkBarrierTypes ==
    ASSUME WorkersTypes, HandsInv, NEW w \in Workers, WorkBarrier(w)
    PROVE  /\ WorkersTypes' /\ Received' = Received /\ Handed' = Handed
           /\ working[w].item \in 1..Len(items)
           /\ working'[w].item = NoItem /\ working'[w].pc = "free"
           /\ \A v \in Workers : v # w => working'[v] = working[v]
  <1>1. OneWorker(w, Free) /\ working[w].item # NoItem /\ working[w].item \in Nat
    BY WorkBarrierIs
  <1>2. UNCHANGED <<checkpoints, items, inQueue, counter, distributor, turn, merging,
                    stopping, running, result>>
    BY DEF WorkBarrier
  <1>3. Received' = Received /\ Handed' = Handed
    BY <1>2 DEF Received, Handed
  <1>4. working[w].item \in 1..Len(items)
    <2>1. working[w].item \in 1..Received
      BY <1>1 DEF HandsInv
    <2> QED BY <2>1, Counts
  <1>5. /\ working' \in [Workers -> [item : Nat \cup {NoItem}, pc : {"free", "busy", "done"},
                                     out : Seq(Whats)]]
        /\ \A v \in Workers : /\ working'[v].pc = "free" => working'[v].item = NoItem
                              /\ working'[v].item = NoItem => working'[v].pc = "free"
        /\ working'[w] = Free /\ \A v \in Workers : v # w => working'[v] = working[v]
    BY <1>1, OneWorkerTypes
  <1>6. output' \in Seq(Nat \X (Whats \cup {"barrier"}))
    <2>1. output \in Seq(Nat \X (Whats \cup {"barrier"})) /\ output' = Append(output, <<working[w].item, "barrier">>)
      BY DEF WorkersTypes, WorkBarrier
    <2>2. <<working[w].item, "barrier">> \in Nat \X (Whats \cup {"barrier"})
      BY <1>1
    <2> QED BY <2>1, <2>2, AppendProperties
  <1>7. WorkersTypes'
    BY <1>2, <1>3, <1>5, <1>6 DEF WorkersTypes
  <1> QED BY <1>3, <1>4, <1>5, <1>7, FreeIs

LEMMA NextTurn ==
    ASSUME NEW t \in Workers
    PROVE  /\ (t + 1) % NumWorkers = (IF t + 1 = NumWorkers THEN 0 ELSE t + 1)
           /\ (t + 1) % NumWorkers \in Workers
  <1>1. t \in Nat /\ t + 1 <= NumWorkers /\ NumWorkers \in Nat \ {0}
    BY WorkersConstants
  <1>2. CASE t + 1 = NumWorkers
    <2>1. (t + 1) % NumWorkers = 0
      BY <1>1, <1>2
    <2> QED BY <1>1, <1>2, <2>1, WorkersConstants
  <1>3. CASE t + 1 # NumWorkers
    <2>1. (t + 1) % NumWorkers = t + 1
      BY <1>1, <1>3
    <2> QED BY <1>1, <1>3, <2>1, WorkersConstants
  <1> QED BY <1>2, <1>3

LEMMA MergeTypes ==
    ASSUME WorkersTypes, NEW w \in Workers, Merge(w)
    PROVE  /\ WorkersTypes' /\ Received' = Received /\ Handed' = Handed
           /\ working'[w].item = NoItem /\ working'[w].pc = "free"
           /\ \A v \in Workers : v # w => working'[v] = working[v]
  <1>1. OneWorker(w, Free) /\ merging' \in Seq(Nat \X Whats) /\ w = turn
    BY MergeIs
  <1>2. UNCHANGED <<checkpoints, items, inQueue, counter, distributor, stopping, running,
                    result, output>>
    BY DEF Merge
  <1>3. Received' = Received /\ Handed' = Handed
    BY <1>2 DEF Received, Handed
  <1>5. /\ working' \in [Workers -> [item : Nat \cup {NoItem}, pc : {"free", "busy", "done"},
                                     out : Seq(Whats)]]
        /\ \A v \in Workers : /\ working'[v].pc = "free" => working'[v].item = NoItem
                              /\ working'[v].item = NoItem => working'[v].pc = "free"
        /\ working'[w] = Free /\ \A v \in Workers : v # w => working'[v] = working[v]
    BY <1>1, OneWorkerTypes
  <1>6. turn' \in Workers
    BY <1>1, NextTurn DEF Merge
  <1>7. WorkersTypes'
    BY <1>1, <1>2, <1>3, <1>5, <1>6 DEF WorkersTypes
  <1> QED BY <1>3, <1>5, <1>7, FreeIs

LEMMA EmitTypes ==
    ASSUME WorkersTypes, Emit
    PROVE  /\ WorkersTypes' /\ Received' = Received /\ Handed' = Handed
           /\ merging # << >> /\ Head(merging) = merging[1] /\ Len(merging) \in Nat \ {0}
           /\ Head(merging) \in Nat \X Whats
           /\ merging' = Tail(merging) /\ Len(merging') = Len(merging) - 1
           /\ \A i \in 1..Len(merging') : merging'[i] = merging[i + 1]
           /\ output' = Append(output, Head(merging)) /\ Len(output') = Len(output) + 1
           /\ output'[Len(output) + 1] = Head(merging)
           /\ \A j \in 1..Len(output) : output'[j] = output[j]
  <1>1. merging \in Seq(Nat \X Whats) /\ merging # << >>
    BY DEF WorkersTypes, Emit
  <1>2. merging' = Tail(merging) /\ output' = Append(output, Head(merging))
        /\ UNCHANGED <<checkpoints, items, inQueue, counter, distributor, working, turn, stopping,
                   running, result>>
    BY DEF Emit
  <1>3. /\ Head(merging) \in Nat \X Whats /\ Tail(merging) \in Seq(Nat \X Whats)
        /\ Len(Tail(merging)) = Len(merging) - 1
        /\ \A i \in 1..Len(Tail(merging)) : Tail(merging)[i] = merging[i + 1]
    BY <1>1, HeadTailProperties
  <1>4. Head(merging) = merging[1] /\ Len(merging) \in Nat \ {0}
    BY <1>1
  <1>5. /\ output \in Seq(Nat \X (Whats \cup {"barrier"}))
        /\ Head(merging) \in Nat \X (Whats \cup {"barrier"})
    BY <1>3 DEF WorkersTypes
  <1>6. /\ output' \in Seq(Nat \X (Whats \cup {"barrier"})) /\ Len(output') = Len(output) + 1
        /\ output'[Len(output) + 1] = Head(merging)
        /\ \A j \in 1..Len(output) : output'[j] = output[j]
    <2> DEFINE e == Head(merging)
    <2>1. output' = Append(output, e) /\ e \in Nat \X (Whats \cup {"barrier"})
      BY <1>2, <1>5
    <2> HIDE DEF e
    <2>2. /\ output' \in Seq(Nat \X (Whats \cup {"barrier"})) /\ Len(output') = Len(output) + 1
          /\ output'[Len(output) + 1] = e
          /\ \A j \in 1..Len(output) : output'[j] = output[j]
      BY <1>5, <2>1, AppendProperties
    <2> QED BY <2>2 DEF e
  <1>7. Received' = Received /\ Handed' = Handed
    BY <1>2 DEF Received, Handed
  <1>8. WorkersTypes'
    BY <1>2, <1>3, <1>6, <1>7 DEF WorkersTypes
  <1> QED BY <1>1, <1>2, <1>3, <1>4, <1>6, <1>7, <1>8

LEMMA StopTypes ==
    ASSUME WorkersTypes, Stop \/ \E g \in Goroutines : End(g)
    PROVE  WorkersTypes' /\ UNCHANGED <<checkpoints, items, inQueue, counter, distributor, working,
                                        turn, merging, result, output>>
  <1>1. UNCHANGED <<checkpoints, items, inQueue, counter, distributor, working,
                                        turn, merging, result, output>>
    BY DEF Stop, End
  <1>2. Received' = Received
    BY <1>1 DEF Received
  <1>3. running' \subseteq Goroutines /\ stopping' \in BOOLEAN
    BY DEF Stop, End, WorkersTypes
  <1> QED BY <1>1, <1>2, <1>3 DEF WorkersTypes

\* No step makes an input pending again that the merger has had the results of.
NonePends == \A k \in Nat : Pending(k)' => Pending(k)

LEMMA KeptHands ==
    ASSUME WorkersTypes, HandsInv, Received' = Received,
           UNCHANGED <<distributor, working>>,
           \A k \in 1..Received : result'[k] = result[k]
    PROVE  HandsInv' /\ NonePends
  <1>1. \A w \in Workers : working[w].pc = "done" => result'[working[w].item] = working[w].out
    <2> SUFFICES ASSUME NEW w \in Workers, working[w].pc = "done"
                 PROVE  result'[working[w].item] = working[w].out
      OBVIOUS
    <2>1. working[w].item # NoItem
      BY DEF WorkersTypes
    <2>2. working[w].item \in 1..Received /\ result[working[w].item] = working[w].out
      BY <2>1 DEF HandsInv
    <2> QED BY <2>2
  <1>2. HandsInv'
    BY <1>1 DEF HandsInv
  <1>3. NonePends
    BY DEF NonePends, Pending
  <1> QED BY <1>2, <1>3

LEMMA ArriveHands ==
    ASSUME WorkersTypes, HandsInv, NEW kind \in ItemKinds, Arrive(kind)
    PROVE  HandsInv' /\ NonePends /\ \A k \in 1..Len(items) : result'[k] = result[k]
  <1>1. Received' = Received /\ UNCHANGED <<distributor, working>>
    BY ArriveTypes DEF Arrive
  <1>2. \A k \in 1..Len(items) : result'[k] = result[k]
    <2>1. result \in Seq(Seq(Whats) \cup {NoItem}) /\ Len(result) = Len(items)
      BY DEF WorkersTypes
    <2>2. result' = Append(result, NoItem)
      BY DEF Arrive
    <2> QED BY <2>1, <2>2, AppendProperties
  <1>3. \A k \in 1..Received : result'[k] = result[k]
    BY <1>2, Counts
  <1> QED BY <1>1, <1>2, <1>3, KeptHands

LEMMA TakeHands ==
    ASSUME WorkersTypes, HandsInv, Take
    PROVE  HandsInv' /\ NonePends
  <1>1. /\ Received' = Received + 1 /\ distributor' = Received + 1 /\ distributor = NoItem
        /\ Received \in Nat /\ UNCHANGED <<working, result>>
    BY TakeTypes, Counts DEF Take
  <1>2. \A w \in Workers : working[w].item # NoItem =>
             working[w].item \in 1..Received' /\ working[w].item # distributor'
    <2> SUFFICES ASSUME NEW w \in Workers, working[w].item # NoItem
                 PROVE  working[w].item \in 1..Received' /\ working[w].item # distributor'
      OBVIOUS
    <2>1. working[w].item \in 1..Received
      BY DEF HandsInv
    <2> QED BY <1>1, <2>1
  <1>3. HandsInv'
    BY <1>1, <1>2 DEF HandsInv
  <1>4. NonePends
    <2> SUFFICES ASSUME NEW k \in Nat, Pending(k)' PROVE Pending(k)
      BY DEF NonePends
    <2>1. k > Received + 1 \/ k = Received + 1 \/ \E w \in Workers : working[w].item = k
      BY <1>1 DEF Pending
    <2> QED BY <1>1, <2>1 DEF Pending
  <1> QED BY <1>3, <1>4

LEMMA HandOverHands ==
    ASSUME WorkersTypes, HandsInv, HandOver
    PROVE  HandsInv' /\ NonePends
  <1>1. /\ OneWorker(counter, [item |-> distributor, pc |-> "busy", out |-> << >>])
        /\ counter \in Workers /\ distributor # NoItem
    BY HandOverIs
  <1>2. /\ Received' = Received /\ distributor' = NoItem /\ distributor = Received
        /\ Received \in Nat /\ Received > 0 /\ result' = result
    BY <1>1, HandOverTypes, Counts DEF HandOver
  <1>3. /\ working'[counter].item = Received /\ working'[counter].pc = "busy"
        /\ \A v \in Workers : v # counter => working'[v] = working[v]
    BY <1>1, <1>2, OneWorkerTypes
  <1>4. NoItem \notin Nat
    BY WorkersConstants
  <1>5. \A w \in Workers : working'[w].item # NoItem =>
             working'[w].item \in 1..Received' /\ working'[w].item # distributor'
    <2> SUFFICES ASSUME NEW w \in Workers, working'[w].item # NoItem
                 PROVE  working'[w].item \in 1..Received' /\ working'[w].item # distributor'
      OBVIOUS
    <2>1. CASE w = counter
      BY <1>2, <1>3, <1>4, <2>1
    <2>2. CASE w # counter
      BY <1>2, <1>3, <1>4, <2>2 DEF HandsInv
    <2> QED BY <2>1, <2>2
  <1>6. \A v, w \in Workers : v # w /\ working'[v].item # NoItem
                                 => working'[v].item # working'[w].item
    <2> SUFFICES ASSUME NEW v \in Workers, NEW w \in Workers, v # w, working'[v].item # NoItem
                 PROVE  working'[v].item # working'[w].item
      OBVIOUS
    <2>1. CASE v # counter /\ w # counter
      BY <1>3, <2>1 DEF HandsInv
    <2>2. CASE v = counter
      <3>1. working'[w] = working[w] /\ (working[w].item # NoItem => working[w].item # distributor)
        BY <1>3, <2>2 DEF HandsInv
      <3> QED BY <1>2, <1>3, <1>4, <2>2, <3>1
    <2>3. CASE w = counter
      <3>1. working'[v] = working[v] /\ (working[v].item # NoItem => working[v].item # distributor)
        BY <1>3, <2>3 DEF HandsInv
      <3> QED BY <1>2, <1>3, <2>3, <3>1
    <2> QED BY <2>1, <2>2, <2>3
  <1>7. \A w \in Workers : working'[w].pc = "done" => result'[working'[w].item] = working'[w].out
    <2> SUFFICES ASSUME NEW w \in Workers, working'[w].pc = "done"
                 PROVE  result'[working'[w].item] = working'[w].out
      OBVIOUS
    <2>1. w # counter
      BY <1>3
    <2> QED BY <1>2, <1>3, <2>1 DEF HandsInv
  <1>8. NonePends
    <2> SUFFICES ASSUME NEW k \in Nat, Pending(k)' PROVE Pending(k)
      BY DEF NonePends
    <2>1. k > Received \/ k = NoItem \/ \E w \in Workers : working'[w].item = k
      BY <1>2 DEF Pending
    <2>2. ASSUME NEW w \in Workers, working'[w].item = k PROVE Pending(k)
      <3>1. CASE w = counter
        BY <1>2, <1>3, <2>2, <3>1 DEF Pending
      <3>2. CASE w # counter
        BY <1>3, <2>2, <3>2 DEF Pending
      <3> QED BY <3>1, <3>2
    <2>3. k > Received => Pending(k)
      BY DEF Pending
    <2> QED BY <1>4, <2>1, <2>2, <2>3
  <1>9. HandsInv'
    BY <1>5, <1>6, <1>7 DEF HandsInv
  <1> QED BY <1>8, <1>9

LEMMA WorkHands ==
    ASSUME WorkersTypes, HandsInv, NEW w \in Workers, Work(w)
    PROVE  HandsInv' /\ NonePends /\ Pending(working[w].item)
  <1>1. /\ Received' = Received /\ working[w].item \in 1..Len(items)
        /\ \A k \in 1..Len(items) : k # working[w].item => result'[k] = result[k]
        /\ result'[working[w].item] = working'[w].out
        /\ working'[w].item = working[w].item /\ working'[w].pc = "done"
        /\ \A v \in Workers : v # w => working'[v] = working[v]
        /\ \A v \in Workers : working'[v].item = working[v].item
    BY WorkTypes
  <1>2. distributor' = distributor
    BY DEF Work
  <1>3. \A v \in Workers : working'[v].pc = "done" => result'[working'[v].item] = working'[v].out
    <2> SUFFICES ASSUME NEW v \in Workers, working'[v].pc = "done"
                 PROVE  result'[working'[v].item] = working'[v].out
      OBVIOUS
    <2>1. CASE v = w
      BY <1>1, <2>1
    <2>2. CASE v # w
      <3>1. working'[v] = working[v] /\ working[v].pc = "done"
        BY <1>1, <2>2
      <3>2. working[v].item # NoItem
        BY <3>1 DEF WorkersTypes
      <3>3. working[v].item \in 1..Received /\ working[v].item # working[w].item
            /\ result[working[v].item] = working[v].out
        BY <2>2, <3>1, <3>2 DEF HandsInv
      <3>4. working[v].item \in 1..Len(items)
        BY <3>3, Counts
      <3>5. result'[working[v].item] = result[working[v].item]
        BY <1>1, <3>3, <3>4
      <3> QED BY <3>1, <3>3, <3>5
    <2> QED BY <2>1, <2>2
  <1>4. /\ \A v \in Workers : working'[v].item # NoItem =>
               working'[v].item \in 1..Received' /\ working'[v].item # distributor'
        /\ \A v, u \in Workers : v # u /\ working'[v].item # NoItem
               => working'[v].item # working'[u].item
    BY <1>1, <1>2 DEF HandsInv
  <1>5. HandsInv'
    BY <1>3, <1>4 DEF HandsInv
  <1>6. NonePends /\ Pending(working[w].item)
    BY <1>1, <1>2 DEF NonePends, Pending
  <1> QED BY <1>5, <1>6

LEMMA FreedHands ==
    ASSUME WorkersTypes, HandsInv, NEW w \in Workers, Received' = Received,
           UNCHANGED <<distributor, result>>, working'[w].item = NoItem, working'[w].pc = "free",
           \A v \in Workers : v # w => working'[v] = working[v]
    PROVE  HandsInv' /\ NonePends
           /\ \A k \in Nat : working[w].item = k => ~Pending(k)' 
  <1>1. \A v \in Workers : working'[v].item # NoItem =>
               working'[v].item \in 1..Received' /\ working'[v].item # distributor'
    BY DEF HandsInv
  <1>2. \A v, u \in Workers : v # u /\ working'[v].item # NoItem
               => working'[v].item # working'[u].item
    <2> SUFFICES ASSUME NEW v \in Workers, NEW u \in Workers, v # u, working'[v].item # NoItem
                 PROVE  working'[v].item # working'[u].item
      OBVIOUS
    <2>1. v # w /\ working'[v] = working[v]
      OBVIOUS
    <2>2. CASE u = w
      BY <2>2
    <2>3. CASE u # w
      BY <2>1, <2>3 DEF HandsInv
    <2> QED BY <2>2, <2>3
  <1>3. \A v \in Workers : working'[v].pc = "done" => result'[working'[v].item] = working'[v].out
    <2> SUFFICES ASSUME NEW v \in Workers, working'[v].pc = "done"
                 PROVE  result'[working'[v].item] = working'[v].out
      OBVIOUS
    <2>1. v # w
      OBVIOUS
    <2> QED BY <2>1 DEF HandsInv
  <1>4. NoItem \notin Nat
    BY WorkersConstants
  <1>5. NonePends
    <2> SUFFICES ASSUME NEW k \in Nat, Pending(k)' PROVE Pending(k)
      BY DEF NonePends
    <2>1. k > Received \/ k = distributor \/ \E v \in Workers : working'[v].item = k
      BY DEF Pending
    <2>2. ASSUME NEW v \in Workers, working'[v].item = k PROVE Pending(k)
      BY <1>4, <2>2 DEF Pending
    <2> QED BY <2>1, <2>2 DEF Pending
  <1>6. ASSUME NEW k \in Nat, working[w].item = k PROVE ~Pending(k)'
    <2>1. k # NoItem
      BY <1>4
    <2>2. k \in 1..Received /\ k # distributor
      BY <1>6, <2>1 DEF HandsInv
    <2>3. \A v \in Workers : working'[v].item # k
      <3> SUFFICES ASSUME NEW v \in Workers, working'[v].item = k PROVE FALSE
        OBVIOUS
      <3>1. v # w /\ working[v].item = k
        BY <2>1
      <3> QED BY <1>6, <2>1, <3>1 DEF HandsInv
    <2>4. ~(k > Received')
      BY <2>2, Counts
    <2> QED BY <2>2, <2>3, <2>4 DEF Pending
  <1>7. HandsInv'
    BY <1>1, <1>2, <1>3 DEF HandsInv
  <1> QED BY <1>5, <1>6, <1>7

\* Counting the results of an input among the outputs.
Outs == Seq(Nat \X (Whats \cup {"barrier"}))

LEMMA SentIsNat ==
    ASSUME NEW out, NEW k, NEW n \in Nat
    PROVE  /\ IsFiniteSet({h \in 1..n : out[h][1] = k /\ out[h][2] # "barrier"})
           /\ SentOf(out, k, n) \in Nat
  <1>1. IsFiniteSet(1..n)
    BY FS_Interval
  <1> DEFINE T == {h \in 1..n : out[h][1] = k /\ out[h][2] # "barrier"}
  <1>2. T \in SUBSET (1..n)
    OBVIOUS
  <1> HIDE DEF T
  <1>3. IsFiniteSet(T) /\ Cardinality(T) \in Nat
    BY <1>1, <1>2, FS_Subset, FS_CardinalityType
  <1> QED BY <1>3 DEF T, SentOf

LEMMA SentSame ==
    ASSUME NEW out, NEW more, NEW k, NEW n \in Nat, \A h \in 1..n : more[h] = out[h]
    PROVE  SentOf(more, k, n) = SentOf(out, k, n)
  <1>1. {h \in 1..n : more[h][1] = k /\ more[h][2] # "barrier"}
          = {h \in 1..n : out[h][1] = k /\ out[h][2] # "barrier"}
    OBVIOUS
  <1> QED BY <1>1 DEF SentOf

LEMMA SentMore ==
    ASSUME NEW out, NEW k, NEW n \in Nat
    PROVE  SentOf(out, k, n + 1) = IF out[n + 1][1] = k /\ out[n + 1][2] # "barrier"
                                     THEN SentOf(out, k, n) + 1 ELSE SentOf(out, k, n)
  <1> DEFINE T(m) == {h \in 1..m : out[h][1] = k /\ out[h][2] # "barrier"}
  <1>1. \A h : h \in 1..(n + 1) <=> h \in 1..n \/ h = n + 1
    OBVIOUS
  <1>2. n + 1 \notin T(n)
    OBVIOUS
  <1>3. IsFiniteSet(T(n))
    BY SentIsNat
  <1>4. CASE out[n + 1][1] = k /\ out[n + 1][2] # "barrier"
    <2>1. T(n + 1) = T(n) \cup {n + 1}
      BY <1>1, <1>4
    <2> HIDE DEF T
    <2>2. Cardinality(T(n) \cup {n + 1}) = Cardinality(T(n)) + 1
      BY <1>2, <1>3, FS_AddElement
    <2> QED BY <1>4, <2>1, <2>2 DEF T, SentOf
  <1>5. CASE ~(out[n + 1][1] = k /\ out[n + 1][2] # "barrier")
    <2>1. T(n + 1) = T(n)
      BY <1>1, <1>5
    <2> QED BY <1>5, <2>1 DEF SentOf
  <1> QED BY <1>4, <1>5

LEMMA SentNone ==
    ASSUME NEW out, NEW k, NEW n \in Nat,
           \A h \in 1..n : out[h][2] # "barrier" => out[h][1] # k
    PROVE  SentOf(out, k, n) = 0
  <1>1. {h \in 1..n : out[h][1] = k /\ out[h][2] # "barrier"} = {}
    OBVIOUS
  <1> QED BY <1>1, FS_EmptySet DEF SentOf

\* The j-th output is one of the results of its input, and its place among those is right.
IsResult(j) ==
    LET k == output[j][1]   i == SentOf(output, k, j) IN
    /\ k \in 1..Len(items) /\ ~Pending(k) /\ result[k] # NoItem
    /\ i \in DOMAIN result[k] /\ output[j][2] = result[k][i]

LEMMA SentInvIs ==
    ASSUME WorkersTypes
    PROVE  SentInv <=> /\ \A j \in 1..Len(output) : output[j][2] # "barrier" => IsResult(j)
                       /\ merging # << >> => RestOf(merging, Head(merging)[1],
                              SentOf(output, Head(merging)[1], Len(output)))
  <1>1. DOMAIN output = 1..Len(output) /\ DOMAIN items = 1..Len(items)
    BY Counts
  <1> QED BY <1>1 DEF SentInv, NoneRepeated, IsResult

LEMMA OutputKinds ==
    ASSUME WorkersTypes, NEW j \in 1..Len(output)
    PROVE  output[j][1] \in Nat
  <1>1. output[j] \in Nat \X (Whats \cup {"barrier"})
    BY ElementOfSeq DEF WorkersTypes
  <1> QED BY <1>1

\* What is sent stays right, when no input that is sent becomes pending and no result of
\* one changes.
ResultsKept ==
    /\ NonePends /\ Len(items) <= Len(items')
    /\ \A k \in 1..Len(items) : ~Pending(k) => result'[k] = result[k]

LEMMA KeptIsResult ==
    ASSUME WorkersTypes, WorkersTypes', ResultsKept, NEW j \in 1..Len(output), IsResult(j),
           \A h \in 1..j : output'[h] = output[h]
    PROVE  IsResult(j)'
  <1> DEFINE k == output[j][1]
  <1>1. Len(items) \in Nat /\ Len(items') \in Nat /\ j \in Nat /\ j \in 1..j
    BY Counts DEF WorkersTypes
  <1>2. output'[j] = output[j]
    BY <1>1
  <1>3. k \in 1..Len(items) /\ ~Pending(k) /\ result'[k] = result[k]
    BY DEF IsResult, ResultsKept
  <1>4. k \in 1..Len(items') /\ k \in Nat /\ ~Pending(k)'
    BY <1>1, <1>3 DEF ResultsKept, NonePends
  <1>5. SentOf(output', k, j) = SentOf(output, k, j)
    BY <1>1, SentSame
  <1> QED BY <1>2, <1>3, <1>4, <1>5 DEF IsResult

LEMMA KeptSent ==
    ASSUME WorkersTypes, WorkersTypes', SentInv, ResultsKept, UNCHANGED <<output, merging>>
    PROVE  SentInv'
  <1>1. \A j \in 1..Len(output) : output[j][2] # "barrier" => IsResult(j)'
    <2> SUFFICES ASSUME NEW j \in 1..Len(output), output[j][2] # "barrier" PROVE IsResult(j)'
      OBVIOUS
    <2>1. IsResult(j)
      BY SentInvIs
    <2>2. \A h \in 1..j : output'[h] = output[h]
      OBVIOUS
    <2> QED BY <2>1, <2>2, KeptIsResult
  <1>2. merging # << >> => RestOf(merging, Head(merging)[1],
                              SentOf(output, Head(merging)[1], Len(output)))'
    <2> SUFFICES ASSUME merging # << >>
                 PROVE  RestOf(merging, Head(merging)[1],
                              SentOf(output, Head(merging)[1], Len(output)))'
      OBVIOUS
    <2>0. PICK k : k = Head(merging)[1]
      OBVIOUS
    <2>a. PICK s : s = SentOf(output, k, Len(output))
      OBVIOUS
    <2>1. RestOf(merging, k, s)
      BY <2>0, <2>a, SentInvIs
    <2>2. k \in 1..Len(items) /\ ~Pending(k) /\ result'[k] = result[k]
      BY <2>1 DEF RestOf, ResultsKept
    <2>3. k \in 1..Len(items') /\ k \in Nat /\ ~Pending(k)'
      <3>1. Len(items) \in Nat /\ Len(items') \in Nat /\ Len(items) <= Len(items')
        BY Counts DEF WorkersTypes, ResultsKept
      <3>2. k \in 1..Len(items') /\ k \in Nat
        BY <2>2, <3>1
      <3> QED BY <2>2, <3>2 DEF ResultsKept, NonePends
    <2>4. /\ k \in 1..Len(items') /\ ~Pending(k)' /\ result'[k] # NoItem
          /\ Len(result'[k]) = s + Len(merging)
          /\ \A i \in 1..Len(merging) : merging[i] = <<k, result'[k][s + i]>>
      BY <2>1, <2>2, <2>3 DEF RestOf
    <2>5. Head(merging')[1] = k /\ SentOf(output', k, Len(output')) = s
      BY <2>0, <2>a
    <2> QED BY <2>4, <2>5 DEF RestOf
  <1>3. /\ \A j \in 1..Len(output') : output'[j][2] # "barrier" => IsResult(j)'
        /\ merging' # << >> => RestOf(merging, Head(merging)[1],
                              SentOf(output, Head(merging)[1], Len(output)))'
    BY <1>1, <1>2
  <1>4. DOMAIN output' = 1..Len(output') /\ DOMAIN items' = 1..Len(items')
    BY DEF WorkersTypes
  <1> QED BY <1>3, <1>4 DEF SentInv, NoneRepeated, IsResult

LEMMA RestKept ==
    ASSUME WorkersTypes, WorkersTypes', ResultsKept, NEW m, NEW k, NEW s, RestOf(m, k, s)
    PROVE  RestOf(m, k, s)'
  <1>1. k \in 1..Len(items) /\ ~Pending(k) /\ result'[k] = result[k]
    BY DEF RestOf, ResultsKept
  <1>2. Len(items) \in Nat /\ Len(items') \in Nat /\ Len(items) <= Len(items')
    BY Counts DEF WorkersTypes, ResultsKept
  <1>3. k \in 1..Len(items') /\ k \in Nat
    BY <1>1, <1>2
  <1>4. ~Pending(k)'
    BY <1>1, <1>3 DEF ResultsKept, NonePends
  <1> QED BY <1>1, <1>3, <1>4 DEF RestOf

LEMMA SentInvNext ==
    ASSUME WorkersTypes',
           \A j \in 1..Len(output') : output'[j][2] # "barrier" => IsResult(j)',
           merging' # << >> =>
               \E k, s : /\ k = Head(merging')[1] /\ s = SentOf(output', k, Len(output'))
                         /\ RestOf(merging, k, s)'
    PROVE  SentInv'
  <1>1. DOMAIN output' = 1..Len(output') /\ DOMAIN items' = 1..Len(items')
    BY DEF WorkersTypes
  <1>2. \A j \in DOMAIN output' : output'[j][2] # "barrier" => IsResult(j)'
    BY <1>1
  <1>3. /\ \A j \in DOMAIN output' : output'[j][2] # "barrier" =>
              output'[j][1] \in 1..Len(items') /\ ~Pending(output[j][1])'
        /\ NoneRepeated'
    BY <1>1, <1>2 DEF IsResult, NoneRepeated
  <1>4. merging' # << >> => RestOf(merging, Head(merging)[1],
                              SentOf(output, Head(merging)[1], Len(output)))'
    BY DEF RestOf
  <1> QED BY <1>3, <1>4 DEF SentInv

LEMMA SentBarrier ==
    ASSUME NEW out \in Outs, NEW e \in Nat \X (Whats \cup {"barrier"}), e[2] = "barrier", NEW k
    PROVE  SentOf(Append(out, e), k, Len(Append(out, e))) = SentOf(out, k, Len(out))
  <1> DEFINE more == Append(out, e)
  <1>1. /\ Len(more) = Len(out) + 1 /\ Len(out) \in Nat /\ more[Len(out) + 1] = e
        /\ \A h \in 1..Len(out) : more[h] = out[h]
    BY AppendProperties, LenProperties DEF Outs
  <1> HIDE DEF more
  <1>2. SentOf(more, k, Len(out) + 1) = SentOf(more, k, Len(out))
    BY <1>1, SentMore
  <1>3. SentOf(more, k, Len(out)) = SentOf(out, k, Len(out))
    BY <1>1, SentSame
  <1>4. SentOf(more, k, Len(more)) = SentOf(out, k, Len(out))
    BY <1>1, <1>2, <1>3
  <1> QED BY <1>4 DEF more

LEMMA SentResult ==
    ASSUME NEW out \in Outs, NEW e \in Nat \X (Whats \cup {"barrier"}), e[2] # "barrier",
           NEW k, e[1] = k
    PROVE  SentOf(Append(out, e), k, Len(Append(out, e))) = SentOf(out, k, Len(out)) + 1
  <1> DEFINE more == Append(out, e)
  <1>1. /\ Len(more) = Len(out) + 1 /\ Len(out) \in Nat /\ more[Len(out) + 1] = e
        /\ \A h \in 1..Len(out) : more[h] = out[h]
    BY AppendProperties, LenProperties DEF Outs
  <1> HIDE DEF more
  <1>2. SentOf(more, k, Len(out) + 1) = SentOf(more, k, Len(out)) + 1
    BY <1>1, SentMore
  <1>3. SentOf(more, k, Len(out)) = SentOf(out, k, Len(out))
    BY <1>1, SentSame
  <1>4. SentOf(more, k, Len(more)) = SentOf(out, k, Len(out)) + 1
    BY <1>1, <1>2, <1>3
  <1> QED BY <1>4 DEF more

LEMMA BarrierSent ==
    ASSUME WorkersTypes, WorkersTypes', SentInv, ResultsKept, merging' = merging,
           NEW e, e \in Nat \X (Whats \cup {"barrier"}), e[2] = "barrier",
           output' = Append(output, e)
    PROVE  SentInv'
  <1>1. /\ Len(output') = Len(output) + 1 /\ Len(output) \in Nat
        /\ \A h \in 1..Len(output) : output'[h] = output[h]
        /\ output'[Len(output) + 1] = e
    <2>1. output \in Seq(Nat \X (Whats \cup {"barrier"}))
      BY DEF WorkersTypes
    <2> QED BY <2>1, AppendProperties, LenProperties
  <1>2. \A j \in 1..Len(output') : output'[j][2] # "barrier" => IsResult(j)'
    <2> SUFFICES ASSUME NEW j \in 1..Len(output'), output'[j][2] # "barrier" PROVE IsResult(j)'
      OBVIOUS
    <2>1. j \in 1..Len(output)
      <3>1. j # Len(output) + 1
        BY <1>1
      <3> QED BY <1>1, <3>1
    <2>2. IsResult(j)
      BY <1>1, <2>1, SentInvIs
    <2>3. \A h \in 1..j : output'[h] = output[h]
      BY <1>1, <2>1
    <2> QED BY <2>1, <2>2, <2>3, KeptIsResult
  <1>3. merging' # << >> =>
               \E k, s : /\ k = Head(merging')[1] /\ s = SentOf(output', k, Len(output'))
                         /\ RestOf(merging, k, s)'
    <2> SUFFICES ASSUME merging # << >>
                 PROVE  \E k, s : /\ k = Head(merging)[1] /\ s = SentOf(output', k, Len(output'))
                                  /\ RestOf(merging, k, s)'
      OBVIOUS
    <2>1. PICK k : k = Head(merging)[1]
      OBVIOUS
    <2>2. PICK s : s = SentOf(output, k, Len(output))
      OBVIOUS
    <2>3. PICK m : m = merging
      OBVIOUS
    <2>4. RestOf(m, k, s)
      BY <2>1, <2>2, <2>3, SentInvIs
    <2>5. RestOf(m, k, s)'
      BY <2>4, RestKept
    <2>6. RestOf(merging, k, s)'
      BY <2>3, <2>5 DEF RestOf
    <2>7. SentOf(output', k, Len(output')) = s
      <3>1. output \in Outs /\ e \in Nat \X (Whats \cup {"barrier"})
        BY DEF WorkersTypes, Outs
      <3> QED BY <2>2, <3>1, SentBarrier
    <2> QED BY <2>1, <2>6, <2>7
  <1> QED BY <1>2, <1>3, SentInvNext

LEMMA MergeSent ==
    ASSUME WorkersTypes, HandsInv, SentInv, NEW w \in Workers, Merge(w)
    PROVE  HandsInv' /\ SentInv'
  <1>1. /\ working[w].item # NoItem /\ working[w].item \in Nat
        /\ working[w].out \in Seq(Whats) /\ merging = << >>
        /\ merging' \in Seq(Nat \X Whats) /\ Len(merging') = Len(working[w].out)
        /\ \A i \in 1..Len(merging') : merging'[i] = <<working[w].item, working[w].out[i]>>
    BY MergeIs
  <1>2. /\ WorkersTypes' /\ Received' = Received /\ working'[w].item = NoItem
        /\ working'[w].pc = "free" /\ \A v \in Workers : v # w => working'[v] = working[v]
    BY MergeTypes
  <1>3. UNCHANGED <<items, distributor, result, output>>
    BY DEF Merge
  <1>4. /\ HandsInv' /\ NonePends /\ \A k \in Nat : working[w].item = k => ~Pending(k)'
    BY <1>2, <1>3, FreedHands
  <1>5. ResultsKept
    BY <1>3, <1>4, Counts DEF ResultsKept
  <1>6. \A j \in 1..Len(output') : output'[j][2] # "barrier" => IsResult(j)'
    <2> SUFFICES ASSUME NEW j \in 1..Len(output), output[j][2] # "barrier" PROVE IsResult(j)'
      BY <1>3
    <2>1. IsResult(j)
      BY SentInvIs
    <2>2. \A h \in 1..j : output'[h] = output[h]
      BY <1>3
    <2> QED BY <1>2, <1>5, <2>1, <2>2, KeptIsResult
  <1>7. PICK k \in Nat : k = working[w].item
    BY <1>1
  <1>8. Pending(k) /\ k \in 1..Len(items) /\ result[k] = working[w].out
    <2>1. k \in 1..Received /\ result[k] = working[w].out
      BY <1>1, <1>7 DEF HandsInv, Merge
    <2> QED BY <1>7, <2>1, Counts DEF Pending
  <1>9. SentOf(output, k, Len(output)) = 0
    <2>1. ASSUME NEW h \in 1..Len(output), output[h][2] # "barrier" PROVE output[h][1] # k
      <3>1. IsResult(h)
        BY <2>1, SentInvIs
      <3> QED BY <1>8, <3>1 DEF IsResult
    <2> QED BY <2>1, SentNone, Counts
  <1>10. RestOf(merging, k, 0)'
    <2>1. k \in 1..Len(items') /\ ~Pending(k)' /\ result'[k] = working[w].out
      BY <1>3, <1>4, <1>7, <1>8
    <2>2. result'[k] # NoItem
      BY <1>1, <2>1, WorkersConstants
    <2>3. Len(result'[k]) = 0 + Len(merging')
      BY <1>1, <2>1
    <2>4. \A i \in 1..Len(merging') : merging'[i] = <<k, result'[k][0 + i]>>
      <3> SUFFICES ASSUME NEW i \in 1..Len(merging') PROVE merging'[i] = <<k, result'[k][0 + i]>>
        OBVIOUS
      <3>1. 0 + i = i
        OBVIOUS
      <3> QED BY <1>1, <1>7, <2>1, <3>1
    <2> QED BY <2>1, <2>2, <2>3, <2>4 DEF RestOf
  <1>11. merging' # << >> =>
               \E kk, s : /\ kk = Head(merging')[1] /\ s = SentOf(output', kk, Len(output'))
                          /\ RestOf(merging, kk, s)'
    <2> SUFFICES ASSUME merging' # << >>
                 PROVE  k = Head(merging')[1] /\ 0 = SentOf(output', k, Len(output'))
      BY <1>10
    <2>1. 1 \in 1..Len(merging') /\ Head(merging') = merging'[1]
      BY <1>1
    <2> QED BY <1>1, <1>3, <1>7, <1>9, <2>1
  <1>12. SentInv'
    BY <1>2, <1>6, <1>11, SentInvNext
  <1> QED BY <1>4, <1>12

LEMMA EmitSent ==
    ASSUME WorkersTypes, HandsInv, SentInv, Emit
    PROVE  HandsInv' /\ SentInv'
  <1>1. /\ WorkersTypes' /\ Received' = Received
        /\ merging # << >> /\ Head(merging) = merging[1] /\ Len(merging) \in Nat \ {0}
        /\ Head(merging) \in Nat \X Whats
        /\ merging' = Tail(merging) /\ Len(merging') = Len(merging) - 1
        /\ \A i \in 1..Len(merging') : merging'[i] = merging[i + 1]
        /\ Len(output') = Len(output) + 1 /\ output'[Len(output) + 1] = Head(merging)
        /\ \A j \in 1..Len(output) : output'[j] = output[j]
    BY EmitTypes
  <1>2. UNCHANGED <<items, distributor, working, result>>
    BY DEF Emit
  <1>3. HandsInv' /\ NonePends
    BY <1>1, <1>2, KeptHands
  <1>4. ResultsKept
    BY <1>2, <1>3, Counts DEF ResultsKept
  <1>5. PICK k \in Nat : k = Head(merging)[1]
    BY <1>1
  <1>6. PICK s \in Nat : s = SentOf(output, k, Len(output))
    BY SentIsNat, Counts
  <1>7. PICK m : m = merging
    OBVIOUS
  <1>8. RestOf(m, k, s)
    BY <1>1, <1>5, <1>6, <1>7, SentInvIs
  <1>9. RestOf(m, k, s)'
    BY <1>1, <1>4, <1>8, RestKept
  <1>10. /\ k \in 1..Len(items') /\ ~Pending(k)' /\ result'[k] # NoItem
         /\ Len(result'[k]) = s + Len(merging)
         /\ \A i \in 1..Len(merging) : merging[i] = <<k, result'[k][s + i]>>
    BY <1>7, <1>9 DEF RestOf
  <1>11. result'[k] \in Seq(Whats)
    <2>1. result' \in Seq(Seq(Whats) \cup {NoItem}) /\ Len(result') = Len(items')
      BY <1>1 DEF WorkersTypes
    <2>2. k \in 1..Len(result')
      BY <1>10, <2>1
    <2>3. result'[k] \in Seq(Whats) \cup {NoItem}
      BY <2>1, <2>2, ElementOfSeq
    <2> QED BY <1>10, <2>3
  <1>12. Head(merging) = <<k, result'[k][s + 1]>> /\ Head(merging)[2] # "barrier"
    <2>0. 1 \in 1..Len(merging)
      BY <1>1
    <2>1. merging[1] = <<k, result'[k][s + 1]>>
      BY <1>10, <2>0
    <2>2. Head(merging)[2] \in Whats
      BY <1>1
    <2> QED BY <1>1, <2>1, <2>2 DEF Whats
  <1>13. SentOf(output', k, Len(output')) = s + 1
    <2>1. PICK e : e = Head(merging)
      OBVIOUS
    <2>2. output' = Append(output, e)
      BY <2>1 DEF Emit
    <2>3. e \in Nat \X (Whats \cup {"barrier"}) /\ e[2] # "barrier" /\ e[1] = k
      BY <1>1, <1>5, <1>12, <2>1
    <2>4. output \in Outs
      BY DEF WorkersTypes, Outs
    <2>5. SentOf(Append(output, e), k, Len(Append(output, e))) = SentOf(output, k, Len(output)) + 1
      BY <2>3, <2>4, SentResult
    <2> QED BY <1>6, <2>2, <2>5
  <1>14. \A j \in 1..Len(output') : output'[j][2] # "barrier" => IsResult(j)'
    <2> SUFFICES ASSUME NEW j \in 1..Len(output'), output'[j][2] # "barrier" PROVE IsResult(j)'
      OBVIOUS
    <2>1. CASE j \in 1..Len(output)
      <3>1. IsResult(j)
        BY <1>1, <2>1, SentInvIs
      <3>2. \A h \in 1..j : output'[h] = output[h]
        BY <1>1, <2>1
      <3> QED BY <1>1, <1>4, <2>1, <3>1, <3>2, KeptIsResult
    <2>2. CASE j = Len(output) + 1
      <3>1. /\ output'[j] = Head(merging) /\ output'[j][1] = k
            /\ output'[j][2] = result'[k][s + 1]
        <4>1. output'[j] = Head(merging) /\ output'[j] = <<k, result'[k][s + 1]>>
          BY <1>1, <1>12, <2>2
        <4> QED BY <4>1
      <3>2. SentOf(output', k, j) = s + 1
        BY <1>1, <1>13, <2>2
      <3>3. s + 1 \in DOMAIN result'[k]
        <4>1. DOMAIN result'[k] = 1..Len(result'[k])
          BY <1>11
        <4> QED BY <1>1, <1>10, <4>1
      <3> QED BY <1>10, <3>1, <3>2, <3>3 DEF IsResult
    <2>3. j \in 1..Len(output) \/ j = Len(output) + 1
      BY <1>1, Counts
    <2> QED BY <2>1, <2>2, <2>3
  <1>15. merging' # << >> =>
               \E kk, ss : /\ kk = Head(merging')[1] /\ ss = SentOf(output', kk, Len(output'))
                           /\ RestOf(merging, kk, ss)'
    <2> SUFFICES ASSUME merging' # << >>
                 PROVE  k = Head(merging')[1] /\ RestOf(merging, k, s + 1)'
      BY <1>13
    <2>1. merging' \in Seq(Nat \X Whats)
      BY <1>1 DEF WorkersTypes
    <2>2. 1 \in 1..Len(merging') /\ Head(merging') = merging'[1]
      BY <2>1
    <2>3. \A i \in 1..Len(merging') : merging'[i] = <<k, result'[k][(s + 1) + i]>>
      <3> SUFFICES ASSUME NEW i \in 1..Len(merging')
                   PROVE  merging'[i] = <<k, result'[k][(s + 1) + i]>>
        OBVIOUS
      <3>1. i + 1 \in 1..Len(merging) /\ s + (i + 1) = (s + 1) + i
        BY <1>1
      <3> QED BY <1>1, <1>10, <3>1
    <2>4. Len(result'[k]) = (s + 1) + Len(merging')
      BY <1>1, <1>10
    <2>5. k = Head(merging')[1]
      BY <2>2, <2>3
    <2> QED BY <1>10, <2>3, <2>4, <2>5 DEF RestOf
  <1>16. SentInv'
    BY <1>1, <1>14, <1>15, SentInvNext
  <1> QED BY <1>3, <1>16

\* What went out, and what the merger sends, stays right in every step.
LEMMA SentNext ==
    ASSUME WorkersTypes, HandsInv, SentInv, [WorkersNext]_workVars
    PROVE  WorkersTypes' /\ HandsInv' /\ SentInv'
  <1>0. Len(items) \in Nat
    BY Counts
  <1>1. ASSUME NEW kind \in ItemKinds, Arrive(kind) PROVE WorkersTypes' /\ HandsInv' /\ SentInv'
    <2>1. WorkersTypes' /\ Len(items') = Len(items) + 1
      BY <1>1, ArriveTypes
    <2>2. HandsInv' /\ NonePends /\ \A k \in 1..Len(items) : result'[k] = result[k]
      BY <1>1, ArriveHands
    <2>3. ResultsKept
      BY <1>0, <2>1, <2>2 DEF ResultsKept
    <2>4. UNCHANGED <<output, merging>>
      BY <1>1 DEF Arrive
    <2> QED BY <2>1, <2>2, <2>3, <2>4, KeptSent
  <1>2. CASE Take
    <2>1. WorkersTypes' /\ HandsInv' /\ NonePends
      BY <1>2, TakeTypes, TakeHands
    <2>2. UNCHANGED <<items, result, output, merging>>
      BY <1>2 DEF Take
    <2>3. ResultsKept
      BY <1>0, <2>1, <2>2 DEF ResultsKept
    <2> QED BY <2>1, <2>2, <2>3, KeptSent
  <1>3. CASE HandOver
    <2>1. WorkersTypes' /\ HandsInv' /\ NonePends
      BY <1>3, HandOverTypes, HandOverHands
    <2>2. UNCHANGED <<items, result, output, merging>>
      BY <1>3 DEF HandOver
    <2>3. ResultsKept
      BY <1>0, <2>1, <2>2 DEF ResultsKept
    <2> QED BY <2>1, <2>2, <2>3, KeptSent
  <1>4. ASSUME NEW w \in Workers, Work(w) PROVE WorkersTypes' /\ HandsInv' /\ SentInv'
    <2>1. WorkersTypes' /\ \A k \in 1..Len(items) : k # working[w].item => result'[k] = result[k]
      BY <1>4, WorkTypes
    <2>2. HandsInv' /\ NonePends /\ Pending(working[w].item)
      BY <1>4, WorkHands
    <2>3. UNCHANGED <<items, output, merging>>
      BY <1>4 DEF Work
    <2>4. \A k \in 1..Len(items) : ~Pending(k) => result'[k] = result[k]
      BY <2>1, <2>2
    <2>5. ResultsKept
      BY <1>0, <2>2, <2>3, <2>4 DEF ResultsKept
    <2> QED BY <2>1, <2>2, <2>3, <2>5, KeptSent
  <1>5. ASSUME NEW w \in Workers, WorkBarrier(w) PROVE WorkersTypes' /\ HandsInv' /\ SentInv'
    <2>1. /\ WorkersTypes' /\ Received' = Received /\ working'[w].item = NoItem
          /\ working'[w].pc = "free" /\ \A v \in Workers : v # w => working'[v] = working[v]
      BY <1>5, WorkBarrierTypes
    <2>2. UNCHANGED <<items, distributor, merging, result>>
      BY <1>5 DEF WorkBarrier
    <2>3. HandsInv' /\ NonePends
      BY <2>1, <2>2, FreedHands
    <2>4. ResultsKept
      BY <1>0, <2>2, <2>3 DEF ResultsKept
    <2>5. PICK e : e = <<working[w].item, "barrier">>
      OBVIOUS
    <2>6. working[w].item \in Nat
      BY <1>5, WorkBarrierIs
    <2>7. /\ e \in Nat \X (Whats \cup {"barrier"}) /\ e[2] = "barrier"
          /\ output' = Append(output, e)
      BY <1>5, <2>5, <2>6 DEF WorkBarrier
    <2> QED BY <2>1, <2>2, <2>3, <2>4, <2>7, BarrierSent
  <1>6. ASSUME NEW w \in Workers, Merge(w) PROVE WorkersTypes' /\ HandsInv' /\ SentInv'
    BY <1>6, MergeTypes, MergeSent
  <1>7. CASE Emit
    BY <1>7, EmitTypes, EmitSent
  <1>8. CASE Stop \/ \E g \in Goroutines : End(g)
    <2>1. WorkersTypes' /\ UNCHANGED <<checkpoints, items, inQueue, counter, distributor, working,
                                        turn, merging, result, output>>
      BY <1>8, StopTypes
    <2>2. Received' = Received
      BY <2>1 DEF Received
    <2>3. HandsInv' /\ NonePends
      BY <2>1, <2>2, KeptHands
    <2>4. ResultsKept
      BY <1>0, <2>1, <2>3 DEF ResultsKept
    <2> QED BY <2>1, <2>3, <2>4, KeptSent
  <1>9. CASE UNCHANGED workVars
    <2>1. UNCHANGED <<checkpoints, items, inQueue, counter, distributor, working, turn, merging,
                      stopping, running, result, output>>
      BY <1>9 DEF workVars
    <2>2. Received' = Received
      BY <2>1 DEF Received
    <2>3. HandsInv' /\ NonePends
      BY <2>1, <2>2, KeptHands
    <2>4. ResultsKept
      BY <1>0, <2>1, <2>3 DEF ResultsKept
    <2>5. WorkersTypes'
      BY <2>1, <2>2 DEF WorkersTypes
    <2> QED BY <2>1, <2>3, <2>4, <2>5, KeptSent
  <1> QED BY <1>1, <1>2, <1>3, <1>4, <1>5, <1>6, <1>7, <1>8, <1>9 DEF WorkersNext, WorkSteps

-----------------------------------------------------------------------------
(* The turns of the workers.                                               *)

LEMMA NthIs ==
    ASSUME NEW t \in Workers
    PROVE  /\ Nth(t, 0) = t /\ Nth(t, NumWorkers) = t
           /\ \A i \in 0..NumWorkers : Nth(t, i) \in Workers
           /\ \A i, j \in 0..(NumWorkers - 1) : Nth(t, i) = Nth(t, j) => i = j
           /\ \A i \in 0..(NumWorkers - 1) :
                /\ Nth((t + 1) % NumWorkers, i) = Nth(t, i + 1)
                /\ \/ Nth(t, i) + 1 = Nth(t, i + 1)
                   \/ Nth(t, i) + 1 = NumWorkers /\ Nth(t, i + 1) = 0
  <1>1. t \in 0..(NumWorkers - 1) /\ NumWorkers \in Nat \ {0} /\ Workers = 0..(NumWorkers - 1)
    BY WorkersConstants
  <1>2. Nth(t, 0) = t /\ Nth(t, NumWorkers) = t
    BY <1>1 DEF Nth
  <1>3. \A i \in 0..NumWorkers : Nth(t, i) \in Workers
    BY <1>1 DEF Nth
  <1>4. \A i, j \in 0..(NumWorkers - 1) : Nth(t, i) = Nth(t, j) => i = j
    BY <1>1 DEF Nth
  <1>5. ASSUME NEW i \in 0..(NumWorkers - 1)
        PROVE  Nth((t + 1) % NumWorkers, i) = Nth(t, i + 1)
    <2>1. CASE t + 1 = NumWorkers
      <3>1. (t + 1) % NumWorkers = 0
        BY <2>1, NextTurn
      <3> QED BY <1>1, <2>1, <3>1 DEF Nth
    <2>2. CASE t + 1 # NumWorkers
      <3>1. (t + 1) % NumWorkers = t + 1
        BY <2>2, NextTurn
      <3> QED BY <1>1, <2>2, <3>1 DEF Nth
    <2> QED BY <2>1, <2>2
  <1>6. \A i \in 0..(NumWorkers - 1) : \/ Nth(t, i) + 1 = Nth(t, i + 1)
                                       \/ Nth(t, i) + 1 = NumWorkers /\ Nth(t, i + 1) = 0
    BY <1>1 DEF Nth
  <1> QED BY <1>2, <1>3, <1>4, <1>5, <1>6

\* What an input has made, as the merger sends it.
MadeOf(k) == IF result[k] = NoItem THEN << >>
             ELSE [i \in DOMAIN result[k] |-> <<k, result[k][i]>>]

Pieces(n) == [k \in 1..n |-> MadeOf(k)]

LEMMA MadeIs ==
    ASSUME WorkersTypes, NEW k \in 1..Len(items)
    PROVE  /\ MadeOf(k) \in Seq(Nat \X Whats)
           /\ \A i \in 1..Len(MadeOf(k)) : MadeOf(k)[i][1] = k
  <1>1. result[k] \in Seq(Whats) \cup {NoItem}
    <2>1. result \in Seq(Seq(Whats) \cup {NoItem}) /\ Len(result) = Len(items)
      BY DEF WorkersTypes
    <2> QED BY <2>1, ElementOfSeq
  <1>2. k \in Nat
    BY Counts
  <1>3. CASE result[k] = NoItem
    <2>1. MadeOf(k) = << >>
      BY <1>3 DEF MadeOf
    <2> QED BY <2>1
  <1>4. CASE result[k] # NoItem
    <2> DEFINE r == result[k]
    <2>1. r \in Seq(Whats) /\ r # NoItem
      BY <1>1, <1>4
    <2>2. MadeOf(k) = [i \in DOMAIN r |-> <<k, r[i]>>]
      BY <1>4 DEF MadeOf
    <2> HIDE DEF r
    <2>3. DOMAIN r = 1..Len(r) /\ Len(r) \in Nat /\ \A i \in 1..Len(r) : r[i] \in Whats
      BY <2>1, LenProperties, ElementOfSeq
    <2> DEFINE p == [i \in 1..Len(r) |-> <<k, r[i]>>]
    <2>4. p \in Seq(Nat \X Whats)
      BY <1>2, <2>3
    <2>5. Len(p) = Len(r) /\ \A i \in 1..Len(r) : p[i][1] = k
      BY <2>3
    <2>6. MadeOf(k) = p
      BY <2>2, <2>3
    <2> QED BY <2>4, <2>5, <2>6
  <1> QED BY <1>3, <1>4

LEMMA InOrderIs ==
    ASSUME NEW n
    PROVE  InOrderOf(n) = FlattenSeq(Pieces(n))
  <1>1. Pieces(n) = [k \in 1..n |-> IF result[k] = NoItem THEN << >>
                                    ELSE [i \in DOMAIN result[k] |-> <<k, result[k][i]>>]]
    BY DEF Pieces, MadeOf
  <1> QED BY <1>1 DEF InOrderOf

LEMMA PiecesIs ==
    ASSUME WorkersTypes, NEW n \in 0..Len(items)
    PROVE  /\ Pieces(n) \in Seq(Seq(Nat \X Whats)) /\ Len(Pieces(n)) = n
           /\ n < Len(items) => Pieces(n + 1) = Append(Pieces(n), MadeOf(n + 1))
           /\ InOrderOf(n) \in Seq(Nat \X Whats)
  <1>1. Len(items) \in Nat /\ n \in Nat
    BY Counts
  <1>2. \A m \in 0..Len(items) : /\ Pieces(m) \in Seq(Seq(Nat \X Whats)) /\ Len(Pieces(m)) = m
                                 /\ \A k \in 1..m : Pieces(m)[k] = MadeOf(k)
    <2> SUFFICES ASSUME NEW m \in 0..Len(items)
                 PROVE  /\ Pieces(m) \in Seq(Seq(Nat \X Whats)) /\ Len(Pieces(m)) = m
                        /\ \A k \in 1..m : Pieces(m)[k] = MadeOf(k)
      OBVIOUS
    <2>1. m \in Nat /\ \A k \in 1..m : MadeOf(k) \in Seq(Nat \X Whats)
      BY <1>1, MadeIs
    <2>2. Pieces(m) \in [1..m -> Seq(Nat \X Whats)]
      BY <2>1 DEF Pieces
    <2>3. Pieces(m) \in Seq(Seq(Nat \X Whats)) /\ Len(Pieces(m)) = m
      BY <2>1, <2>2
    <2> QED BY <2>3 DEF Pieces
  <1>3. ASSUME n < Len(items) PROVE Pieces(n + 1) = Append(Pieces(n), MadeOf(n + 1))
    <2>1. n + 1 \in 0..Len(items) /\ n + 1 \in 1..Len(items) /\ n + 1 \in 1..(n + 1)
      BY <1>1, <1>3
    <2>2. MadeOf(n + 1) \in Seq(Nat \X Whats)
      BY <2>1, MadeIs
    <2> DEFINE a == Append(Pieces(n), MadeOf(n + 1))
               S == Seq(Nat \X Whats)
    <2>3. Pieces(n) \in Seq(S) /\ MadeOf(n + 1) \in S /\ Len(Pieces(n)) = n
      BY <1>2, <2>2
    <2>4. /\ a \in Seq(S) /\ Len(a) = n + 1 /\ a[n + 1] = MadeOf(n + 1)
          /\ \A k \in 1..n : a[k] = Pieces(n)[k]
      BY <2>3, AppendProperties
    <2>5. /\ Pieces(n + 1) \in Seq(S) /\ Len(Pieces(n + 1)) = n + 1
          /\ \A k \in 1..(n + 1) : Pieces(n + 1)[k] = MadeOf(k)
      BY <1>2, <2>1
    <2> HIDE DEF a, S
    <2>6. \A k \in 1..(n + 1) : Pieces(n + 1)[k] = a[k]
      <3>1. \A k \in 1..n : Pieces(n)[k] = MadeOf(k)
        BY <1>2
      <3>2. \A k \in 1..(n + 1) : k \in 1..n \/ k = n + 1
        BY <1>1
      <3> QED BY <2>4, <2>5, <3>1, <3>2
    <2>7. Pieces(n + 1) = a
      BY <2>4, <2>5, <2>6, SeqEqual
    <2> QED BY <2>7 DEF a
  <1>4. InOrderOf(n) \in Seq(Nat \X Whats)
    <2>1. Pieces(n) \in Seq(Seq(Nat \X Whats))
      BY <1>2
    <2> QED BY <2>1, FlattenType, InOrderIs
  <1> QED BY <1>2, <1>3, <1>4

LEMMA InOrderGrows ==
    ASSUME WorkersTypes, NEW n \in 0..Len(items)
    PROVE  /\ n < Len(items) => InOrderOf(n + 1) = InOrderOf(n) \o MadeOf(n + 1)
           /\ InOrderOf(0) = << >>
  <1>1. ASSUME n < Len(items) PROVE InOrderOf(n + 1) = InOrderOf(n) \o MadeOf(n + 1)
    <2>1. Pieces(n) \in Seq(Seq(Nat \X Whats)) /\ Pieces(n + 1) = Append(Pieces(n), MadeOf(n + 1))
      BY <1>1, PiecesIs
    <2>2. n + 1 \in 1..Len(items)
      BY <1>1, Counts
    <2>3. MadeOf(n + 1) \in Seq(Nat \X Whats)
      BY <2>2, MadeIs
    <2>4. FlattenSeq(Append(Pieces(n), MadeOf(n + 1))) = FlattenSeq(Pieces(n)) \o MadeOf(n + 1)
      BY <2>1, <2>3, FlattenAppend
    <2> QED BY <2>1, <2>4, InOrderIs
  <1>2. InOrderOf(0) = << >>
    <2>1. Pieces(0) = << >>
      <3>1. 0 \in 0..Len(items)
        BY Counts
      <3>2. Pieces(0) \in Seq(Seq(Nat \X Whats)) /\ Len(Pieces(0)) = 0
        BY <3>1, PiecesIs
      <3> QED BY <3>2, EmptySeq
    <2> QED BY <2>1, FlattenEmpty, InOrderIs
  <1> QED BY <1>1, <1>2

\* What the first n inputs make stands before what the others make.
Begins(n, m) ==
    /\ Len(InOrderOf(n)) <= Len(InOrderOf(m))
    /\ \A i \in 1..Len(InOrderOf(n)) : InOrderOf(m)[i] = InOrderOf(n)[i]
    /\ \A i \in 1..Len(InOrderOf(m)) : i > Len(InOrderOf(n)) => InOrderOf(m)[i][1] > n

LEMMA OneBegins ==
    ASSUME WorkersTypes, NEW n \in Nat, NEW m \in Nat, n <= m, m < Len(items), Begins(n, m)
    PROVE  Begins(n, m + 1)
  <1>1. Len(items) \in Nat /\ m \in 0..Len(items) /\ m + 1 \in 1..Len(items) /\ n \in 0..Len(items)
    BY Counts
  <1> DEFINE a == InOrderOf(n)
             b == InOrderOf(m)
             c == InOrderOf(m + 1)
             p == MadeOf(m + 1)
  <1>2. a \in Seq(Nat \X Whats) /\ b \in Seq(Nat \X Whats) /\ c = b \o p
    BY <1>1, PiecesIs, InOrderGrows
  <1>3. p \in Seq(Nat \X Whats) /\ \A i \in 1..Len(p) : p[i][1] = m + 1
    BY <1>1, MadeIs
  <1>4. /\ Len(a) <= Len(b) /\ \A i \in 1..Len(a) : b[i] = a[i]
        /\ \A i \in 1..Len(b) : i > Len(a) => b[i][1] > n
    BY DEF Begins
  <1> HIDE DEF a, b, c, p
  <1>5. Len(a) \in Nat /\ Len(b) \in Nat /\ Len(p) \in Nat
    BY <1>2, <1>3, LenProperties
  <1>6. /\ Len(c) = Len(b) + Len(p)
        /\ \A i \in 1..(Len(b) + Len(p)) : c[i] = IF i <= Len(b) THEN b[i] ELSE p[i - Len(b)]
    BY <1>2, <1>3, ConcatProperties
  <1>7. \A i \in 1..Len(a) : c[i] = a[i]
    <2> SUFFICES ASSUME NEW i \in 1..Len(a) PROVE c[i] = a[i]
      OBVIOUS
    <2>1. i <= Len(b) /\ i \in 1..(Len(b) + Len(p)) /\ b[i] = a[i]
      BY <1>4, <1>5
    <2> QED BY <1>6, <2>1
  <1>8. ASSUME NEW i \in 1..Len(c), i > Len(a) PROVE c[i][1] > n
    <2>1. CASE i <= Len(b)
      <3>1. i \in 1..Len(b) /\ c[i] = b[i]
        BY <1>5, <1>6, <2>1
      <3> QED BY <1>4, <1>8, <3>1
    <2>2. CASE ~(i <= Len(b))
      <3>1. i - Len(b) \in 1..Len(p) /\ c[i] = p[i - Len(b)]
        BY <1>5, <1>6, <2>2
      <3>2. c[i][1] = m + 1
        BY <1>3, <3>1
      <3> QED BY <3>2
    <2> QED BY <2>1, <2>2
  <1>9. Len(a) <= Len(c)
    BY <1>4, <1>5, <1>6
  <1> QED BY <1>7, <1>8, <1>9 DEF Begins, a, c

LEMMA AllBegin ==
    ASSUME WorkersTypes, NEW n \in Nat, NEW m \in Nat, n <= m, m <= Len(items)
    PROVE  Begins(n, m)
  <1> DEFINE G == {d \in 0..(m - n) : Begins(n, n + d)}
  <1>1. Len(items) \in Nat /\ m - n \in Nat /\ n + (m - n) = m /\ n + 0 = n
    BY Counts
  <1>2. 0 \in G
    <2>1. n \in 0..Len(items)
      BY <1>1
    <2>2. InOrderOf(n) \in Seq(Nat \X Whats)
      BY <2>1, PiecesIs
    <2>3. Len(InOrderOf(n)) \in Nat
      BY <2>2, LenProperties
    <2>4. Begins(n, n)
      BY <2>3 DEF Begins
    <2> QED BY <1>1, <2>4
  <1>3. ASSUME NEW d \in 0..((m - n) - 1), d \in G PROVE d + 1 \in G
    <2>1. n + d \in Nat /\ n <= n + d /\ n + d < Len(items) /\ (n + d) + 1 = n + (d + 1)
          /\ d + 1 \in 0..(m - n)
      BY <1>1
    <2>2. Begins(n, n + d)
      BY <1>3
    <2>3. Begins(n, (n + d) + 1)
      BY <2>1, <2>2, OneBegins
    <2> QED BY <2>1, <2>3
  <1> HIDE DEF G
  <1>4. m - n \in G
    BY <1>1, <1>2, <1>3, SetInduction
  <1> QED BY <1>1, <1>4 DEF G

LEMMA AllWithin ==
    ASSUME WorkersTypes, NEW m \in 0..Len(items)
    PROVE  \A i \in 1..Len(InOrderOf(m)) : InOrderOf(m)[i][1] \in 1..m
  <1> DEFINE In(k) == \A i \in 1..Len(InOrderOf(k)) : InOrderOf(k)[i][1] \in 1..k
             G == {k \in 0..m : In(k)}
  <1>1. Len(items) \in Nat /\ m \in Nat
    BY Counts
  <1>2. 0 \in G
    <2>1. InOrderOf(0) = << >>
      BY InOrderGrows
    <2>2. In(0)
      BY <2>1
    <2> QED BY <1>1, <2>2
  <1>3. ASSUME NEW k \in 0..(m - 1), k \in G PROVE k + 1 \in G
    <2>1. k \in 0..Len(items) /\ k < Len(items) /\ k + 1 \in 1..Len(items) /\ k + 1 \in 0..m
      BY <1>1
    <2> DEFINE b == InOrderOf(k)
               c == InOrderOf(k + 1)
               p == MadeOf(k + 1)
    <2>2. b \in Seq(Nat \X Whats) /\ c = b \o p
      BY <2>1, PiecesIs, InOrderGrows
    <2>3. p \in Seq(Nat \X Whats) /\ \A i \in 1..Len(p) : p[i][1] = k + 1
      BY <2>1, MadeIs
    <2>4. \A i \in 1..Len(b) : b[i][1] \in 1..k
      BY <1>3
    <2> HIDE DEF b, c, p, G
    <2>5. Len(b) \in Nat /\ Len(p) \in Nat
      BY <2>2, <2>3, LenProperties
    <2>6. /\ Len(c) = Len(b) + Len(p)
          /\ \A i \in 1..(Len(b) + Len(p)) : c[i] = IF i <= Len(b) THEN b[i] ELSE p[i - Len(b)]
      BY <2>2, <2>3, ConcatProperties
    <2>7. \A i \in 1..Len(c) : c[i][1] \in 1..(k + 1)
      <3> SUFFICES ASSUME NEW i \in 1..Len(c) PROVE c[i][1] \in 1..(k + 1)
        OBVIOUS
      <3>1. CASE i <= Len(b)
        <4>1. i \in 1..Len(b) /\ c[i] = b[i]
          BY <2>5, <2>6, <3>1
        <4>2. c[i][1] \in 1..k
          BY <2>4, <4>1
        <4> QED BY <2>1, <4>2
      <3>2. CASE ~(i <= Len(b))
        <4>1. i - Len(b) \in 1..Len(p) /\ c[i] = p[i - Len(b)]
          BY <2>5, <2>6, <3>2
        <4>2. c[i][1] = k + 1
          BY <2>3, <4>1
        <4> QED BY <2>1, <4>2
      <3> QED BY <3>1, <3>2
    <2> QED BY <2>1, <2>7 DEF G, c
  <1> HIDE DEF G
  <1>4. m \in G
    BY <1>1, <1>2, <1>3, SetInduction
  <1> QED BY <1>4 DEF G

LEMMA MergedBounds ==
    ASSUME WorkersTypes, NEW m, Merged(m)
    PROVE  m \in Nat /\ m <= Len(items) /\ m \in 0..Len(items) /\ m <= Handed
  <1>1. m \in Nat /\ Handed - m \in 0..NumWorkers
    BY DEF Merged, InTurns
  <1>2. Handed \in 0..Len(items) /\ Len(items) \in Nat
    BY Counts
  <1> QED BY <1>1, <1>2, WorkersConstants

\* What went out so far is the beginning of what the inputs up to the last one sent make.
LEMMA MergedInOrder ==
    ASSUME WorkersTypes, NEW m, Merged(m)
    PROVE  LET last == IF output = << >> THEN 0 ELSE output[Len(output)][1] IN
           /\ \A k \in 1..last : result[k] # NoItem
           /\ IsPrefix(output, InOrderOf(last))
  <1> DEFINE T == Nat \X (Whats \cup {"barrier"})
             last == IF output = << >> THEN 0 ELSE output[Len(output)][1]
             O == InOrderOf(m)
  <1>1. m \in Nat /\ m <= Len(items) /\ m \in 0..Len(items)
    BY MergedBounds
  <1>2. Nat \X Whats \subseteq T
    OBVIOUS
  <1>3. output \in Seq(T) /\ merging \in Seq(T) /\ O = output \o merging
    <2>1. merging \in Seq(Nat \X Whats) /\ output \in Seq(T) /\ O = output \o merging
      BY DEF WorkersTypes, Merged
    <2> HIDE DEF T
    <2>2. merging \in Seq(T)
      BY <1>2, <2>1, SeqMonotonic
    <2> QED BY <2>1, <2>2
  <1>4. \A k \in 1..m : result[k] # NoItem
    BY DEF Merged
  <1>5. \A k \in 0..Len(items) : InOrderOf(k) \in Seq(T)
    <2> SUFFICES ASSUME NEW k \in 0..Len(items) PROVE InOrderOf(k) \in Seq(T)
      OBVIOUS
    <2>1. InOrderOf(k) \in Seq(Nat \X Whats)
      BY PiecesIs
    <2> HIDE DEF T
    <2> QED BY <1>2, <2>1, SeqMonotonic
  <1>6. \A i \in 1..Len(O) : O[i][1] \in 1..m
    BY <1>1, AllWithin
  <1> HIDE DEF T
  <1>7. /\ Len(output) \in Nat /\ Len(merging) \in Nat /\ Len(O) = Len(output) + Len(merging)
        /\ \A i \in 1..Len(output) : O[i] = output[i]
    <2>1. Len(output) \in Nat /\ Len(merging) \in Nat
      BY <1>3, LenProperties
    <2> HIDE DEF O
    <2>2. /\ Len(O) = Len(output) + Len(merging)
          /\ \A i \in 1..(Len(output) + Len(merging)) :
               O[i] = IF i <= Len(output) THEN output[i] ELSE merging[i - Len(output)]
      BY <1>3, ConcatProperties
    <2> QED BY <2>1, <2>2
  <1>8. last \in 0..m /\ last \in Nat /\ Len(output) <= Len(InOrderOf(last))
    <2>1. CASE output = << >>
      <3>1. last = 0 /\ Len(output) = 0
        BY <2>1
      <3>2. 0 \in 0..Len(items)
        BY <1>1
      <3>3. Len(InOrderOf(0)) \in Nat
        BY <1>5, <3>2, LenProperties
      <3> QED BY <1>1, <3>1, <3>3
    <2>2. CASE output # << >>
      <3>1. Len(output) \in Nat \ {0}
        BY <1>3, <2>2, EmptySeq
      <3>2. PICK n : n = Len(output)
        OBVIOUS
      <3>3. n \in 1..Len(output) /\ n \in 1..Len(O) /\ last = output[n] [1] /\ O[n] = output[n]
        BY <1>7, <2>2, <3>1, <3>2
      <3>4. last = O[n][1] /\ last \in 1..m
        BY <1>6, <3>3
      <3>5. PICK k \in Nat : k = last
        BY <3>4
      <3>6. Begins(k, m)
        <4>1. k <= m
          BY <1>1, <3>4, <3>5
        <4> QED BY <1>1, <4>1, AllBegin
      <3>7. ~(n > Len(InOrderOf(k)))
        BY <3>3, <3>4, <3>5, <3>6 DEF Begins
      <3>8. Len(InOrderOf(k)) \in Nat
        <4>1. k \in 0..Len(items)
          BY <1>1, <3>4, <3>5
        <4> QED BY <1>5, <4>1, LenProperties
      <3> QED BY <1>1, <3>1, <3>2, <3>4, <3>5, <3>7, <3>8
    <2> QED BY <2>1, <2>2
  <1>9. PICK k \in Nat : k = last
    BY <1>8
  <1>10. k <= m /\ k \in 0..Len(items)
    BY <1>1, <1>8, <1>9
  <1>11. Begins(k, m)
    BY <1>1, <1>10, AllBegin
  <1> DEFINE p == InOrderOf(k)
  <1>12. p \in Seq(T)
    BY <1>5, <1>10
  <1>13. Len(output) <= Len(p) /\ Len(p) \in Nat
    BY <1>8, <1>9, <1>12, LenProperties
  <1>14. \A i \in 1..Len(output) : p[i] = output[i]
    <2> SUFFICES ASSUME NEW i \in 1..Len(output) PROVE p[i] = output[i]
      OBVIOUS
    <2>1. i \in 1..Len(p)
      BY <1>7, <1>13
    <2>2. O[i] = p[i]
      BY <1>11, <2>1 DEF Begins
    <2> QED BY <1>7, <2>2
  <1> HIDE DEF p, O
  <1>15. SubSeq(output, 1, Len(output)) = SubSeq(p, 1, Len(output))
    <2> DEFINE n == Len(output)
               q == SubSeq(p, 1, n)
    <2>1. n \in Nat /\ \A i \in 1..n : p[i] = output[i] /\ p[i] \in T
      BY <1>3, <1>7, <1>14, ElementOfSeq
    <2> HIDE DEF n
    <2>2. q \in Seq(T) /\ Len(q) = n /\ \A i \in 1..n : q[i] = p[i]
      <3>1. /\ q \in Seq(T) /\ Len(q) = IF 1 <= n THEN n - 1 + 1 ELSE 0
            /\ \A i \in 1..(n - 1 + 1) : q[i] = p[1 + i - 1]
        BY <2>1, SubSeqProperties
      <3>2. n - 1 + 1 = n /\ \A i \in 1..n : 1 + i - 1 = i
        BY <2>1
      <3> QED BY <2>1, <3>1, <3>2
    <2> HIDE DEF q
    <2>3. q = output
      <3>1. Len(q) = Len(output) /\ \A i \in 1..Len(q) : q[i] = output[i]
        BY <2>1, <2>2 DEF n
      <3> QED BY <1>3, <2>2, <3>1, SeqEqual
    <2>4. SubSeq(output, 1, Len(output)) = output
      BY <1>3, SubSeqFull
    <2> QED BY <2>3, <2>4 DEF q, n
  <1>16. IsPrefix(output, p)
    BY <1>13, <1>15 DEF IsPrefix
  <1>17. \A j \in 1..k : result[j] # NoItem
    BY <1>1, <1>4, <1>10
  <1> QED BY <1>9, <1>16, <1>17 DEF p

LEMMA InOrderKept ==
    ASSUME NEW m, \A k \in 1..m : result'[k] = result[k]
    PROVE  InOrderOf(m)' = InOrderOf(m)
  <1>1. [k \in 1..m |-> IF result'[k] = NoItem THEN << >>
                        ELSE [i \in DOMAIN result'[k] |-> <<k, result'[k][i]>>]]
        = [k \in 1..m |-> IF result[k] = NoItem THEN << >>
                          ELSE [i \in DOMAIN result[k] |-> <<k, result[k][i]>>]]
    OBVIOUS
  <1> QED BY <1>1 DEF InOrderOf

\* No turn changes in a step that hands no input over and takes no results.
LEMMA TurnsKept ==
    ASSUME WorkersTypes, WorkersTypes', NEW m, Merged(m), Handed' = Handed, turn' = turn,
           counter' = counter \/ (counter = NumWorkers /\ counter' = 0),
           \A w \in Workers : working'[w].item = working[w].item,
           \A k \in 1..m : result'[k] = result[k],
           output' \o merging' = output \o merging
    PROVE  Merged(m)'
  <1>1. /\ m \in Nat /\ Handed - m \in 0..NumWorkers
        /\ \A i \in 0..(NumWorkers - 1) :
             working[Nth(turn, i)].item = IF i < Handed - m THEN m + 1 + i ELSE NoItem
        /\ counter = Nth(turn, Handed - m) \/ (counter = NumWorkers /\ Nth(turn, Handed - m) = 0)
        /\ \A k \in 1..m : result[k] # NoItem
        /\ output \o merging = InOrderOf(m)
    BY DEF Merged, InTurns
  <1>2. turn \in Workers
    BY DEF WorkersTypes
  <1>3. \A i \in 0..(NumWorkers - 1) :
             working'[Nth(turn, i)].item = IF i < Handed - m THEN m + 1 + i ELSE NoItem
    <2> SUFFICES ASSUME NEW i \in 0..(NumWorkers - 1)
                 PROVE  working'[Nth(turn, i)].item = IF i < Handed - m THEN m + 1 + i ELSE NoItem
      OBVIOUS
    <2>1. i \in 0..NumWorkers
      BY WorkersConstants
    <2>2. Nth(turn, i) \in Workers
      BY <1>2, <2>1, NthIs
    <2> QED BY <1>1, <2>2
  <1>4. \/ counter' = Nth(turn, Handed - m)
        \/ counter' = NumWorkers /\ Nth(turn, Handed - m) = 0
    <2>1. Nth(turn, Handed - m) \in Workers
      BY <1>1, <1>2, NthIs
    <2> QED BY <1>1, <2>1, WorkersConstants
  <1>5. InTurns(turn, counter, m, Handed)'
    BY <1>1, <1>3, <1>4 DEF InTurns, Nth
  <1>6. InOrderOf(m)' = InOrderOf(m)
    BY InOrderKept
  <1>7. \A k \in 1..m : result'[k] # NoItem
    BY <1>1
  <1> QED BY <1>1, <1>5, <1>6, <1>7 DEF Merged

LEMMA HandOverTurns ==
    ASSUME WorkersTypes, NEW m, Merged(m), HandOver
    PROVE  Merged(m)'
  <1>1. /\ m \in Nat /\ Handed - m \in 0..NumWorkers
        /\ \A i \in 0..(NumWorkers - 1) :
             working[Nth(turn, i)].item = IF i < Handed - m THEN m + 1 + i ELSE NoItem
        /\ counter = Nth(turn, Handed - m) \/ (counter = NumWorkers /\ Nth(turn, Handed - m) = 0)
        /\ \A k \in 1..m : result[k] # NoItem
        /\ output \o merging = InOrderOf(m)
    BY DEF Merged, InTurns
  <1>2. turn \in Workers /\ Handed \in Nat /\ NumWorkers \in Nat \ {0}
    BY Counts, WorkersConstants DEF WorkersTypes
  <1>3. /\ WorkersTypes' /\ Handed' = Handed + 1 /\ distributor = Received
        /\ counter' = counter + 1
    BY HandOverTypes
  <1>4. /\ counter \in Workers /\ working[counter].item = NoItem /\ distributor # NoItem
        /\ OneWorker(counter, [item |-> distributor, pc |-> "busy", out |-> << >>])
    BY HandOverIs
  <1>5. /\ working'[counter].item = distributor
        /\ \A v \in Workers : v # counter => working'[v] = working[v]
    BY <1>4, OneWorkerTypes
  <1>6. distributor = Handed + 1
    BY <1>2, <1>3, <1>4, Counts
  <1>7. counter = Nth(turn, Handed - m)
    BY <1>1, <1>2, <1>4, WorkersConstants
  <1>8. Handed - m \in 0..(NumWorkers - 1)
    <2> SUFFICES ASSUME Handed - m = NumWorkers PROVE FALSE
      BY <1>1, <1>2
    <2>1. counter = turn /\ Nth(turn, 0) = turn
      BY <1>2, <1>7, NthIs
    <2>2. 0 \in 0..(NumWorkers - 1) /\ 0 < Handed - m
      BY <1>2
    <2>3. working[turn].item = m + 1 + 0
      BY <1>1, <2>1, <2>2
    <2>4. m + 1 + 0 \in Nat
      BY <1>1
    <2> QED BY <1>4, <2>1, <2>3, <2>4, WorkersConstants
  <1>9. \A i \in 0..(NumWorkers - 1) :
             working'[Nth(turn, i)].item = IF i < Handed' - m THEN m + 1 + i ELSE NoItem
    <2> SUFFICES ASSUME NEW i \in 0..(NumWorkers - 1)
                 PROVE  working'[Nth(turn, i)].item = IF i < Handed' - m THEN m + 1 + i ELSE NoItem
      OBVIOUS
    <2>1. i \in 0..NumWorkers
      BY <1>2
    <2>2. Nth(turn, i) \in Workers
      BY <1>2, <2>1, NthIs
    <2>3. CASE i = Handed - m
      <3>1. working'[Nth(turn, i)].item = Handed + 1
        BY <1>5, <1>6, <1>7, <2>3
      <3>2. i < Handed' - m /\ Handed + 1 = m + 1 + i
        BY <1>1, <1>2, <1>3, <2>3
      <3> QED BY <3>1, <3>2
    <2>4. CASE i # Handed - m
      <3>1. Nth(turn, i) # counter
        BY <1>2, <1>7, <1>8, <2>4, NthIs
      <3>2. working'[Nth(turn, i)] = working[Nth(turn, i)]
        BY <1>5, <2>2, <3>1
      <3>3. i < Handed' - m <=> i < Handed - m
        <4>1. PICK d \in 0..NumWorkers : d = Handed - m
          BY <1>1
        <4>2. Handed' - m = d + 1
          BY <1>1, <1>2, <1>3, <4>1
        <4>3. i \in Int /\ d \in Int /\ i # d
          BY <2>4, <4>1
        <4>4. i < d + 1 <=> i < d
          BY <4>3
        <4> QED BY <4>1, <4>2, <4>4
      <3> QED BY <1>1, <3>2, <3>3
    <2> QED BY <2>3, <2>4
  <1>10. Handed' - m \in 0..NumWorkers /\ Handed' - m = (Handed - m) + 1
    BY <1>1, <1>2, <1>3, <1>8
  <1>11. counter' = Nth(turn, Handed' - m) \/ (counter' = NumWorkers /\ Nth(turn, Handed' - m) = 0)
    <2>1. \/ Nth(turn, Handed - m) + 1 = Nth(turn, (Handed - m) + 1)
          \/ Nth(turn, Handed - m) + 1 = NumWorkers /\ Nth(turn, (Handed - m) + 1) = 0
      BY <1>2, <1>8, NthIs
    <2> QED BY <1>3, <1>7, <1>10, <2>1
  <1>12. UNCHANGED <<turn, output, merging, result>>
    BY DEF HandOver
  <1>13. InTurns(turn, counter, m, Handed)'
    BY <1>9, <1>10, <1>11, <1>12 DEF InTurns, Nth
  <1>14. InOrderOf(m)' = InOrderOf(m)
    BY <1>12, InOrderKept
  <1> QED BY <1>1, <1>12, <1>13, <1>14 DEF Merged

LEMMA MergeTurns ==
    ASSUME WorkersTypes, HandsInv, NEW m, Merged(m), NEW w \in Workers, Merge(w)
    PROVE  Merged(m + 1)'
  <1>1. /\ m \in Nat /\ Handed - m \in 0..NumWorkers
        /\ \A i \in 0..(NumWorkers - 1) :
             working[Nth(turn, i)].item = IF i < Handed - m THEN m + 1 + i ELSE NoItem
        /\ counter = Nth(turn, Handed - m) \/ (counter = NumWorkers /\ Nth(turn, Handed - m) = 0)
        /\ \A k \in 1..m : result[k] # NoItem
        /\ output \o merging = InOrderOf(m)
    BY DEF Merged, InTurns
  <1>2. turn \in Workers /\ Handed \in 0..Len(items) /\ Len(items) \in Nat /\ NumWorkers \in Nat \ {0}
    BY Counts, WorkersConstants DEF WorkersTypes
  <1>3. /\ Handed' = Handed /\ working'[w].item = NoItem
        /\ \A v \in Workers : v # w => working'[v] = working[v]
    BY MergeTypes
  <1>4. /\ working[w].item # NoItem /\ working[w].out \in Seq(Whats) /\ w = turn
        /\ merging = << >> /\ merging' = Pairs(w)
    BY MergeIs
  <1>5. turn' = (turn + 1) % NumWorkers /\ UNCHANGED <<counter, result, output, items>>
    BY DEF Merge
  <1>6. 0 < Handed - m /\ working[w].item = m + 1
    <2>1. 0 \in 0..(NumWorkers - 1) /\ Nth(turn, 0) = turn
      BY <1>2, NthIs
    <2>2. working[turn].item = IF 0 < Handed - m THEN m + 1 + 0 ELSE NoItem
      BY <1>1, <2>1
    <2>3. 0 < Handed - m
      BY <1>4, <2>2
    <2>4. m + 1 + 0 = m + 1
      BY <1>1
    <2> QED BY <1>4, <2>2, <2>3, <2>4
  <1>7. Handed' - (m + 1) \in 0..NumWorkers /\ Handed' - (m + 1) = (Handed - m) - 1
        /\ (Handed - m) - 1 \in 0..(NumWorkers - 1)
    BY <1>1, <1>2, <1>3, <1>6
  <1>8. \A i \in 0..(NumWorkers - 1) : Nth(turn', i) = Nth(turn, i + 1)
    BY <1>2, <1>5, NthIs
  <1>9. \A i \in 0..(NumWorkers - 1) :
             working'[Nth(turn', i)].item = IF i < Handed' - (m + 1) THEN (m + 1) + 1 + i ELSE NoItem
    <2> SUFFICES ASSUME NEW i \in 0..(NumWorkers - 1)
                 PROVE  working'[Nth(turn, i + 1)].item
                          = IF i < Handed' - (m + 1) THEN (m + 1) + 1 + i ELSE NoItem
      BY <1>8
    <2>1. CASE i + 1 = NumWorkers
      <3>1. Nth(turn, i + 1) = turn
        BY <1>2, <2>1, NthIs
      <3>2. ~(i < Handed' - (m + 1))
        BY <1>1, <1>7, <2>1
      <3> QED BY <1>3, <1>4, <3>1, <3>2
    <2>2. CASE i + 1 # NumWorkers
      <3>1. i + 1 \in 0..(NumWorkers - 1) /\ i + 1 \in 0..NumWorkers /\ 0 \in 0..(NumWorkers - 1)
            /\ i + 1 # 0
        BY <1>2, <2>2
      <3>2. Nth(turn, i + 1) # turn /\ Nth(turn, i + 1) \in Workers
        <4>1. Nth(turn, 0) = turn
          BY <1>2, NthIs
        <4>2. Nth(turn, i + 1) = Nth(turn, 0) => i + 1 = 0
          BY <1>2, <3>1, NthIs
        <4>3. Nth(turn, i + 1) \in Workers
          BY <1>2, <3>1, NthIs
        <4> QED BY <3>1, <4>1, <4>2, <4>3
      <3>3. working'[Nth(turn, i + 1)] = working[Nth(turn, i + 1)]
        BY <1>3, <1>4, <3>2
      <3>4. working[Nth(turn, i + 1)].item
              = IF i + 1 < Handed - m THEN m + 1 + (i + 1) ELSE NoItem
        BY <1>1, <3>1
      <3>5. /\ i + 1 < Handed - m <=> i < Handed' - (m + 1)
            /\ m + 1 + (i + 1) = (m + 1) + 1 + i
        BY <1>1, <1>7
      <3> QED BY <3>3, <3>4, <3>5
    <2> QED BY <2>1, <2>2
  <1>10. \/ counter' = Nth(turn', Handed' - (m + 1))
         \/ counter' = NumWorkers /\ Nth(turn', Handed' - (m + 1)) = 0
    <2>1. Nth(turn', Handed' - (m + 1)) = Nth(turn, Handed - m)
      <3>1. Nth(turn', (Handed - m) - 1) = Nth(turn, ((Handed - m) - 1) + 1)
        BY <1>7, <1>8
      <3>2. ((Handed - m) - 1) + 1 = Handed - m
        BY <1>1, <1>2
      <3> QED BY <1>7, <3>1, <3>2
    <2> QED BY <1>1, <1>5, <2>1
  <1>11. InTurns(turn, counter, m + 1, Handed)'
    BY <1>7, <1>9, <1>10 DEF InTurns, Nth
  <1>12. result[m + 1] = working[w].out /\ result[m + 1] # NoItem
    <2>1. result[m + 1] = working[w].out
      BY <1>6 DEF HandsInv, Merge
    <2> QED BY <1>4, <2>1, WorkersConstants
  <1>13. \A k \in 1..(m + 1) : result'[k] # NoItem
    <2>1. \A k \in 1..(m + 1) : k \in 1..m \/ k = m + 1
      BY <1>1
    <2> QED BY <1>1, <1>5, <1>12, <2>1
  <1>14. output' \o merging' = InOrderOf(m + 1)'
    <2>1. InOrderOf(m + 1)' = InOrderOf(m + 1)
      BY <1>5, InOrderKept
    <2>2. m \in 0..Len(items) /\ m < Len(items)
      BY <1>1, <1>2, <1>6
    <2>3. InOrderOf(m + 1) = InOrderOf(m) \o MadeOf(m + 1)
      BY <2>2, InOrderGrows
    <2>4. MadeOf(m + 1) = merging'
      BY <1>4, <1>6, <1>12 DEF MadeOf, Pairs
    <2>5. output = InOrderOf(m)
      <3>1. output \in Seq(Nat \X (Whats \cup {"barrier"}))
        BY DEF WorkersTypes
      <3>2. output \o << >> = output
        BY <3>1, ConcatEmptySeq
      <3> QED BY <1>1, <1>4, <3>2
    <2> QED BY <1>5, <2>1, <2>3, <2>4, <2>5
  <1>15. m + 1 \in Nat
    BY <1>1
  <1> QED BY <1>11, <1>13, <1>14, <1>15 DEF Merged

LEMMA EmitTurns ==
    ASSUME WorkersTypes, Emit
    PROVE  output' \o merging' = output \o merging
  <1> DEFINE T == Nat \X (Whats \cup {"barrier"})
  <1>1. merging # << >> /\ merging' = Tail(merging) /\ output' = Append(output, Head(merging))
    BY EmitTypes
  <1>2. merging \in Seq(Nat \X Whats) /\ output \in Seq(T) /\ Nat \X Whats \subseteq T
    BY DEF WorkersTypes
  <1> HIDE DEF T
  <1>3. merging \in Seq(T)
    BY <1>2, SeqMonotonic
  <1>4. Append(output, Head(merging)) \o Tail(merging) = output \o merging
    BY <1>1, <1>2, <1>3, HeadAndTail
  <1> QED BY <1>1, <1>4

LEMMA WorksOnLater ==
    ASSUME WorkersTypes, NEW m, Merged(m), NEW w \in Workers, working[w].item # NoItem
    PROVE  working[w].item > m
  <1>1. turn \in Workers /\ Workers = 0..(NumWorkers - 1) /\ NumWorkers \in Nat \ {0}
    BY WorkersConstants DEF WorkersTypes
  <1>2. PICK i \in 0..(NumWorkers - 1) : Nth(turn, i) = w
    <2> DEFINE i == IF turn <= w THEN w - turn ELSE w + NumWorkers - turn
    <2>1. i \in 0..(NumWorkers - 1) /\ Nth(turn, i) = w
      BY <1>1 DEF Nth
    <2> QED BY <2>1
  <1>3. working[w].item = IF i < Handed - m THEN m + 1 + i ELSE NoItem
    BY <1>2 DEF Merged, InTurns
  <1>4. m \in Nat
    BY DEF Merged
  <1> QED BY <1>3, <1>4

LEMMA TurnsNext ==
    ASSUME WorkersTypes, HandsInv, TurnsInv, [WorkersNext]_workVars, WorkersTypes'
    PROVE  TurnsInv'
  <1> SUFFICES ASSUME ~checkpoints'
               PROVE  /\ \A k \in 1..Len(items') : items'[k] # "barrier"
                      /\ \E m \in Nat : Merged(m)'
    BY DEF TurnsInv
  <1>1. checkpoints' = checkpoints
    BY DEF WorkersNext, WorkSteps, Arrive, Take, HandOver, Work, WorkBarrier, Merge, Emit, Stop,
           End, workVars
  <1>2. \A k \in 1..Len(items) : items[k] # "barrier"
    BY <1>1 DEF TurnsInv
  <1>3. PICK m \in Nat : Merged(m)
    BY <1>1 DEF TurnsInv
  <1>4. m <= Handed /\ m <= Len(items) /\ Len(items) \in Nat /\ Handed \in Nat
    BY <1>3, MergedBounds, Counts
  <1>5. ASSUME NEW kind \in ItemKinds, Arrive(kind)
        PROVE  (\A k \in 1..Len(items') : items'[k] # "barrier") /\ \E n \in Nat : Merged(n)'
    <2>1. Received' = Received /\ Len(items') = Len(items) + 1
      BY <1>5, ArriveTypes
    <2>2. \A k \in 1..Len(items) : result'[k] = result[k]
      BY <1>5, ArriveHands
    <2>3. UNCHANGED <<counter, distributor, working, turn, merging, output>>
          /\ kind # "barrier" /\ items' = Append(items, kind)
      BY <1>1, <1>5 DEF Arrive
    <2>4. Handed' = Handed
      BY <2>1, <2>3 DEF Handed
    <2>5. \A k \in 1..Len(items') : items'[k] # "barrier"
      <3>1. items \in Seq(ItemKinds)
        BY DEF WorkersTypes
      <3>2. items'[Len(items) + 1] = kind /\ \A k \in 1..Len(items) : items'[k] = items[k]
        BY <2>3, <3>1, AppendProperties
      <3>3. \A k \in 1..Len(items') : k \in 1..Len(items) \/ k = Len(items) + 1
        BY <1>4, <2>1
      <3> QED BY <1>2, <2>3, <3>2, <3>3
    <2>6. \A k \in 1..m : result'[k] = result[k]
      BY <1>4, <2>2
    <2>7. Merged(m)'
      BY <1>3, <2>3, <2>4, <2>6, TurnsKept
    <2> QED BY <2>5, <2>7
  <1>6. CASE Take
    <2>1. Handed' = Handed /\ counter' = IF counter = NumWorkers THEN 0 ELSE counter
      BY <1>6, TakeTypes
    <2>2. UNCHANGED <<items, working, turn, merging, result, output>>
      BY <1>6 DEF Take
    <2>3. Merged(m)'
      BY <1>3, <2>1, <2>2, TurnsKept
    <2> QED BY <1>2, <2>2, <2>3
  <1>7. CASE HandOver
    <2>1. Merged(m)'
      BY <1>3, <1>7, HandOverTurns
    <2>2. items' = items
      BY <1>7 DEF HandOver
    <2> QED BY <1>2, <2>1, <2>2
  <1>8. ASSUME NEW w \in Workers, Work(w)
        PROVE  (\A k \in 1..Len(items') : items'[k] # "barrier") /\ \E n \in Nat : Merged(n)'
    <2>1. /\ Handed' = Handed /\ \A v \in Workers : working'[v].item = working[v].item
          /\ \A k \in 1..Len(items) : k # working[w].item => result'[k] = result[k]
      BY <1>8, WorkTypes
    <2>2. UNCHANGED <<items, counter, turn, merging, output>>
      BY <1>8 DEF Work
    <2>3. working[w].item > m /\ working[w].item \in Nat
      BY <1>3, <1>8, WorksOnLater, WorkIs
    <2>4. \A k \in 1..m : result'[k] = result[k]
      BY <1>4, <2>1, <2>3
    <2>5. Merged(m)'
      BY <1>3, <2>1, <2>2, <2>4, TurnsKept
    <2> QED BY <1>2, <2>2, <2>5
  <1>9. ASSUME NEW w \in Workers, WorkBarrier(w) PROVE FALSE
    <2>1. working[w].item \in 1..Len(items) /\ items[working[w].item] = "barrier"
      BY <1>9, WorkBarrierTypes DEF WorkBarrier
    <2> QED BY <1>2, <2>1
  <1>10. ASSUME NEW w \in Workers, Merge(w)
         PROVE  (\A k \in 1..Len(items') : items'[k] # "barrier") /\ \E n \in Nat : Merged(n)'
    <2>1. m + 1 \in Nat /\ Merged(m + 1)'
      BY <1>3, <1>10, MergeTurns
    <2>2. items' = items
      BY <1>10 DEF Merge
    <2> QED BY <1>2, <2>1, <2>2
  <1>11. CASE Emit
    <2>1. Handed' = Handed /\ output' \o merging' = output \o merging
      BY <1>11, EmitTypes, EmitTurns
    <2>2. UNCHANGED <<items, counter, working, turn, result>>
      BY <1>11 DEF Emit
    <2>3. Merged(m)'
      BY <1>3, <2>1, <2>2, TurnsKept
    <2> QED BY <1>2, <2>2, <2>3
  <1>12. CASE (Stop \/ \E g \in Goroutines : End(g)) \/ UNCHANGED workVars
    <2>1. UNCHANGED <<items, inQueue, counter, distributor, working, turn, merging, result, output>>
      BY <1>12 DEF Stop, End, workVars
    <2>2. Handed' = Handed
      BY <2>1 DEF Handed, Received
    <2>3. Merged(m)'
      BY <1>3, <2>1, <2>2, TurnsKept
    <2> QED BY <1>2, <2>1, <2>3
  <1> QED BY <1>3, <1>5, <1>6, <1>7, <1>8, <1>9, <1>10, <1>11, <1>12 DEF WorkersNext, WorkSteps

LEMMA WorkersStart ==
    ASSUME WorkersInit
    PROVE  WorkersInv
  <1>1. /\ checkpoints \in BOOLEAN /\ items = << >> /\ inQueue = << >> /\ counter = 0
        /\ distributor = NoItem /\ working = [w \in Workers |-> Free] /\ turn = 0
        /\ merging = << >> /\ stopping = FALSE /\ running = Goroutines /\ result = << >>
        /\ output = << >>
    BY DEF WorkersInit
  <1>2. 0 \in Workers /\ 0 \in 0..NumWorkers
    BY WorkersConstants
  <1>3. \A w \in Workers : working[w] = Free
    BY <1>1
  <1>4. working \in [Workers -> [item : Nat \cup {NoItem}, pc : {"free", "busy", "done"},
                                 out : Seq(Whats)]]
    BY <1>1, FreeIs
  <1>5. Len(items) = 0 /\ Len(inQueue) = 0 /\ Len(result) = 0
    BY <1>1
  <1>6. WorkersTypes
    <2>1. items \in Seq(ItemKinds) /\ inQueue \in Seq(Nat) /\ merging \in Seq(Nat \X Whats)
          /\ result \in Seq(Seq(Whats) \cup {NoItem}) /\ output \in Seq(Nat \X (Whats \cup {"barrier"}))
      BY <1>1
    <2>2. Len(items) <= MaxItems /\ Len(inQueue) <= InputLength /\ Len(inQueue) <= Len(items)
      BY <1>5, WorkersConstants
    <2>3. \A i \in 1..Len(inQueue) : inQueue[i] = Received + i
      BY <1>5
    <2>4. \A w \in Workers : /\ working[w].pc = "free" => working[w].item = NoItem
                             /\ working[w].item = NoItem => working[w].pc = "free"
      BY <1>3, FreeIs
    <2> QED BY <1>1, <1>2, <1>4, <1>5, <2>1, <2>2, <2>3, <2>4 DEF WorkersTypes
  <1>7. HandsInv
    BY <1>3, FreeIs DEF HandsInv
  <1>8. SentInv
    BY <1>1 DEF SentInv, NoneRepeated
  <1>9. TurnsInv
    <2>1. Handed = 0
      BY <1>1, <1>5 DEF Handed, Received
    <2>2. \A i \in 0..(NumWorkers - 1) : working[Nth(0, i)].item = NoItem
      <3> SUFFICES ASSUME NEW i \in 0..(NumWorkers - 1) PROVE working[Nth(0, i)].item = NoItem
        OBVIOUS
      <3>1. i \in 0..NumWorkers
        BY WorkersConstants
      <3>2. Nth(0, i) \in Workers
        BY <1>2, <3>1, NthIs
      <3> QED BY <1>3, <3>2, FreeIs
    <2>3. InTurns(0, 0, 0, 0)
      <3>1. Nth(0, 0) = 0
        BY <1>2, NthIs
      <3>2. 0 - 0 = 0 /\ 0 \in 0..NumWorkers
        BY <1>2
      <3>3. \A i \in 0..(NumWorkers - 1) : ~(i < 0)
        BY WorkersConstants
      <3> QED BY <2>2, <3>1, <3>2, <3>3 DEF InTurns
    <2>4. output \o merging = InOrderOf(0)
      <3>1. InOrderOf(0) = << >>
        <4>1. 0 \in 0..Len(items)
          BY <1>5
        <4> QED BY <1>6, <4>1, InOrderGrows
      <3>2. << >> \o << >> = << >>
        OBVIOUS
      <3> QED BY <1>1, <3>1, <3>2
    <2>5. Merged(0)
      BY <1>1, <2>1, <2>3, <2>4 DEF Merged
    <2> QED BY <1>5, <2>5 DEF TurnsInv
  <1> QED BY <1>6, <1>7, <1>8, <1>9 DEF WorkersInv

LEMMA WorkersInvIsSound ==
    ASSUME WorkersInv
    PROVE  WorkersSound
  <1>0. WorkersTypes /\ HandsInv /\ SentInv /\ TurnsInv
    BY DEF WorkersInv
  <1>1. OrderPreserved
    <2> SUFFICES ASSUME ~checkpoints
                 PROVE  LET last == IF output = << >> THEN 0 ELSE output[Len(output)][1] IN
                        /\ \A k \in 1..last : result[k] # NoItem
                        /\ IsPrefix(output, InOrderOf(last))
      BY DEF OrderPreserved
    <2>1. PICK m \in Nat : Merged(m)
      BY <1>0 DEF TurnsInv
    <2> QED BY <1>0, <2>1, MergedInOrder
  <1>2. NoneRepeated
    BY <1>0 DEF SentInv
  <1>3. WorkersTypeOK
    <2>1. Len(inQueue) \in Nat /\ Received \in 0..Len(items) /\ Len(items) \in Nat
          /\ DOMAIN items = 1..Len(items) /\ Received = Len(items) - Len(inQueue)
          /\ \A i \in 1..Len(inQueue) : inQueue[i] = Received + i
      BY <1>0, Counts
    <2>2. inQueue \in Seq(DOMAIN items)
      <3>1. \A i \in 1..Len(inQueue) : inQueue[i] \in DOMAIN items
        BY <2>1
      <3>2. inQueue \in Seq(Nat)
        BY <1>0 DEF WorkersTypes
      <3>3. inQueue = [i \in 1..Len(inQueue) |-> inQueue[i]]
        BY <3>2
      <3>4. inQueue \in [1..Len(inQueue) -> DOMAIN items]
        BY <3>1, <3>3
      <3> QED BY <2>1, <3>4
    <2>3. distributor \in DOMAIN items \cup {NoItem}
      BY <1>0, <2>1, Counts
    <2>4. \A w \in Workers : /\ working[w].item \in DOMAIN items \cup {NoItem}
                             /\ working[w].pc \in {"free", "busy", "done"}
                             /\ (working[w].pc = "free") = (working[w].item = NoItem)
      <3> SUFFICES ASSUME NEW w \in Workers
                   PROVE  /\ working[w].item \in DOMAIN items \cup {NoItem}
                          /\ working[w].pc \in {"free", "busy", "done"}
                          /\ (working[w].pc = "free") = (working[w].item = NoItem)
        OBVIOUS
      <3>1. working[w] \in [item : Nat \cup {NoItem}, pc : {"free", "busy", "done"},
                            out : Seq(Whats)]
        BY <1>0 DEF WorkersTypes
      <3>2. working[w].item # NoItem => working[w].item \in 1..Received
        BY <1>0 DEF HandsInv
      <3>3. /\ working[w].pc = "free" => working[w].item = NoItem
            /\ working[w].item = NoItem => working[w].pc = "free"
        BY <1>0 DEF WorkersTypes
      <3>4. (working[w].pc = "free") = (working[w].item = NoItem)
        BY <3>3
      <3> QED BY <2>1, <3>1, <3>2, <3>4
    <2> QED BY <1>0, <2>2, <2>3, <2>4 DEF WorkersTypes, WorkersTypeOK
  <1> QED BY <1>1, <1>2, <1>3 DEF WorkersSound

\* For any number of workers, any length of the input queue and however the workers finish,
\* what goes out of an input is what its worker returned, in its order and once, and without
\* checkpoints the inputs follow one another as they came (runWithOrder).
THEOREM WorkersAreSound == WorkersSpec => []WorkersSound
  <1>1. WorkersInit => WorkersInv
    BY WorkersStart
  <1>2. WorkersInv /\ [WorkersNext]_workVars => WorkersInv'
    <2> SUFFICES ASSUME WorkersInv, [WorkersNext]_workVars PROVE WorkersInv'
      OBVIOUS
    <2>1. WorkersTypes /\ HandsInv /\ SentInv /\ TurnsInv
      BY DEF WorkersInv
    <2>2. WorkersTypes' /\ HandsInv' /\ SentInv'
      BY <2>1, SentNext
    <2>3. TurnsInv'
      BY <2>1, <2>2, TurnsNext
    <2> QED BY <2>2, <2>3 DEF WorkersInv
  <1>3. WorkersInv => WorkersSound
    BY WorkersInvIsSound
  <1> QED BY <1>1, <1>2, <1>3, PTL DEF WorkersSpec
=============================================================================
