-------------------------- MODULE CheckpointProofs --------------------------
(***************************************************************************)
(* Proofs about BarrierFlow, for any rule without an empty join: it keeps  *)
(* its types; a task takes its snapshot of a checkpoint once; under qos 2  *)
(* an aligned snapshot has nothing that was sent after a barrier of its    *)
(* checkpoint; and under qos 1, as long as the channels have room, a       *)
(* snapshot has all that was sent before these barriers.                   *)
(*                                                                         *)
(* And about Checkpoint: it implements the flow of BarrierFlow, so that    *)
(* the theorems about the flow hold of it, a checkpoint completes only     *)
(* when it is whole, and, unless a save is forced, in the order it began.  *)
(***************************************************************************)
EXTENDS Checkpoint, FiniteSetTheorems, SequenceTheorems, TLAPS

(* Facts about channels and items                                          *)

LEMMA ItemFacts ==
    /\ \A item \in Item : /\ item.from \in Sources \cup Ops
                          /\ item.id \in CheckpointIds \cup {0}
                          /\ item.id = 0 => item.event \in Events
    /\ \A t \in Sources \cup Ops : \A e \in Events :
          Event(t, e) \in Item /\ Event(t, e).from = t /\ Event(t, e).id = 0
             /\ Event(t, e).event = e
    /\ \A t \in Sources \cup Ops : \A id \in CheckpointIds :
          Barrier(t, id) \in Item /\ Barrier(t, id).from = t /\ Barrier(t, id).id = id
  BY CheckpointIdsAssumption DEF Item, Event, Barrier

LEMMA TailFacts ==
    ASSUME NEW S, NEW q \in Seq(S), q # << >>
    PROVE  /\ Head(q) \in S /\ Head(q) = q[1] /\ 1 \in DOMAIN q
           /\ Tail(q) \in Seq(S) /\ Len(Tail(q)) = Len(q) - 1 /\ Len(q) \in Nat
           /\ \A i \in DOMAIN Tail(q) : i + 1 \in DOMAIN q /\ Tail(q)[i] = q[i + 1]
  OBVIOUS

\* p is a part of q.
PartOf(p, q) ==
    \E d \in Nat : \A i \in DOMAIN p : i + d \in DOMAIN q /\ p[i] = q[i + d]

\* p is a part of q with item behind it.
PartAnd(p, q, item) ==
    /\ Len(p) > 0 /\ p[Len(p)] = item
    /\ \E d \in Nat : \A i \in 1..Len(p) - 1 : i + d \in DOMAIN q /\ p[i] = q[i + d]

LEMMA PartItself ==
    ASSUME NEW S, NEW q \in Seq(S)
    PROVE  PartOf(q, q) /\ (q # << >> => PartOf(Tail(q), q))
  <1>1. PartOf(q, q)
    <2>1. \A i \in DOMAIN q : i + 0 \in DOMAIN q /\ q[i] = q[i + 0]
      OBVIOUS
    <2> QED BY <2>1 DEF PartOf
  <1>2. q # << >> => PartOf(Tail(q), q)
    BY TailFacts DEF PartOf
  <1> QED BY <1>1, <1>2

\* Of a part with an item behind it, what is kept of the part is in front.
LEMMA EnqueueFacts ==
    ASSUME NEW S, NEW p \in Seq(S), NEW q \in Seq(S), NEW item \in S,
           Len(p) <= BufferLength, PartOf(p, q)
    PROVE  /\ Enqueue(p, item) \in Seq(S)
           /\ Len(Enqueue(p, item)) <= BufferLength
           /\ PartAnd(Enqueue(p, item), q, item)
  <1> USE TopologyAssumption
  <1>1. PICK d \in Nat : \A i \in DOMAIN p : i + d \in DOMAIN q /\ p[i] = q[i + d]
    BY DEF PartOf
  <1>2. CASE Len(p) >= BufferLength
    <2> DEFINE r == Append(Tail(p), item)
    <2>1. Enqueue(p, item) = r
      BY <1>2 DEF Enqueue
    <2>2. p # << >>
      BY <1>2
    <2>3. /\ Tail(p) \in Seq(S) /\ Len(Tail(p)) = Len(p) - 1 /\ Len(p) \in Nat
          /\ \A i \in DOMAIN Tail(p) : i + 1 \in DOMAIN p /\ Tail(p)[i] = p[i + 1]
      BY <2>2, TailFacts
    <2>4. /\ r \in Seq(S) /\ Len(r) = Len(p) /\ r[Len(r)] = item /\ Len(r) > 0
          /\ \A i \in 1..Len(r) - 1 : r[i] = p[i + 1] /\ i + 1 \in DOMAIN p
      <3> DEFINE t == Tail(p)
      <3>1. t \in Seq(S) /\ Len(t) = Len(p) - 1 /\ Len(p) \in Nat
        BY <2>3
      <3>2. \A i \in DOMAIN t : i + 1 \in DOMAIN p /\ t[i] = p[i + 1]
        BY <2>3
      <3> HIDE DEF t
      <3>3. /\ Append(t, item) \in Seq(S) /\ Len(Append(t, item)) = Len(p)
            /\ Append(t, item)[Len(p)] = item
            /\ \A i \in 1..Len(p) - 1 : Append(t, item)[i] = t[i] /\ i \in DOMAIN t
        BY <3>1
      <3>4. Len(p) > 0
        BY <2>2, <3>1
      <3> QED BY <3>2, <3>3, <3>4 DEF t
    <2>5. \A i \in 1..Len(r) - 1 : i + (d + 1) \in DOMAIN q /\ r[i] = q[i + (d + 1)]
      <3> TAKE i \in 1..Len(r) - 1
      <3>1. i + 1 \in DOMAIN p /\ r[i] = p[i + 1]
        BY <2>4
      <3>2. (i + 1) + d \in DOMAIN q /\ p[i + 1] = q[(i + 1) + d]
        BY <3>1, <1>1
      <3>3. (i + 1) + d = i + (d + 1)
        BY <2>4
      <3> QED BY <3>1, <3>2, <3>3
    <2>6. d + 1 \in Nat
      OBVIOUS
    <2> HIDE DEF r
    <2> QED BY <2>1, <2>4, <2>5, <2>6, <1>2 DEF PartAnd
  <1>3. CASE ~(Len(p) >= BufferLength)
    <2> DEFINE r == Append(p, item)
    <2>1. Enqueue(p, item) = r
      BY <1>3 DEF Enqueue
    <2>2. r \in Seq(S) /\ Len(r) = Len(p) + 1 /\ r[Len(r)] = item /\ Len(r) > 0
      OBVIOUS
    <2>3. \A i \in 1..Len(r) - 1 : r[i] = p[i] /\ i \in DOMAIN p
      BY <2>2
    <2>4. \A i \in 1..Len(r) - 1 : i + d \in DOMAIN q /\ r[i] = q[i + d]
      BY <2>3, <1>1
    <2>5. Len(r) <= BufferLength
      BY <2>2, <1>3
    <2> HIDE DEF r
    <2> QED BY <2>1, <2>2, <2>4, <2>5 DEF PartAnd
  <1> QED BY <1>2, <1>3

-----------------------------------------------------------------------------
(* The inductive invariant                                                 *)

Handlers == [counts : [CheckpointIds -> Nat], current : CheckpointIds \cup {0},
             blocked : SUBSET (Sources \cup Ops), buffer : Seq(Item)]

\* What FlowTypeOK says, with the shape of the functions and records.
ShapeInv ==
    /\ offset \in [Sources -> 0 .. MaxEvents] /\ sending \subseteq Sources
    /\ input \in [Nodes -> Seq(Item)]
    /\ \A n \in Nodes : Len(input[n]) <= BufferLength
    /\ handler \in [Nodes -> Handlers]
    /\ \A n \in Nodes : /\ handler[n].blocked \subseteq Upstream[n]
                        /\ \A id \in CheckpointIds : handler[n].counts[id] < Inputs(n)
    /\ state \in [Tasks -> SUBSET Events]
    /\ begun \subseteq CheckpointIds /\ cancelled \in BOOLEAN
    /\ triggers \subseteq [task : Sources, id : begun, pc : {"send", "snapshot"}]
    /\ DOMAIN sentAt = CheckpointIds /\ DOMAIN tookAt = CheckpointIds
    /\ \A id \in CheckpointIds : DOMAIN tookAt[id] \subseteq Tasks

\* What a task has sent so far.
SentBy == [u \in Sources \cup Ops |-> IF u \in Sources THEN Emitted(u) ELSE state[u]]

\* What it had sent before its barrier of id, or has sent if that is to come.
SentFor(u, id) == IF u \in DOMAIN sentAt[id] THEN sentAt[id][u] ELSE SentBy[u]

\* What is in a channel has been sent by an upstream, and a barrier is on record.
ChannelInv ==
    \A n \in Nodes : \A i \in DOMAIN input[n] :
       LET item == input[n][i] IN
       /\ item.from \in Upstream[n]
       /\ item.id = 0 => item.event \in SentBy[item.from]
       /\ item.id # 0 => item.from \in DOMAIN sentAt[item.id]

\* A source is to send a barrier of a checkpoint once, after it has begun.
TriggerInv ==
    /\ \A g \in triggers : g.pc = "send" => g.task \notin DOMAIN sentAt[g.id]
    /\ \A id \in CheckpointIds \ begun : DOMAIN sentAt[id] \cap Sources = {}

\* A node that aligns is never blocked by all of its upstreams; it goes on to newer
\* checkpoints, and does not come back to one it has been triggered for.
AlignerInv ==
    \A n \in Nodes : Aligns(n) =>
       LET h == handler[n] IN
       /\ h.blocked \subseteq Upstream[n] /\ Cardinality(h.blocked) < Inputs(n)
       /\ h.blocked # {} => h.current # 0
       /\ \A u \in h.blocked : u \in DOMAIN sentAt[h.current]
       /\ \A id \in CheckpointIds : n \in DOMAIN sentAt[id] =>
             h.current >= id /\ (h.current = id => h.blocked = {})

\* A barrier of id from u is in the channel of n.
BarrierWaits(n, u, id) ==
    \E i \in DOMAIN input[n] : input[n][i].from = u /\ input[n][i].id = id

FlowInv == ShapeInv /\ ChannelInv /\ TriggerInv /\ AlignerInv

-----------------------------------------------------------------------------
(* Handlers                                                                *)

LEMMA InputsFacts ==
    ASSUME NEW n \in Nodes
    PROVE  /\ Upstream[n] \subseteq Sources \cup Ops /\ IsFiniteSet(Upstream[n])
           /\ Inputs(n) \in Nat \ {0}
           /\ \A B \in SUBSET Upstream[n] :
                 /\ IsFiniteSet(B) /\ Cardinality(B) \in Nat /\ Cardinality(B) <= Inputs(n)
                 /\ Cardinality(B) = Inputs(n) => B = Upstream[n]
  <1>1. Upstream[n] \subseteq Sources \cup Ops /\ Upstream[n] # {}
    BY TopologyAssumption
  <1>2. IsFiniteSet(Upstream[n])
    BY <1>1, TopologyAssumption, FS_Subset
  <1>3. Inputs(n) \in Nat \ {0}
    BY <1>1, <1>2, FS_CardinalityType, FS_EmptySet DEF Inputs
  <1>4. \A B \in SUBSET Upstream[n] :
           /\ IsFiniteSet(B) /\ Cardinality(B) \in Nat /\ Cardinality(B) <= Inputs(n)
           /\ Cardinality(B) = Inputs(n) => B = Upstream[n]
    BY <1>2, FS_Subset, FS_CardinalityType DEF Inputs
  <1> QED BY <1>1, <1>2, <1>3, <1>4

LEMMA NewHandlerType == NewHandler \in Handlers
  BY DEF NewHandler, Handlers

LEMMA TrackedType ==
    ASSUME NEW h \in Handlers, NEW n \in Nat \ {0}, NEW item \in Item, item.id # 0,
           \A id \in CheckpointIds : h.counts[id] < n
    PROVE  /\ Tracked(h, n, item) \in Handlers
           /\ Tracked(h, n, item).blocked = h.blocked
           /\ \A id \in CheckpointIds : Tracked(h, n, item).counts[id] < n
  <1>1. item.id \in CheckpointIds
    BY ItemFacts
  <1>2. CASE TrackerTriggers(h, n, item)
    <2> DEFINE c == [id \in CheckpointIds |-> IF n > 1 /\ id <= item.id THEN 0
                                             ELSE h.counts[id]]
    <2>1. h.counts \in [CheckpointIds -> Nat]
      BY DEF Handlers
    <2>2. c \in [CheckpointIds -> Nat] /\ \A id \in CheckpointIds : c[id] < n
      BY <2>1
    <2>3. Tracked(h, n, item) = [h EXCEPT !.counts = c]
      BY <1>2 DEF Tracked
    <2> HIDE DEF c
    <2> QED BY <2>2, <2>3 DEF Handlers
  <1>3. CASE ~TrackerTriggers(h, n, item)
    <2> DEFINE c == [h.counts EXCEPT ![item.id] = @ + 1]
    <2>1. h.counts \in [CheckpointIds -> Nat]
      BY DEF Handlers
    <2>2. h.counts[item.id] + 1 # n
      BY <1>3 DEF TrackerTriggers
    <2>3. c \in [CheckpointIds -> Nat] /\ \A id \in CheckpointIds : c[id] < n
      BY <2>1, <2>2, <1>1
    <2>4. Tracked(h, n, item) = [h EXCEPT !.counts = c]
      BY <1>3 DEF Tracked
    <2> HIDE DEF c
    <2> QED BY <2>3, <2>4 DEF Handlers
  <1> QED BY <1>2, <1>3

LEMMA BufferedType ==
    ASSUME NEW h \in Handlers, NEW item \in Item
    PROVE  /\ Buffered(h, item) \in Handlers
           /\ Buffered(h, item).blocked = h.blocked
           /\ Buffered(h, item).current = h.current
           /\ Buffered(h, item).counts = h.counts
  <1>1. Append(h.buffer, item) \in Seq(Item)
    BY DEF Handlers
  <1> QED BY <1>1 DEF Buffered, Handlers

\* What a barrier does to the handler of a node that aligns.
LEMMA AlignedFacts ==
    ASSUME NEW h \in Handlers, NEW n, NEW item \in Item, item.id # 0
    PROVE  LET g == Aligned(h, n, item)
           IN  /\ g \in Handlers
               /\ g.counts = h.counts /\ g.buffer \in Seq(Item)
               /\ g.current = IF item.id > h.current THEN item.id ELSE h.current
               /\ g.blocked = IF AlignerTriggers(h, n, item) THEN {}
                              ELSE BlockedAfter(h, item)
  <1> DEFINE c == IF item.id > h.current THEN item.id ELSE h.current
             B == [h EXCEPT !.current = c]
  <1>1. /\ h.counts \in [CheckpointIds -> Nat] /\ h.current \in CheckpointIds \cup {0}
        /\ h.blocked \subseteq Sources \cup Ops /\ h.buffer \in Seq(Item)
        /\ item.id \in CheckpointIds /\ item.from \in Sources \cup Ops
    BY ItemFacts DEF Handlers
  <1>2. c \in CheckpointIds \cup {0}
    BY <1>1
  <1>3. BlockedAfter(h, item) \subseteq Sources \cup Ops
    BY <1>1 DEF BlockedAfter
  <1>4. B \in Handlers /\ B.counts = h.counts /\ B.current = c
        /\ B.blocked = h.blocked /\ B.buffer = h.buffer
    BY <1>2 DEF Handlers
  <1>5. Aligned(h, n, item) = IF AlignerTriggers(h, n, item)
                              THEN [B EXCEPT !.blocked = {}, !.buffer = << >>]
                              ELSE [B EXCEPT !.blocked = BlockedAfter(h, item)]
    BY DEF Aligned
  <1>6. << >> \in Seq(Item)
    OBVIOUS
  <1> HIDE DEF B, c
  <1>7. CASE AlignerTriggers(h, n, item)
    BY <1>4, <1>5, <1>6, <1>7 DEF Handlers, c
  <1>8. CASE ~AlignerTriggers(h, n, item)
    BY <1>3, <1>4, <1>5, <1>8 DEF Handlers, c
  <1> QED BY <1>7, <1>8

-----------------------------------------------------------------------------
(* What a step does to the channels                                        *)

\* Every channel is a part of what it was, perhaps with one of items behind it that
\* its sender sends there.
Delivered(items) ==
    \A n \in Nodes :
       \/ PartOf(input'[n], input[n])
       \/ \E item \in items : item.from \in Upstream[n] /\ PartAnd(input'[n], input[n], item)

LEMMA NothingSent ==
    ASSUME ShapeInv, input' = input
    PROVE  Delivered({})
  BY PartItself DEF ShapeInv, Delivered

\* A node takes what is next in its channel.
LEMMA PopFacts ==
    ASSUME ShapeInv, NEW n \in Nodes, input[n] # << >>
    PROVE  LET q == [input EXCEPT ![n] = Tail(@)]
           IN  /\ q \in [Nodes -> Seq(Item)]
               /\ \A m \in Nodes : Len(q[m]) <= BufferLength /\ PartOf(q[m], input[m])
               /\ 1 \in DOMAIN input[n] /\ Head(input[n]) = input[n][1]
               /\ Head(input[n]) \in Item
  <1> DEFINE q == [input EXCEPT ![n] = Tail(@)]
  <1>1. input[n] \in Seq(Item) /\ Len(input[n]) <= BufferLength
    BY DEF ShapeInv
  <1>2. /\ Tail(input[n]) \in Seq(Item) /\ Len(Tail(input[n])) <= BufferLength
        /\ 1 \in DOMAIN input[n] /\ Head(input[n]) = input[n][1]
        /\ Head(input[n]) \in Item
    BY <1>1, TailFacts, TopologyAssumption
  <1>3. q \in [Nodes -> Seq(Item)]
    BY <1>2 DEF ShapeInv
  <1>4. PartOf(Tail(input[n]), input[n])
    BY <1>1, PartItself
  <1>5. \A m \in Nodes : Len(q[m]) <= BufferLength /\ PartOf(q[m], input[m])
    BY <1>2, <1>4, PartItself DEF ShapeInv
  <1> QED BY <1>2, <1>3, <1>5

LEMMA PopOnly ==
    ASSUME ShapeInv, NEW n \in Nodes, input[n] # << >>,
           input' = [input EXCEPT ![n] = Tail(@)]
    PROVE  /\ input' \in [Nodes -> Seq(Item)]
           /\ \A m \in Nodes : Len(input'[m]) <= BufferLength
           /\ Delivered({})
  BY PopFacts DEF Delivered

LEMMA SentFacts ==
    ASSUME ShapeInv, NEW q \in [Nodes -> Seq(Item)],
           \A n \in Nodes : Len(q[n]) <= BufferLength /\ PartOf(q[n], input[n]),
           NEW item \in Item, NEW receivers \in Reaches(item.from),
           input' = Sent(q, item, receivers)
    PROVE  /\ input' \in [Nodes -> Seq(Item)]
           /\ \A n \in Nodes : Len(input'[n]) <= BufferLength
           /\ Delivered({item})
  <1>1. receivers \subseteq Downstream(item.from)
    BY DEF Reaches
  <1>2. \A n \in Nodes : input'[n] = IF n \in receivers THEN Enqueue(q[n], item) ELSE q[n]
    BY DEF Sent
  <1>3. \A n \in Nodes : q[n] \in Seq(Item) /\ input[n] \in Seq(Item)
    BY DEF ShapeInv
  <1>4. ASSUME NEW n \in Nodes
        PROVE  /\ input'[n] \in Seq(Item) /\ Len(input'[n]) <= BufferLength
               /\ \/ PartOf(input'[n], input[n])
                  \/ item.from \in Upstream[n] /\ PartAnd(input'[n], input[n], item)
    <2>1. CASE n \in receivers
      <3>1. item.from \in Upstream[n]
        BY <1>1, <2>1 DEF Downstream
      <3> QED BY <1>2, <1>3, <2>1, <3>1, EnqueueFacts
    <2>2. CASE n \notin receivers
      BY <1>2, <1>3, <2>2
    <2> QED BY <2>1, <2>2
  <1>5. input' \in [Nodes -> Seq(Item)]
    BY <1>4 DEF Sent
  <1> QED BY <1>4, <1>5 DEF Delivered

\* What is in a channel after a step was there before, in the same order, or was sent
\* and is behind it.
LEMMA DeliveredItems ==
    ASSUME ShapeInv, NEW items, Delivered(items), NEW n \in Nodes,
           input' \in [Nodes -> Seq(Item)]
    PROVE  /\ \A i \in DOMAIN input'[n] :
                 \/ \E k \in DOMAIN input[n] : input'[n][i] = input[n][k]
                 \/ input'[n][i] \in items /\ input'[n][i].from \in Upstream[n]
           /\ \A i, j \in DOMAIN input'[n] : i < j =>
                 \E k \in DOMAIN input[n] :
                    /\ input'[n][i] = input[n][k]
                    /\ \/ input'[n][j] \in items
                       \/ \E l \in DOMAIN input[n] : k < l /\ input'[n][j] = input[n][l]
  <1> DEFINE p == input'[n]
             q == input[n]
  <1>1. p \in Seq(Item) /\ q \in Seq(Item)
    BY DEF ShapeInv
  <1>2. CASE PartOf(p, q)
    <2>1. PICK d \in Nat : \A i \in DOMAIN p : i + d \in DOMAIN q /\ p[i] = q[i + d]
      BY <1>2 DEF PartOf
    <2>2. \A i, j \in DOMAIN p : i < j => i + d < j + d
      BY <1>1
    <2> QED BY <2>1, <2>2
  <1>3. ASSUME NEW item \in items, item.from \in Upstream[n], PartAnd(p, q, item)
        PROVE  /\ \A i \in DOMAIN p :
                     \/ \E k \in DOMAIN q : p[i] = q[k]
                     \/ p[i] \in items /\ p[i].from \in Upstream[n]
               /\ \A i, j \in DOMAIN p : i < j =>
                     \E k \in DOMAIN q :
                        /\ p[i] = q[k]
                        /\ p[j] \in items \/ \E l \in DOMAIN q : k < l /\ p[j] = q[l]
    <2>1. PICK d \in Nat :
             \A i \in 1..Len(p) - 1 : i + d \in DOMAIN q /\ p[i] = q[i + d]
      BY <1>3 DEF PartAnd
    <2>2. p[Len(p)] = item
      BY <1>3 DEF PartAnd
    <2>3. \A i \in DOMAIN p : i \in 1..Len(p) - 1 \/ i = Len(p)
      BY <1>1
    <2>4. \A i, j \in DOMAIN p : i < j => i \in 1..Len(p) - 1 /\ i + d < j + d
      BY <1>1
    <2> HIDE DEF p, q
    <2>5. \A i \in DOMAIN p : \/ \E k \in DOMAIN q : p[i] = q[k]
                              \/ p[i] \in items /\ p[i].from \in Upstream[n]
      BY <1>3, <2>1, <2>2, <2>3
    <2>6. \A i, j \in DOMAIN p : i < j =>
             /\ i + d \in DOMAIN q /\ p[i] = q[i + d]
             /\ \/ p[j] \in items
                \/ j + d \in DOMAIN q /\ i + d < j + d /\ p[j] = q[j + d]
      BY <1>3, <2>1, <2>2, <2>3, <2>4
    <2> QED BY <2>5, <2>6
  <1> QED BY <1>2, <1>3 DEF Delivered

\* A task has sent what it had sent, and the barriers of a task stay on record.
Grows ==
    /\ \A u \in Sources \cup Ops : SentBy[u] \subseteq SentBy'[u]
    /\ \A id \in CheckpointIds : DOMAIN sentAt[id] \subseteq DOMAIN sentAt'[id]

\* An item is sent by a task that has it.
Sends(item) ==
    /\ item.id = 0 => item.event \in SentBy'[item.from]
    /\ item.id # 0 => item.from \in DOMAIN sentAt'[item.id]

LEMMA ChannelStep ==
    ASSUME ShapeInv, ChannelInv, input' \in [Nodes -> Seq(Item)],
           NEW items, Delivered(items), \A item \in items : Sends(item), Grows
    PROVE  ChannelInv'
  <1> SUFFICES ASSUME NEW n \in Nodes, NEW i \in DOMAIN input'[n]
               PROVE  /\ input'[n][i].from \in Upstream[n]
                      /\ input'[n][i].id = 0 =>
                            input'[n][i].event \in SentBy'[input'[n][i].from]
                      /\ input'[n][i].id # 0 =>
                            input'[n][i].from \in DOMAIN sentAt'[input'[n][i].id]
    BY DEF ChannelInv
  <1>1. CASE \E k \in DOMAIN input[n] : input'[n][i] = input[n][k]
    <2>1. PICK k \in DOMAIN input[n] : input'[n][i] = input[n][k]
      BY <1>1
    <2> DEFINE x == input[n][k]
    <2>2. /\ x.from \in Upstream[n]
          /\ x.id = 0 => x.event \in SentBy[x.from]
          /\ x.id # 0 => x.from \in DOMAIN sentAt[x.id]
      BY DEF ChannelInv
    <2>3. x.from \in Sources \cup Ops
      BY <2>2, InputsFacts
    <2>4. x.id # 0 => x.id \in CheckpointIds
      BY ItemFacts DEF ShapeInv
    <2> HIDE DEF x
    <2> QED BY <2>1, <2>2, <2>3, <2>4 DEF Grows, x
  <1>2. CASE input'[n][i] \in items /\ input'[n][i].from \in Upstream[n]
    BY <1>2 DEF Sends
  <1> QED BY <1>1, <1>2, DeliveredItems

-----------------------------------------------------------------------------
(* Sources                                                                 *)

LEMMA EmittedFacts ==
    ASSUME ShapeInv, NEW s \in Sources
    PROVE  /\ Emitted(s) \subseteq Events
           /\ \A k \in 1 .. offset[s] : <<s, k>> \in Emitted(s)
  BY TopologyAssumption DEF ShapeInv, Emitted, Events

LEMMA IngestFlow ==
    ASSUME FlowInv, NEW s \in Sources, Ingest(s)
    PROVE  /\ FlowInv' /\ Grows
           /\ \E item \in Item : item.id = 0 /\ Delivered({item})
  <1> DEFINE e == <<s, offset[s] + 1>>
             item == Event(s, e)
  <1>1. offset[s] \in 0 .. MaxEvents /\ offset[s] + 1 \in 1 .. MaxEvents
    BY TopologyAssumption DEF FlowInv, ShapeInv, Ingest
  <1>2. e \in Events
    BY <1>1 DEF Events
  <1>3. item \in Item /\ item.from = s /\ item.id = 0 /\ item.event = e
    BY <1>2, ItemFacts
  <1>4. offset' = [offset EXCEPT ![s] = @ + 1] /\ offset' \in [Sources -> 0 .. MaxEvents]
    BY <1>1 DEF Ingest, FlowInv, ShapeInv
  <1>5. \A u \in Sources : offset[u] \in Nat /\ offset'[u] \in Nat /\ offset[u] <= offset'[u]
    BY <1>4, TopologyAssumption DEF FlowInv, ShapeInv
  <1>6. e \in SentBy'[s]
    BY <1>1, <1>4, <1>5 DEF SentBy, Emitted, FlowInv, ShapeInv
  <1>7. Grows
    <2>1. \A u \in Sources : Emitted(u) \subseteq Emitted(u)'
      BY <1>5 DEF Emitted
    <2> QED BY <2>1 DEF Grows, SentBy, Ingest, history
  <1>8. /\ input' \in [Nodes -> Seq(Item)] /\ Delivered({item})
        /\ \A n \in Nodes : Len(input'[n]) <= BufferLength
    <2>1. input \in [Nodes -> Seq(Item)]
          /\ \A n \in Nodes : Len(input[n]) <= BufferLength /\ PartOf(input[n], input[n])
      BY PartItself DEF FlowInv, ShapeInv
    <2>2. PICK receivers \in Reaches(s) : input' = Sent(input, item, receivers)
      BY DEF Ingest
    <2> HIDE DEF item
    <2> QED BY <1>3, <2>1, <2>2, SentFacts DEF FlowInv
  <1> HIDE DEF item, e
  <1>9. Sends(item)
    BY <1>3, <1>6 DEF Sends
  <1>10. ChannelInv'
    BY <1>7, <1>8, <1>9, ChannelStep DEF FlowInv
  <1>11. ShapeInv'
    BY <1>4, <1>8 DEF FlowInv, ShapeInv, Ingest, history
  <1>12. TriggerInv' /\ AlignerInv'
    BY DEF FlowInv, TriggerInv, AlignerInv, Ingest, history
  <1> QED BY <1>3, <1>7, <1>8, <1>10, <1>11, <1>12 DEF FlowInv

LEMMA UpdateStateFlow ==
    ASSUME FlowInv, NEW s \in Sources, UpdateState(s)
    PROVE  /\ FlowInv' /\ Grows /\ Delivered({})
           /\ \A n \in Ops : state'[n] = state[n]
  <1>1. state' = [state EXCEPT ![s] = Emitted(s)] /\ state' \in [Tasks -> SUBSET Events]
    BY EmittedFacts DEF UpdateState, FlowInv, ShapeInv, Tasks
  <1>2. \A u \in Ops : state'[u] = state[u]
    BY <1>1, TopologyAssumption DEF FlowInv, ShapeInv, Tasks, Nodes
  <1>3. Grows
    BY <1>2 DEF Grows, SentBy, Emitted, UpdateState, history
  <1>4. Delivered({}) /\ input' = input
    BY NothingSent DEF UpdateState, FlowInv
  <1>5. ShapeInv'
    BY <1>1 DEF FlowInv, ShapeInv, UpdateState, history
  <1>6. ChannelInv'
    BY <1>3, <1>4, <1>5, ChannelStep DEF FlowInv, ShapeInv
  <1>7. TriggerInv' /\ AlignerInv'
    BY DEF FlowInv, TriggerInv, AlignerInv, UpdateState, history
  <1> QED BY <1>2, <1>3, <1>4, <1>5, <1>6, <1>7 DEF FlowInv

-----------------------------------------------------------------------------
(* Triggering the sources                                                  *)

LEMMA BeginFlow ==
    ASSUME FlowInv, NEW id \in CheckpointIds \ begun, Begin(id)
    PROVE  FlowInv' /\ Grows /\ Delivered({})
  <1> DEFINE new == {[task |-> s, id |-> id, pc |-> "send"] : s \in Sources}
  <1>1. Grows
    BY DEF Begin, Grows, SentBy, Emitted, history
  <1>2. Delivered({}) /\ input' = input
    BY NothingSent DEF Begin, FlowInv
  <1>3. triggers' = triggers \cup new /\ begun' = begun \cup {id}
    BY DEF Begin
  <1>4. new \subseteq [task : Sources, id : begun', pc : {"send", "snapshot"}]
    BY <1>3
  <1>5. triggers \subseteq [task : Sources, id : begun', pc : {"send", "snapshot"}]
    BY <1>3 DEF FlowInv, ShapeInv
  <1>6. \A g \in new : g.task \in Sources /\ g.id = id
    OBVIOUS
  <1> HIDE DEF new
  <1>7. ShapeInv'
    BY <1>3, <1>4, <1>5 DEF FlowInv, ShapeInv, Begin, history
  <1>8. ChannelInv'
    BY <1>1, <1>2, <1>7, ChannelStep DEF FlowInv, ShapeInv
  <1>9. TriggerInv'
    <2>1. sentAt' = sentAt
      BY DEF Begin, history
    <2>2. DOMAIN sentAt[id] \cap Sources = {}
      BY DEF FlowInv, TriggerInv
    <2> QED BY <1>3, <1>6, <2>1, <2>2 DEF FlowInv, TriggerInv
  <1>10. AlignerInv'
    BY DEF FlowInv, AlignerInv, Begin, history
  <1> QED BY <1>1, <1>2, <1>7, <1>8, <1>9, <1>10 DEF FlowInv

LEMMA SendBarrierFlow ==
    ASSUME FlowInv, NEW g \in triggers, SendBarrier(g)
    PROVE  /\ FlowInv' /\ Grows
           /\ g.task \in Sources /\ g.id \in CheckpointIds
           /\ g.task \notin DOMAIN sentAt[g.id]
           /\ Delivered({Barrier(g.task, g.id)})
  <1> DEFINE item == Barrier(g.task, g.id)
             h == [g EXCEPT !.pc = "snapshot"]
  <1>1. /\ g \in [task : Sources, id : begun, pc : {"send", "snapshot"}]
        /\ g.task \in Sources /\ g.id \in begun /\ g.id \in CheckpointIds /\ g.pc = "send"
    BY DEF FlowInv, ShapeInv, SendBarrier
  <1>2. g.task \notin DOMAIN sentAt[g.id]
    BY <1>1 DEF FlowInv, TriggerInv
  <1>3. item \in Item /\ item.from = g.task /\ item.id = g.id /\ item.id # 0
    <2>1. item \in Item /\ item.from = g.task /\ item.id = g.id
      BY <1>1, ItemFacts
    <2>2. g.id # 0
      BY <1>1, CheckpointIdsAssumption
    <2> QED BY <2>1, <2>2
  <1>4. sentAt' = [sentAt EXCEPT ![g.id] = With(@, g.task, Emitted(g.task))]
    BY DEF SendBarrier
  <1>5. /\ DOMAIN sentAt' = CheckpointIds
        /\ sentAt'[g.id] = With(sentAt[g.id], g.task, Emitted(g.task))
        /\ \A id \in CheckpointIds : id # g.id => sentAt'[id] = sentAt[id]
    BY <1>1, <1>4 DEF FlowInv, ShapeInv
  <1>6. /\ DOMAIN sentAt'[g.id] = DOMAIN sentAt[g.id] \cup {g.task}
    BY <1>5 DEF With
  <1>7. Grows
    BY <1>5, <1>6 DEF Grows, SentBy, Emitted, SendBarrier
  <1>8. /\ input' \in [Nodes -> Seq(Item)] /\ Delivered({item})
        /\ \A n \in Nodes : Len(input'[n]) <= BufferLength
    <2>1. input \in [Nodes -> Seq(Item)]
          /\ \A n \in Nodes : Len(input[n]) <= BufferLength /\ PartOf(input[n], input[n])
      BY PartItself DEF FlowInv, ShapeInv
    <2>2. PICK receivers \in Reaches(g.task) : input' = Sent(input, item, receivers)
      BY DEF SendBarrier
    <2> HIDE DEF item
    <2> QED BY <1>3, <2>1, <2>2, SentFacts DEF FlowInv
  <1>9. Sends(item)
    BY <1>3, <1>6 DEF Sends
  <1>10. /\ triggers' = (triggers \ {g}) \cup {h}
         /\ h \in [task : Sources, id : begun, pc : {"send", "snapshot"}]
         /\ h.pc = "snapshot" /\ h.task = g.task /\ h.id = g.id
    BY <1>1 DEF SendBarrier
  <1> HIDE DEF item, h
  <1>11. ShapeInv'
    BY <1>5, <1>8, <1>10 DEF FlowInv, ShapeInv, SendBarrier
  <1>12. ChannelInv'
    BY <1>7, <1>8, <1>9, ChannelStep DEF FlowInv
  <1>13. TriggerInv'
    <2>1. ASSUME NEW x \in triggers', x.pc = "send"
          PROVE  x.task \notin DOMAIN sentAt'[x.id]
      <3>1. x \in triggers /\ x # g
        BY <1>10, <2>1
      <3>2. /\ x \in [task : Sources, id : begun, pc : {"send", "snapshot"}]
            /\ x.task \notin DOMAIN sentAt[x.id] /\ x.id \in CheckpointIds
        BY <3>1, <2>1 DEF FlowInv, TriggerInv, ShapeInv
      <3>3. x.task # g.task \/ x.id # g.id
        BY <1>1, <2>1, <3>1, <3>2
      <3> QED BY <1>5, <1>6, <3>2, <3>3
    <2>2. \A id \in CheckpointIds \ begun' : DOMAIN sentAt'[id] \cap Sources = {}
      BY <1>1, <1>5 DEF FlowInv, TriggerInv, SendBarrier
    <2> QED BY <2>1, <2>2 DEF TriggerInv
  <1>14. AlignerInv'
    <2>1. \A n \in Nodes : n # g.task
      BY <1>1, TopologyAssumption
    <2>2. \A n \in Nodes : \A id \in CheckpointIds :
             n \in DOMAIN sentAt'[id] => n \in DOMAIN sentAt[id]
      BY <1>5, <1>6, <2>1
    <2>3. \A n \in Nodes : /\ handler[n].blocked \subseteq Upstream[n]
                           /\ handler[n].current \in CheckpointIds \cup {0}
      BY DEF FlowInv, ShapeInv, Handlers
    <2>4. handler' = handler
      BY DEF SendBarrier
    <2> QED BY <1>7, <2>2, <2>3, <2>4 DEF FlowInv, AlignerInv, Grows
  <1> QED BY <1>1, <1>2, <1>7, <1>8, <1>11, <1>12, <1>13, <1>14 DEF FlowInv, item

LEMMA TakeSnapshotFlow ==
    ASSUME FlowInv, NEW g \in triggers, TakeSnapshot(g)
    PROVE  /\ FlowInv' /\ Grows /\ Delivered({})
           /\ \A id \in CheckpointIds : \A n \in Nodes : n \in DOMAIN tookAt'[id] =>
                 n \in DOMAIN tookAt[id] /\ tookAt'[id][n] = tookAt[id][n]
  <1>1. g.task \in Sources /\ g.id \in CheckpointIds
    BY DEF FlowInv, ShapeInv
  <1>2. tookAt' = [tookAt EXCEPT ![g.id] = With(@, g.task, state[g.task])]
    BY DEF TakeSnapshot
  <1>3. /\ DOMAIN tookAt' = CheckpointIds
        /\ tookAt'[g.id] = With(tookAt[g.id], g.task, state[g.task])
        /\ \A id \in CheckpointIds : id # g.id => tookAt'[id] = tookAt[id]
    BY <1>1, <1>2 DEF FlowInv, ShapeInv
  <1>4. /\ DOMAIN tookAt'[g.id] = DOMAIN tookAt[g.id] \cup {g.task}
        /\ \A u \in DOMAIN tookAt[g.id] : u # g.task => tookAt'[g.id][u] = tookAt[g.id][u]
    BY <1>3 DEF With
  <1>5. Grows
    BY DEF TakeSnapshot, Grows, SentBy, Emitted
  <1>6. Delivered({}) /\ input' = input
    BY NothingSent DEF TakeSnapshot, FlowInv
  <1>7. ShapeInv'
    BY <1>1, <1>3, <1>4 DEF FlowInv, ShapeInv, TakeSnapshot, Tasks
  <1>8. ChannelInv'
    BY <1>5, <1>6, <1>7, ChannelStep DEF FlowInv, ShapeInv
  <1>9. TriggerInv' /\ AlignerInv'
    BY DEF FlowInv, TriggerInv, AlignerInv, TakeSnapshot
  <1>10. \A n \in Nodes : n # g.task
    BY <1>1, TopologyAssumption
  <1> QED BY <1>3, <1>4, <1>5, <1>6, <1>7, <1>8, <1>9, <1>10 DEF FlowInv

-----------------------------------------------------------------------------
(* Nodes                                                                   *)

\* What a barrier that has come does to the handler of a node.
LEMMA BarrierHandled ==
    ASSUME FlowInv, NEW n \in Nodes, NEW b \in Item, b.id # 0, b.from \in Upstream[n],
           b.from \in DOMAIN sentAt[b.id]
    PROVE  LET h == handler[n]
               g == HandlerAfter(n, b)
           IN  /\ g \in Handlers /\ g.blocked \subseteq Upstream[n]
               /\ \A id \in CheckpointIds : g.counts[id] < Inputs(n)
               /\ Aligns(n) =>
                    /\ Cardinality(g.blocked) < Inputs(n)
                    /\ g.blocked # {} => g.current # 0
                    /\ \A u \in g.blocked : u \in DOMAIN sentAt[g.current]
                    /\ g.current >= h.current
                    /\ g.current = h.current /\ h.blocked = {} => g.blocked = {}
                    /\ \A id \in CheckpointIds : \A u \in g.blocked :
                          g.current = id =>
                             \/ h.current = id /\ u \in h.blocked
                             \/ b.from = u /\ b.id = id
                    /\ Triggers(n, b) =>
                         /\ g.current = b.id /\ g.blocked = {}
                         /\ h.current <= b.id
                         /\ h.current = b.id => h.blocked # {}
                         /\ \A u \in Upstream[n] :
                               u = b.from \/ (h.current = b.id /\ u \in h.blocked)
  <1> DEFINE h == handler[n]
             g == HandlerAfter(n, b)
  <1>1. /\ h \in Handlers /\ h.blocked \subseteq Upstream[n]
        /\ \A id \in CheckpointIds : h.counts[id] < Inputs(n)
    BY DEF FlowInv, ShapeInv
  <1>2. Inputs(n) \in Nat \ {0}
    BY InputsFacts
  <1>3. /\ b.id \in CheckpointIds /\ h.current \in CheckpointIds \cup {0}
        /\ b.id \in Nat \ {0} /\ h.current \in Nat
    <2>1. b.id \in CheckpointIds
      BY ItemFacts
    <2>2. h.current \in CheckpointIds \cup {0}
      BY <1>1 DEF Handlers
    <2>3. \A id \in CheckpointIds : id \in Nat \ {0}
      BY CheckpointIdsAssumption
    <2> HIDE DEF h, g
    <2>4. b.id \in Nat \ {0}
      BY <2>1, <2>3
    <2>5. h.current \in Nat
      BY <2>2, <2>3
    <2> QED BY <2>1, <2>2, <2>4, <2>5
  <1>4. CASE ~Aligns(n)
    <2>1. g = Tracked(h, Inputs(n), b)
      BY <1>4 DEF HandlerAfter
    <2> HIDE DEF h, g
    <2> QED BY <1>1, <1>2, <1>4, <2>1, TrackedType DEF g, h
  <1>5. CASE Aligns(n)
    <2> DEFINE B == BlockedAfter(h, b)
               t == AlignerTriggers(h, Inputs(n), b)
    <2>1. g = Aligned(h, Inputs(n), b) /\ (Triggers(n, b) <=> t)
      BY <1>5 DEF HandlerAfter, Triggers
    <2>2. /\ g \in Handlers /\ g.counts = h.counts
          /\ g.current = IF b.id > h.current THEN b.id ELSE h.current
          /\ g.blocked = IF t THEN {} ELSE B
      BY <1>1, <2>1, AlignedFacts
    <2>3. /\ Cardinality(h.blocked) < Inputs(n)
          /\ h.blocked # {} => h.current # 0
          /\ \A u \in h.blocked : u \in DOMAIN sentAt[h.current]
      BY <1>5 DEF FlowInv, AlignerInv
    <2>4. B \subseteq Upstream[n]
      BY <1>1 DEF BlockedAfter
    <2>5. Cardinality(B) \in Nat /\ Cardinality(B) <= Inputs(n)
          /\ (Cardinality(B) = Inputs(n) => B = Upstream[n])
          /\ (t <=> Cardinality(B) = Inputs(n))
      BY <2>4, InputsFacts DEF AlignerTriggers
    <2>6. Cardinality({}) = 0
      BY FS_EmptySet
    <2>7. B = IF b.id > h.current THEN {b.from}
              ELSE IF b.id = h.current /\ h.blocked # {} THEN h.blocked \cup {b.from}
              ELSE h.blocked
      BY DEF BlockedAfter
    <2>8. t => b.id > h.current \/ (b.id = h.current /\ h.blocked # {})
      BY <1>2, <2>3, <2>5, <2>7
    <2> HIDE DEF B, t, h, g
    <2>9. g.blocked \subseteq Upstream[n] /\ Cardinality(g.blocked) < Inputs(n)
      BY <1>2, <2>2, <2>4, <2>5, <2>6
    <2>10. /\ g.blocked # {} => g.current # 0
           /\ \A u \in g.blocked : u \in DOMAIN sentAt[g.current]
      BY <1>3, <2>2, <2>3, <2>7
    <2>11. /\ g.current >= h.current
           /\ g.current = h.current /\ h.blocked = {} => g.blocked = {}
      BY <1>3, <2>2, <2>7
    <2>12. \A u \in g.blocked :
             \/ h.current = g.current /\ u \in h.blocked
             \/ b.from = u /\ b.id = g.current
      BY <1>3, <2>2, <2>7
    <2>13. t => /\ g.current = b.id /\ g.blocked = {}
                /\ h.current <= b.id
                /\ h.current = b.id => h.blocked # {}
                /\ \A u \in Upstream[n] : u = b.from \/ (h.current = b.id /\ u \in h.blocked)
      <3> SUFFICES ASSUME t
                   PROVE  /\ g.current = b.id /\ g.blocked = {}
                          /\ h.current <= b.id
                          /\ h.current = b.id => h.blocked # {}
                          /\ \A u \in Upstream[n] :
                                u = b.from \/ (h.current = b.id /\ u \in h.blocked)
        OBVIOUS
      <3>1. CASE b.id > h.current
        BY <1>3, <2>2, <2>5, <2>7, <3>1
      <3>2. CASE b.id = h.current /\ h.blocked # {}
        BY <1>3, <2>2, <2>5, <2>7, <3>2
      <3> QED BY <2>8, <3>1, <3>2
    <2> QED BY <1>1, <2>1, <2>2, <2>9, <2>10, <2>11, <2>12, <2>13 DEF g, h
  <1> QED BY <1>4, <1>5

\* The item that is next in the channel of a node.
LEMMA HeadFacts ==
    ASSUME FlowInv, NEW n \in Nodes, input[n] # << >>
    PROVE  /\ Head(input[n]) \in Item /\ Head(input[n]) = input[n][1]
           /\ 1 \in DOMAIN input[n]
           /\ Head(input[n]).from \in Upstream[n]
           /\ Head(input[n]).from \in Sources \cup Ops
           /\ Head(input[n]).id = 0 =>
                 /\ Head(input[n]).event \in Events
                 /\ Head(input[n]).event \in SentBy[Head(input[n]).from]
           /\ Head(input[n]).id # 0 =>
                 /\ Head(input[n]).id \in CheckpointIds
                 /\ Head(input[n]).from \in DOMAIN sentAt[Head(input[n]).id]
  <1>1. Head(input[n]) \in Item /\ Head(input[n]) = input[n][1] /\ 1 \in DOMAIN input[n]
    BY PopFacts DEF FlowInv
  <1> QED BY <1>1, ItemFacts, InputsFacts DEF FlowInv, ChannelInv

LEMMA WithholdFlow ==
    ASSUME FlowInv, NEW n \in Nodes, Withhold(n)
    PROVE  /\ FlowInv' /\ Grows /\ Delivered({})
           /\ \A m \in Nodes : /\ handler'[m].current = handler[m].current
                               /\ handler'[m].blocked = handler[m].blocked
                               /\ handler'[m].counts = handler[m].counts
  <1> DEFINE g == Buffered(handler[n], Head(input[n]))
  <1>1. input[n] # << >> /\ Head(input[n]) \in Item
    BY HeadFacts DEF Withhold, NextIsEvent
  <1>2. handler[n] \in Handlers
    BY DEF FlowInv, ShapeInv
  <1>3. /\ g \in Handlers /\ g.blocked = handler[n].blocked
        /\ g.current = handler[n].current /\ g.counts = handler[n].counts
    BY <1>1, <1>2, BufferedType
  <1>4. handler' = [handler EXCEPT ![n] = g]
    BY DEF Withhold
  <1> HIDE DEF g
  <1>5. /\ handler' \in [Nodes -> Handlers]
        /\ \A m \in Nodes : /\ handler'[m].current = handler[m].current
                            /\ handler'[m].blocked = handler[m].blocked
                            /\ handler'[m].counts = handler[m].counts
    BY <1>3, <1>4 DEF FlowInv, ShapeInv
  <1>6. /\ input' \in [Nodes -> Seq(Item)] /\ Delivered({})
        /\ \A m \in Nodes : Len(input'[m]) <= BufferLength
    BY <1>1, PopOnly DEF FlowInv, Withhold
  <1>7. Grows
    BY DEF Withhold, Grows, SentBy, Emitted, history
  <1>8. ShapeInv'
    BY <1>5, <1>6 DEF FlowInv, ShapeInv, Withhold, history
  <1>9. ChannelInv'
    BY <1>6, <1>7, ChannelStep DEF FlowInv
  <1>10. TriggerInv'
    BY DEF FlowInv, TriggerInv, Withhold, history
  <1>11. AlignerInv'
    BY <1>5 DEF FlowInv, AlignerInv, Withhold, history
  <1> QED BY <1>5, <1>6, <1>7, <1>8, <1>9, <1>10, <1>11 DEF FlowInv

\* A node takes what is next and sends an item; a sink sends to no one.
LEMMA NodeSends ==
    ASSUME ShapeInv, NEW n \in Nodes, input[n] # << >>,
           NEW item, n \in Ops => item \in Item /\ item.from = n,
           NEW receivers \in Reaches(n),
           input' = Sent([input EXCEPT ![n] = Tail(@)], item, receivers)
    PROVE  /\ input' \in [Nodes -> Seq(Item)]
           /\ \A m \in Nodes : Len(input'[m]) <= BufferLength
           /\ Delivered(IF n \in Ops THEN {item} ELSE {})
  <1> DEFINE q == [input EXCEPT ![n] = Tail(@)]
  <1>1. /\ q \in [Nodes -> Seq(Item)]
        /\ \A m \in Nodes : Len(q[m]) <= BufferLength /\ PartOf(q[m], input[m])
    BY PopFacts
  <1> HIDE DEF q
  <1>2. input' = Sent(q, item, receivers)
    BY DEF q
  <1>3. CASE n \in Ops
    BY <1>1, <1>2, <1>3, SentFacts
  <1>4. CASE n \notin Ops
    <2>1. Downstream(n) = {}
      BY <1>4, TopologyAssumption, InputsFacts DEF Downstream, Nodes
    <2>2. receivers = {}
      BY <2>1 DEF Reaches
    <2>3. \A m \in Nodes : input'[m] = q[m]
      BY <1>2, <2>2 DEF Sent
    <2>4. input' \in [Nodes -> Seq(Item)]
      BY <1>1, <1>2, <2>2 DEF Sent
    <2> QED BY <1>1, <1>4, <2>3, <2>4 DEF Delivered
  <1> QED BY <1>3, <1>4

LEMMA ProcessFlow ==
    ASSUME FlowInv, NEW n \in Nodes, Process(n)
    PROVE  /\ FlowInv' /\ Grows
           /\ \E items \in SUBSET Item : Delivered(items) /\ \A item \in items : item.id = 0
  <1> DEFINE e == Head(input[n]).event
             item == Event(n, e)
             items == IF n \in Ops THEN {item} ELSE {}
  <1>1. input[n] # << >> /\ e \in Events /\ n \in Tasks
    BY HeadFacts DEF Process, NextIsEvent, IsBarrier, Tasks
  <1>2. state' = [state EXCEPT ![n] = @ \cup {e}] /\ state' \in [Tasks -> SUBSET Events]
    BY <1>1 DEF Process, FlowInv, ShapeInv
  <1>3. (\A t \in Tasks : state[t] \subseteq state'[t]) /\ e \in state'[n]
    BY <1>1, <1>2 DEF FlowInv, ShapeInv
  <1>4. Grows
    BY <1>3 DEF Grows, SentBy, Emitted, Process, history, Tasks, Nodes
  <1>5. n \in Ops => item \in Item /\ item.from = n /\ item.id = 0 /\ item.event = e
    BY <1>1, ItemFacts
  <1>6. PICK receivers \in Reaches(n) :
           input' = Sent([input EXCEPT ![n] = Tail(@)], item, receivers)
    BY DEF Process
  <1> HIDE DEF item, e
  <1>7. /\ input' \in [Nodes -> Seq(Item)] /\ Delivered(items)
        /\ \A m \in Nodes : Len(input'[m]) <= BufferLength
    BY <1>1, <1>5, <1>6, NodeSends DEF FlowInv
  <1>8. n \in Ops => e \in SentBy'[n]
    BY <1>3, TopologyAssumption DEF SentBy, Nodes
  <1>9. \A x \in items : x \in Item /\ x.id = 0 /\ Sends(x)
    BY <1>5, <1>8 DEF Sends
  <1> HIDE DEF items
  <1>10. ShapeInv'
    BY <1>2, <1>7 DEF FlowInv, ShapeInv, Process, history
  <1>11. ChannelInv'
    BY <1>4, <1>7, <1>9, ChannelStep DEF FlowInv
  <1>12. TriggerInv' /\ AlignerInv'
    BY DEF FlowInv, TriggerInv, AlignerInv, Process, history
  <1> QED BY <1>4, <1>7, <1>9, <1>10, <1>11, <1>12 DEF FlowInv

\* What is blocked after a step was blocked before, or its barrier was in the channel.
KeepsWaiting ==
    \A n \in Nodes : Aligns(n) => \A id \in CheckpointIds : \A u \in Upstream[n] :
       handler'[n].current = id /\ u \in handler'[n].blocked =>
          (handler[n].current = id /\ u \in handler[n].blocked) \/ BarrierWaits(n, u, id)

\* A node that aligns goes on, and has the barriers of those it blocks.
HandlersGoOn ==
    \A n \in Nodes : Aligns(n) =>
       /\ Cardinality(handler'[n].blocked) < Inputs(n)
       /\ handler'[n].blocked # {} => handler'[n].current # 0
       /\ \A u \in handler'[n].blocked : u \in DOMAIN sentAt[handler'[n].current]
       /\ handler'[n].current >= handler[n].current
       /\ handler'[n].current = handler[n].current /\ handler[n].blocked = {}
             => handler'[n].blocked = {}

LEMMA BarrierStep ==
    ASSUME FlowInv, NEW n \in Nodes, NextIsBarrier(n),
           handler' = [handler EXCEPT ![n] = HandlerAfter(n, Head(input[n]))]
    PROVE  /\ handler' \in [Nodes -> Handlers]
           /\ \A m \in Nodes : /\ handler'[m].blocked \subseteq Upstream[m]
                               /\ \A id \in CheckpointIds : handler'[m].counts[id] < Inputs(m)
           /\ KeepsWaiting /\ HandlersGoOn
           /\ handler'[n] = HandlerAfter(n, Head(input[n]))
  <1> DEFINE b == Head(input[n])
             g == HandlerAfter(n, b)
  <1>1. /\ input[n] # << >> /\ b \in Item /\ b.id # 0 /\ b.id \in CheckpointIds
        /\ b.from \in Upstream[n] /\ b.from \in DOMAIN sentAt[b.id]
        /\ b = input[n][1] /\ 1 \in DOMAIN input[n]
    BY HeadFacts DEF NextIsBarrier, IsBarrier
  <1>2. BarrierWaits(n, b.from, b.id)
    BY <1>1 DEF BarrierWaits
  <1> HIDE DEF b
  <1>3. /\ g \in Handlers /\ g.blocked \subseteq Upstream[n]
        /\ \A id \in CheckpointIds : g.counts[id] < Inputs(n)
        /\ Aligns(n) =>
             /\ Cardinality(g.blocked) < Inputs(n)
             /\ g.blocked # {} => g.current # 0
             /\ \A u \in g.blocked : u \in DOMAIN sentAt[g.current]
             /\ g.current >= handler[n].current
             /\ g.current = handler[n].current /\ handler[n].blocked = {} => g.blocked = {}
             /\ \A id \in CheckpointIds : \A u \in g.blocked :
                   g.current = id =>
                      \/ handler[n].current = id /\ u \in handler[n].blocked
                      \/ b.from = u /\ b.id = id
    BY <1>1, BarrierHandled
  <1>4. handler' = [handler EXCEPT ![n] = g] /\ handler \in [Nodes -> Handlers]
    BY DEF b, FlowInv, ShapeInv
  <1> HIDE DEF g
  <1>5. handler' \in [Nodes -> Handlers] /\ handler'[n] = g
        /\ \A m \in Nodes : m # n => handler'[m] = handler[m]
    BY <1>3, <1>4
  <1>6. \A m \in Nodes : /\ handler'[m].blocked \subseteq Upstream[m]
                         /\ \A id \in CheckpointIds : handler'[m].counts[id] < Inputs(m)
    BY <1>3, <1>5 DEF FlowInv, ShapeInv
  <1>7. KeepsWaiting
    BY <1>2, <1>3, <1>5 DEF KeepsWaiting
  <1>8. HandlersGoOn
    <2>1. \A m \in Nodes : handler[m].current \in Nat
      <3>1. \A id \in CheckpointIds : id \in Nat
        BY CheckpointIdsAssumption
      <3>2. \A m \in Nodes : handler[m].current \in CheckpointIds \cup {0}
        BY <1>4 DEF Handlers
      <3> QED BY <3>1, <3>2
    <2> SUFFICES ASSUME NEW m \in Nodes, Aligns(m)
                 PROVE  /\ Cardinality(handler'[m].blocked) < Inputs(m)
                        /\ handler'[m].blocked # {} => handler'[m].current # 0
                        /\ \A u \in handler'[m].blocked : u \in DOMAIN sentAt[handler'[m].current]
                        /\ handler'[m].current >= handler[m].current
                        /\ handler'[m].current = handler[m].current /\ handler[m].blocked = {}
                              => handler'[m].blocked = {}
      BY DEF HandlersGoOn
    <2>2. CASE m = n
      BY <1>3, <1>5, <2>2
    <2>3. CASE m # n
      BY <1>5, <2>1, <2>3 DEF FlowInv, AlignerInv
    <2> QED BY <2>2, <2>3
  <1> QED BY <1>5, <1>6, <1>7, <1>8 DEF g, b

\* A node that goes on does not come back to a checkpoint it has been triggered for.
LEMMA NothingComesBack ==
    ASSUME FlowInv, handler' \in [Nodes -> Handlers], HandlersGoOn,
           \A m \in Nodes : handler'[m].blocked \subseteq Upstream[m],
           \A id \in CheckpointIds : DOMAIN sentAt[id] \subseteq DOMAIN sentAt'[id],
           \A m \in Nodes : Aligns(m) => \A id \in CheckpointIds :
              m \in DOMAIN sentAt'[id] =>
                 \/ m \in DOMAIN sentAt[id]
                 \/ handler'[m].current = id /\ handler'[m].blocked = {}
    PROVE  AlignerInv'
  <1>1. \A m \in Nodes : /\ handler[m].current \in CheckpointIds \cup {0}
                         /\ handler'[m].current \in CheckpointIds \cup {0}
    BY DEF FlowInv, ShapeInv, Handlers
  <1>2. \A id \in CheckpointIds : id \in Nat
    BY CheckpointIdsAssumption
  <1>3. \A m \in Nodes : handler[m].current \in Nat /\ handler'[m].current \in Nat
    BY <1>1, <1>2
  <1> SUFFICES ASSUME NEW n \in Nodes, Aligns(n)
               PROVE  /\ handler'[n].blocked \subseteq Upstream[n]
                      /\ Cardinality(handler'[n].blocked) < Inputs(n)
                      /\ handler'[n].blocked # {} => handler'[n].current # 0
                      /\ \A u \in handler'[n].blocked : u \in DOMAIN sentAt'[handler'[n].current]
                      /\ \A id \in CheckpointIds : n \in DOMAIN sentAt'[id] =>
                            /\ handler'[n].current >= id
                            /\ handler'[n].current = id => handler'[n].blocked = {}
    BY DEF AlignerInv, Aligns
  <1>4. /\ Cardinality(handler'[n].blocked) < Inputs(n)
        /\ handler'[n].blocked # {} => handler'[n].current # 0
        /\ \A u \in handler'[n].blocked : u \in DOMAIN sentAt[handler'[n].current]
        /\ handler'[n].current >= handler[n].current
        /\ handler'[n].current = handler[n].current /\ handler[n].blocked = {}
              => handler'[n].blocked = {}
    BY DEF HandlersGoOn
  <1>5. \A u \in handler'[n].blocked : u \in DOMAIN sentAt'[handler'[n].current]
    BY <1>1, <1>4
  <1>6. ASSUME NEW id \in CheckpointIds, n \in DOMAIN sentAt'[id]
        PROVE  /\ handler'[n].current >= id
               /\ handler'[n].current = id => handler'[n].blocked = {}
    <2>1. CASE n \in DOMAIN sentAt[id]
      <3>1. handler[n].current >= id /\ (handler[n].current = id => handler[n].blocked = {})
        BY <2>1 DEF FlowInv, AlignerInv
      <3> QED BY <1>2, <1>3, <1>4, <3>1
    <2>2. CASE handler'[n].current = id /\ handler'[n].blocked = {}
      BY <1>2, <2>2
    <2> QED BY <1>6, <2>1, <2>2
  <1> QED BY <1>4, <1>5, <1>6

LEMMA CountBarrierFlow ==
    ASSUME FlowInv, NEW n \in Nodes, CountBarrier(n)
    PROVE  FlowInv' /\ Grows /\ Delivered({}) /\ KeepsWaiting
  <1>1. /\ handler' \in [Nodes -> Handlers]
        /\ \A m \in Nodes : /\ handler'[m].blocked \subseteq Upstream[m]
                            /\ \A id \in CheckpointIds : handler'[m].counts[id] < Inputs(m)
        /\ KeepsWaiting /\ HandlersGoOn
    BY BarrierStep DEF CountBarrier
  <1>2. /\ input' \in [Nodes -> Seq(Item)] /\ Delivered({})
        /\ \A m \in Nodes : Len(input'[m]) <= BufferLength
    BY PopOnly DEF FlowInv, CountBarrier, NextIsBarrier
  <1>3. Grows
    BY DEF CountBarrier, Grows, SentBy, Emitted, history
  <1>4. ShapeInv'
    BY <1>1, <1>2 DEF FlowInv, ShapeInv, CountBarrier, history
  <1>5. ChannelInv'
    BY <1>2, <1>3, ChannelStep DEF FlowInv
  <1>6. TriggerInv'
    BY DEF FlowInv, TriggerInv, CountBarrier, history
  <1>7. AlignerInv'
    <2>1. sentAt' = sentAt
      BY DEF CountBarrier, history
    <2> QED BY <1>1, <2>1, NothingComesBack DEF FlowInv
  <1> QED BY <1>1, <1>2, <1>3, <1>4, <1>5, <1>6, <1>7 DEF FlowInv

\* A barrier of n goes on record when n is triggered.
LEMMA TriggerNodeFacts ==
    ASSUME FlowInv, NEW n \in Nodes, TriggerNode(n)
    PROVE  LET b == Head(input[n])
           IN  /\ input[n] # << >> /\ b \in Item /\ b.id # 0 /\ b.id \in CheckpointIds
               /\ b.from \in Upstream[n] /\ b.from \in DOMAIN sentAt[b.id]
               /\ BarrierWaits(n, b.from, b.id)
               /\ DOMAIN sentAt' = CheckpointIds /\ DOMAIN tookAt' = CheckpointIds
               /\ sentAt'[b.id] = With(sentAt[b.id], n, state[n])
               /\ tookAt'[b.id] = With(tookAt[b.id], n, state[n])
               /\ \A id \in CheckpointIds : id # b.id =>
                     sentAt'[id] = sentAt[id] /\ tookAt'[id] = tookAt[id]
               /\ Aligns(n) =>
                     /\ n \notin DOMAIN sentAt[b.id]
                     /\ handler'[n].current = b.id /\ handler'[n].blocked = {}
                     /\ \A u \in Upstream[n] : u = b.from \/
                           (handler[n].current = b.id /\ u \in handler[n].blocked)
  <1> DEFINE b == Head(input[n])
  <1>1. /\ input[n] # << >> /\ b \in Item /\ b.id # 0 /\ b.id \in CheckpointIds
        /\ b.from \in Upstream[n] /\ b.from \in DOMAIN sentAt[b.id]
        /\ b = input[n][1] /\ 1 \in DOMAIN input[n] /\ Triggers(n, b)
    BY HeadFacts DEF TriggerNode, NextIsBarrier, IsBarrier
  <1>2. /\ sentAt' = [sentAt EXCEPT ![b.id] = With(@, n, state[n])]
        /\ tookAt' = [tookAt EXCEPT ![b.id] = With(@, n, state[n])]
        /\ handler'[n] = HandlerAfter(n, b)
    BY BarrierStep DEF TriggerNode
  <1> HIDE DEF b
  <1>3. BarrierWaits(n, b.from, b.id)
    BY <1>1 DEF BarrierWaits
  <1>4. /\ DOMAIN sentAt' = CheckpointIds /\ DOMAIN tookAt' = CheckpointIds
        /\ sentAt'[b.id] = With(sentAt[b.id], n, state[n])
        /\ tookAt'[b.id] = With(tookAt[b.id], n, state[n])
        /\ \A id \in CheckpointIds : id # b.id =>
              sentAt'[id] = sentAt[id] /\ tookAt'[id] = tookAt[id]
    BY <1>1, <1>2 DEF FlowInv, ShapeInv
  <1>5. ASSUME Aligns(n)
        PROVE  /\ n \notin DOMAIN sentAt[b.id]
               /\ handler'[n].current = b.id /\ handler'[n].blocked = {}
               /\ \A u \in Upstream[n] : u = b.from \/
                     (handler[n].current = b.id /\ u \in handler[n].blocked)
    <2>1. LET h == handler[n]
              g == HandlerAfter(n, b)
          IN  /\ g.current = b.id /\ g.blocked = {}
              /\ h.current <= b.id
              /\ h.current = b.id => h.blocked # {}
              /\ \A u \in Upstream[n] : u = b.from \/ (h.current = b.id /\ u \in h.blocked)
      BY <1>1, <1>5, BarrierHandled
    <2>2. n \in DOMAIN sentAt[b.id] =>
             handler[n].current >= b.id /\ (handler[n].current = b.id => handler[n].blocked = {})
      BY <1>1, <1>5 DEF FlowInv, AlignerInv
    <2>3. b.id \in Nat /\ handler[n].current \in Nat
      <3>1. \A id \in CheckpointIds : id \in Nat
        BY CheckpointIdsAssumption
      <3>2. handler[n].current \in CheckpointIds \cup {0}
        BY DEF FlowInv, ShapeInv, Handlers
      <3> QED BY <1>1, <3>1, <3>2
    <2> QED BY <1>2, <2>1, <2>2, <2>3
  <1> QED BY <1>1, <1>3, <1>4, <1>5 DEF b

LEMMA TriggerNodeFlow ==
    ASSUME FlowInv, NEW n \in Nodes, TriggerNode(n)
    PROVE  /\ FlowInv' /\ Grows /\ KeepsWaiting
           /\ Delivered(IF n \in Ops THEN {Barrier(n, Head(input[n]).id)} ELSE {})
  <1> DEFINE id == Head(input[n]).id
             item == Barrier(n, id)
             items == IF n \in Ops THEN {item} ELSE {}
  <1>1. /\ input[n] # << >> /\ id # 0 /\ id \in CheckpointIds
        /\ DOMAIN sentAt' = CheckpointIds /\ DOMAIN tookAt' = CheckpointIds
        /\ sentAt'[id] = With(sentAt[id], n, state[n])
        /\ tookAt'[id] = With(tookAt[id], n, state[n])
        /\ \A i \in CheckpointIds : i # id => sentAt'[i] = sentAt[i] /\ tookAt'[i] = tookAt[i]
        /\ Aligns(n) => handler'[n].current = id /\ handler'[n].blocked = {}
    BY TriggerNodeFacts
  <1>2. /\ handler' \in [Nodes -> Handlers]
        /\ \A m \in Nodes : /\ handler'[m].blocked \subseteq Upstream[m]
                            /\ \A i \in CheckpointIds : handler'[m].counts[i] < Inputs(m)
        /\ KeepsWaiting /\ HandlersGoOn
    BY BarrierStep DEF TriggerNode
  <1>3. PICK receivers \in Reaches(n) :
           input' = Sent([input EXCEPT ![n] = Tail(@)], item, receivers)
    BY DEF TriggerNode
  <1> HIDE DEF id
  <1>4. n \in Ops => item \in Item /\ item.from = n /\ item.id = id
    BY <1>1, ItemFacts
  <1> HIDE DEF item
  <1>5. /\ input' \in [Nodes -> Seq(Item)] /\ Delivered(items)
        /\ \A m \in Nodes : Len(input'[m]) <= BufferLength
    BY <1>1, <1>3, <1>4, NodeSends DEF FlowInv
  <1>6. /\ DOMAIN sentAt'[id] = DOMAIN sentAt[id] \cup {n}
        /\ DOMAIN tookAt'[id] = DOMAIN tookAt[id] \cup {n}
    BY <1>1 DEF With
  <1>7. Grows
    BY <1>1, <1>6 DEF Grows, SentBy, Emitted, TriggerNode
  <1>8. \A x \in items : x \in Item /\ Sends(x)
    BY <1>1, <1>4, <1>6 DEF Sends
  <1> HIDE DEF items
  <1>9. ShapeInv'
    <2>1. \A i \in CheckpointIds : DOMAIN tookAt'[i] \subseteq Tasks
      BY <1>1, <1>6 DEF FlowInv, ShapeInv, Tasks
    <2> QED BY <1>1, <1>2, <1>5, <2>1 DEF FlowInv, ShapeInv, TriggerNode
  <1>10. ChannelInv'
    BY <1>5, <1>7, <1>8, ChannelStep DEF FlowInv
  <1>11. TriggerInv'
    <2>1. n \notin Sources
      BY TopologyAssumption
    <2>2. \A i \in CheckpointIds : DOMAIN sentAt'[i] \cap Sources = DOMAIN sentAt[i] \cap Sources
      BY <1>1, <1>6, <2>1
    <2>3. \A g \in triggers : g.task \in Sources /\ g.id \in CheckpointIds
      BY DEF FlowInv, ShapeInv
    <2>4. triggers' = triggers /\ begun' = begun
      BY DEF TriggerNode
    <2>5. \A g \in triggers : g.pc = "send" => g.task \notin DOMAIN sentAt'[g.id]
      BY <2>2, <2>3 DEF FlowInv, TriggerInv
    <2>6. \A i \in CheckpointIds \ begun : DOMAIN sentAt'[i] \cap Sources = {}
      BY <2>2 DEF FlowInv, TriggerInv
    <2> QED BY <2>4, <2>5, <2>6 DEF TriggerInv
  <1>12. AlignerInv'
    <2>1. \A m \in Nodes : Aligns(m) => \A i \in CheckpointIds :
             m \in DOMAIN sentAt'[i] =>
                \/ m \in DOMAIN sentAt[i]
                \/ handler'[m].current = i /\ handler'[m].blocked = {}
      BY <1>1, <1>6
    <2>2. /\ handler' \in [Nodes -> Handlers] /\ HandlersGoOn
          /\ \A m \in Nodes : handler'[m].blocked \subseteq Upstream[m]
      BY <1>2
    <2>3. \A i \in CheckpointIds : DOMAIN sentAt[i] \subseteq DOMAIN sentAt'[i]
      BY <1>7 DEF Grows
    <2> QED BY <2>1, <2>2, <2>3, NothingComesBack
  <1> QED BY <1>2, <1>5, <1>7, <1>9, <1>10, <1>11, <1>12 DEF FlowInv, items, item, id

-----------------------------------------------------------------------------
(* Types                                                                   *)

\* A step that touches no more than the context.
LEMMA QuietFlow ==
    ASSUME FlowInv, cancelled' \in BOOLEAN,
           UNCHANGED <<offset, sending, input, handler, state, begun, triggers, history>>
    PROVE  FlowInv' /\ Grows /\ Delivered({})
  <1>1. Grows
    BY DEF Grows, SentBy, Emitted, history
  <1>2. Delivered({})
    BY NothingSent DEF FlowInv
  <1>3. ShapeInv'
    BY DEF FlowInv, ShapeInv, history
  <1>4. ChannelInv'
    BY <1>1, <1>2, <1>3, ChannelStep DEF FlowInv, ShapeInv
  <1>5. TriggerInv' /\ AlignerInv'
    BY DEF FlowInv, TriggerInv, AlignerInv, history
  <1> QED BY <1>1, <1>2, <1>3, <1>4, <1>5 DEF FlowInv

LEMMA FlowInvHolds == FlowSpec => []FlowInv
  <1>1. FlowInit => FlowInv
    <2> SUFFICES ASSUME FlowInit PROVE FlowInv
      OBVIOUS
    <2>1. \A n \in Nodes : /\ Inputs(n) \in Nat /\ 0 < Inputs(n)
                           /\ handler[n] = NewHandler /\ input[n] = << >>
      BY InputsFacts DEF FlowInit
    <2>0. /\ NewHandler.blocked = {} /\ NewHandler.current = 0
          /\ \A id \in CheckpointIds : NewHandler.counts[id] = 0
      BY DEF NewHandler
    <2>2. Empty = << >> /\ DOMAIN Empty = {}
      BY DEF Empty
    <2>3. ShapeInv
      <3>1. input \in [Nodes -> Seq(Item)] /\ \A n \in Nodes : Len(input[n]) <= BufferLength
        BY TopologyAssumption DEF FlowInit
      <3>2. /\ handler \in [Nodes -> Handlers]
            /\ \A n \in Nodes : /\ handler[n].blocked \subseteq Upstream[n]
                                /\ \A id \in CheckpointIds : handler[n].counts[id] < Inputs(n)
        BY <2>1, <2>0, NewHandlerType DEF FlowInit
      <3>3. offset \in [Sources -> 0 .. MaxEvents]
        BY TopologyAssumption DEF FlowInit
      <3> QED BY <2>2, <3>1, <3>2, <3>3 DEF FlowInit, ShapeInv
    <2>4. ChannelInv
      BY <2>1 DEF ChannelInv
    <2>5. TriggerInv
      BY <2>2 DEF FlowInit, TriggerInv
    <2>6. AlignerInv
      <3>1. Cardinality({}) = 0
        BY FS_EmptySet
      <3>2. \A id \in CheckpointIds : DOMAIN sentAt[id] = {}
        BY <2>2 DEF FlowInit
      <3> QED BY <2>1, <2>0, <3>1, <3>2 DEF AlignerInv
    <2> QED BY <2>3, <2>4, <2>5, <2>6 DEF FlowInv
  <1>2. FlowInv /\ [FlowNext]_flowVars => FlowInv'
    <2> SUFFICES ASSUME FlowInv, [FlowNext]_flowVars PROVE FlowInv'
      OBVIOUS
    <2>1. ASSUME NEW s \in Sources, SourceStep(s) PROVE FlowInv'
      BY <2>1, IngestFlow, UpdateStateFlow DEF SourceStep
    <2>2. ASSUME NEW id \in CheckpointIds \ begun, Begin(id) PROVE FlowInv'
      BY <2>2, BeginFlow
    <2>3. ASSUME NEW g \in triggers, TriggerStep(g) PROVE FlowInv'
      BY <2>3, SendBarrierFlow, TakeSnapshotFlow DEF TriggerStep
    <2>4. ASSUME NEW n \in Nodes, NodeStep(n) PROVE FlowInv'
      BY <2>4, WithholdFlow, ProcessFlow, CountBarrierFlow, TriggerNodeFlow DEF NodeStep
    <2>5. CASE CancelContext
      BY <2>5, QuietFlow DEF CancelContext
    <2>6. CASE UNCHANGED flowVars
      BY <2>6, QuietFlow DEF flowVars, FlowInv, ShapeInv
    <2> QED BY <2>1, <2>2, <2>3, <2>4, <2>5, <2>6 DEF FlowNext
  <1> QED BY <1>1, <1>2, PTL DEF FlowSpec

\* In any rule without an empty join every variable of the tasks, the channels and the
\* handlers has the values its counterpart can have: no channel is over its capacity,
\* no item is out of nowhere, and no count of barriers reaches the number of inputs
\* (BarrierTracker.processBarrier).
THEOREM FlowTypeCorrect == FlowSpec => []FlowTypeOK
  <1>1. FlowInv => FlowTypeOK
    <2> SUFFICES ASSUME FlowInv PROVE FlowTypeOK
      OBVIOUS
    <2>1. ASSUME NEW n \in Nodes
          PROVE  /\ Len(input[n]) <= BufferLength /\ Range(input[n]) \subseteq Item
                 /\ handler[n].counts \in [CheckpointIds -> 0 .. Inputs(n) - 1]
                 /\ handler[n].current \in CheckpointIds \cup {0}
                 /\ handler[n].blocked \subseteq Upstream[n]
                 /\ Range(handler[n].buffer) \subseteq Item
      <3>1. input[n] \in Seq(Item) /\ Len(input[n]) <= BufferLength /\ handler[n] \in Handlers
            /\ handler[n].blocked \subseteq Upstream[n]
            /\ \A id \in CheckpointIds : handler[n].counts[id] < Inputs(n)
        BY DEF FlowInv, ShapeInv
      <3>2. Range(input[n]) \subseteq Item
        BY <3>1 DEF Range
      <3>3. handler[n].buffer \in Seq(Item) /\ handler[n].counts \in [CheckpointIds -> Nat]
            /\ handler[n].current \in CheckpointIds \cup {0}
        BY <3>1 DEF Handlers
      <3>4. Range(handler[n].buffer) \subseteq Item
        BY <3>3 DEF Range
      <3>5. handler[n].counts \in [CheckpointIds -> 0 .. Inputs(n) - 1]
        BY <3>1, <3>3, InputsFacts
      <3> QED BY <3>1, <3>2, <3>3, <3>4, <3>5
    <2> QED BY <2>1 DEF FlowInv, ShapeInv, FlowTypeOK
  <1> QED BY <1>1, FlowInvHolds, PTL

-----------------------------------------------------------------------------
(* A barrier of a checkpoint is sent once, and a node triggered once       *)

\* What a task had sent before a barrier stays on record as it is.
OnRecord ==
    \A id \in CheckpointIds : \A u \in Sources \cup Ops :
       u \in DOMAIN sentAt[id] =>
          u \in DOMAIN sentAt'[id] /\ sentAt'[id][u] = sentAt[id][u]

\* What is new on record is what the task has sent.
Recorded ==
    \A id \in CheckpointIds : \A u \in Sources \cup Ops :
       u \in DOMAIN sentAt'[id] /\ u \notin DOMAIN sentAt[id] => sentAt'[id][u] = SentBy[u]

\* A barrier that is sent is new on record.
Fresh(items) ==
    \A item \in items : item.id # 0 =>
       /\ item.from \in Sources \cup Ops /\ item.id \in CheckpointIds
       /\ item.from \notin DOMAIN sentAt[item.id] /\ item.from \in DOMAIN sentAt'[item.id]

\* The upstreams whose barrier of id a node has taken from its channel.
Consumed(n, id) == {u \in Upstream[n] : u \in DOMAIN sentAt[id] /\ ~BarrierWaits(n, u, id)}

UniqueInv ==
    \A n \in Nodes : \A i, j \in DOMAIN input[n] :
       input[n][i].id # 0 /\ input[n][i].id = input[n][j].id
          /\ input[n][i].from = input[n][j].from => i = j

\* A tracker counts no more than what it has been given.
CountsInv ==
    \A n \in Nodes : ~Aligns(n) => \A id \in CheckpointIds :
       handler[n].counts[id] <= Cardinality(Consumed(n, id))

\* A node with a tracker is triggered by the last of the barriers.
DoneInv ==
    \A n \in Nodes : ~Aligns(n) => \A id \in CheckpointIds :
       n \in DOMAIN sentAt[id] => Consumed(n, id) = Upstream[n]

\* A task takes one snapshot of a checkpoint.
TakenInv ==
    /\ \A id \in CheckpointIds : \A n \in Nodes :
          n \in DOMAIN tookAt[id] => n \in DOMAIN sentAt[id]
    /\ \A g \in triggers : g.task \notin DOMAIN tookAt[g.id]
    /\ \A g, h \in triggers : g.task = h.task /\ g.id = h.id => g = h
    /\ \A id \in CheckpointIds \ begun : DOMAIN tookAt[id] \cap Sources = {}

OnceInv == FlowInv /\ UniqueInv /\ CountsInv /\ DoneInv /\ TakenInv

LEMMA TriggeredOnce ==
    ASSUME OnceInv, NEW n \in Nodes, TriggerNode(n)
    PROVE  n \notin DOMAIN sentAt[Head(input[n]).id]
  <1>1. LET b == Head(input[n])
        IN  /\ b.id \in CheckpointIds /\ b.from \in Upstream[n]
            /\ BarrierWaits(n, b.from, b.id)
            /\ Aligns(n) => n \notin DOMAIN sentAt[b.id]
    BY TriggerNodeFacts DEF OnceInv
  <1> QED BY <1>1 DEF OnceInv, DoneInv, Consumed

LEMMA TriggerRecords ==
    ASSUME OnceInv, NEW n \in Nodes, TriggerNode(n)
    PROVE  /\ OnRecord /\ Recorded
           /\ Fresh(IF n \in Ops THEN {Barrier(n, Head(input[n]).id)} ELSE {})
  <1> DEFINE id == Head(input[n]).id
             item == Barrier(n, id)
  <1>1. /\ id \in CheckpointIds
        /\ sentAt'[id] = With(sentAt[id], n, state[n])
        /\ \A i \in CheckpointIds : i # id => sentAt'[i] = sentAt[i]
    BY TriggerNodeFacts DEF OnceInv
  <1>2. n \notin DOMAIN sentAt[id]
    BY TriggeredOnce
  <1> HIDE DEF id
  <1>3. n \in Ops => item.from = n /\ item.id = id
    BY <1>1, ItemFacts
  <1> HIDE DEF item
  <1>4. /\ DOMAIN sentAt'[id] = DOMAIN sentAt[id] \cup {n} /\ sentAt'[id][n] = state[n]
        /\ \A u \in DOMAIN sentAt[id] : u # n => sentAt'[id][u] = sentAt[id][u]
    BY <1>1 DEF With
  <1>5. n \notin Sources
    BY TopologyAssumption
  <1>6. OnRecord
    BY <1>1, <1>2, <1>4 DEF OnRecord
  <1>7. Recorded
    BY <1>1, <1>4, <1>5 DEF Recorded, SentBy
  <1>8. Fresh(IF n \in Ops THEN {item} ELSE {})
    BY <1>1, <1>2, <1>3, <1>4 DEF Fresh
  <1> QED BY <1>6, <1>7, <1>8 DEF item, id

LEMMA SourceRecords ==
    ASSUME FlowInv, NEW g \in triggers, SendBarrier(g)
    PROVE  OnRecord /\ Recorded /\ Fresh({Barrier(g.task, g.id)})
  <1> DEFINE item == Barrier(g.task, g.id)
  <1>1. /\ g.task \in Sources /\ g.id \in CheckpointIds
        /\ g.task \notin DOMAIN sentAt[g.id]
    BY SendBarrierFlow
  <1>2. item.from = g.task /\ item.id = g.id
    BY <1>1, ItemFacts
  <1> HIDE DEF item
  <1>3. sentAt' = [sentAt EXCEPT ![g.id] = With(@, g.task, Emitted(g.task))]
    BY DEF SendBarrier
  <1>4. /\ sentAt'[g.id] = With(sentAt[g.id], g.task, Emitted(g.task))
        /\ \A id \in CheckpointIds : id # g.id => sentAt'[id] = sentAt[id]
    BY <1>1, <1>3 DEF FlowInv, ShapeInv
  <1>5. /\ DOMAIN sentAt'[g.id] = DOMAIN sentAt[g.id] \cup {g.task}
        /\ sentAt'[g.id][g.task] = Emitted(g.task)
        /\ \A u \in DOMAIN sentAt[g.id] : u # g.task => sentAt'[g.id][u] = sentAt[g.id][u]
    BY <1>4 DEF With
  <1>6. OnRecord
    BY <1>1, <1>4, <1>5 DEF OnRecord
  <1>7. Recorded
    BY <1>1, <1>4, <1>5 DEF Recorded, SentBy
  <1>8. Fresh({item})
    BY <1>1, <1>2, <1>5 DEF Fresh
  <1> QED BY <1>6, <1>7, <1>8 DEF item

\* A barrier that waits has waited or is new.
LEMMA WaitsStep ==
    ASSUME ShapeInv, input' \in [Nodes -> Seq(Item)], NEW items, Delivered(items),
           Fresh(items), NEW n \in Nodes, NEW u, NEW id \in CheckpointIds,
           BarrierWaits(n, u, id)'
    PROVE  BarrierWaits(n, u, id) \/ u \notin DOMAIN sentAt[id]
  <1>1. PICK i \in DOMAIN input'[n] : input'[n][i].from = u /\ input'[n][i].id = id
    BY DEF BarrierWaits
  <1>2. \/ \E k \in DOMAIN input[n] : input'[n][i] = input[n][k]
        \/ input'[n][i] \in items
    BY DeliveredItems
  <1>3. id # 0
    BY CheckpointIdsAssumption
  <1> QED BY <1>1, <1>2, <1>3 DEF Fresh, BarrierWaits

LEMMA ConsumedStep ==
    ASSUME ShapeInv, input' \in [Nodes -> Seq(Item)], NEW items, Delivered(items),
           Fresh(items), Grows
    PROVE  \A n \in Nodes : \A id \in CheckpointIds : Consumed(n, id) \subseteq Consumed(n, id)'
  <1> SUFFICES ASSUME NEW n \in Nodes, NEW id \in CheckpointIds, NEW u \in Upstream[n],
                      u \in DOMAIN sentAt[id], ~BarrierWaits(n, u, id)
               PROVE  u \in DOMAIN sentAt'[id] /\ ~BarrierWaits(n, u, id)'
    BY DEF Consumed
  <1> QED BY WaitsStep DEF Grows

LEMMA UniqueStep ==
    ASSUME OnceInv, FlowInv', NEW items, Delivered(items), Fresh(items)
    PROVE  UniqueInv'
  <1>1. ASSUME NEW n \in Nodes, NEW i \in DOMAIN input'[n], NEW j \in DOMAIN input'[n],
               i < j, input'[n][i].id # 0, input'[n][i].id = input'[n][j].id,
               input'[n][i].from = input'[n][j].from
        PROVE  FALSE
    <2> DEFINE a == input'[n][i]
               b == input'[n][j]
    <2>1. PICK k \in DOMAIN input[n] :
             /\ a = input[n][k]
             /\ b \in items \/ \E l \in DOMAIN input[n] : k < l /\ b = input[n][l]
      <3>1. ShapeInv /\ input' \in [Nodes -> Seq(Item)]
        BY DEF OnceInv, FlowInv, ShapeInv
      <3>2. \E k \in DOMAIN input[n] :
               /\ input'[n][i] = input[n][k]
               /\ \/ input'[n][j] \in items
                  \/ \E l \in DOMAIN input[n] : k < l /\ input'[n][j] = input[n][l]
        BY <1>1, <3>1, DeliveredItems
      <3> QED BY <3>2
    <2>2. a.from \in DOMAIN sentAt[a.id]
      BY <1>1, <2>1 DEF OnceInv, FlowInv, ChannelInv
    <2>3. a.id # 0 /\ a.id = b.id /\ a.from = b.from
      BY <1>1
    <2> HIDE DEF a, b
    <2>4. CASE b \in items
      BY <2>2, <2>3, <2>4 DEF Fresh
    <2>5. CASE \E l \in DOMAIN input[n] : k < l /\ b = input[n][l]
      <3>1. PICK l \in DOMAIN input[n] : k < l /\ b = input[n][l]
        BY <2>5
      <3>2. k = l
        BY <2>1, <2>3, <3>1 DEF OnceInv, UniqueInv
      <3>3. k \in Nat
        BY DEF OnceInv, FlowInv, ShapeInv
      <3> QED BY <3>1, <3>2, <3>3
    <2> QED BY <2>1, <2>4, <2>5
  <1>2. \A n \in Nodes : \A i \in DOMAIN input'[n] : i \in Nat
    BY DEF FlowInv, ShapeInv
  <1>3. \A n \in Nodes : \A i, j \in DOMAIN input'[n] : i < j \/ j < i \/ i = j
    BY <1>2
  <1> QED BY <1>1, <1>3 DEF UniqueInv

LEMMA OnceStep ==
    ASSUME OnceInv, FlowInv', Grows, NEW items, Delivered(items), Fresh(items),
           TakenInv',
           \A n \in Nodes : ~Aligns(n) => \A id \in CheckpointIds :
              /\ \/ handler'[n].counts[id] <= handler[n].counts[id]
                 \/ handler'[n].counts[id] <= Cardinality(Consumed(n, id)')
              /\ n \in DOMAIN sentAt'[id] =>
                    n \in DOMAIN sentAt[id] \/ Consumed(n, id)' = Upstream[n]
    PROVE  OnceInv'
  <1>1. ShapeInv /\ input' \in [Nodes -> Seq(Item)] /\ handler' \in [Nodes -> Handlers]
    BY DEF OnceInv, FlowInv, ShapeInv
  <1>2. \A n \in Nodes : \A id \in CheckpointIds :
           /\ Consumed(n, id) \subseteq Consumed(n, id)'
           /\ Consumed(n, id)' \subseteq Upstream[n]
    BY <1>1, ConsumedStep DEF Consumed
  <1>3. CountsInv'
    <2> SUFFICES ASSUME NEW n \in Nodes, ~Aligns(n), NEW id \in CheckpointIds
                 PROVE  handler'[n].counts[id] <= Cardinality(Consumed(n, id)')
      BY DEF CountsInv, Aligns
    <2>1. /\ handler[n].counts[id] \in Nat /\ handler'[n].counts[id] \in Nat
      BY <1>1 DEF ShapeInv, Handlers
    <2>2. handler[n].counts[id] <= Cardinality(Consumed(n, id))
      BY DEF OnceInv, CountsInv
    <2> DEFINE C == Consumed(n, id)
               D == Consumed(n, id)'
    <2>3. C \subseteq D /\ IsFiniteSet(D) /\ IsFiniteSet(C)
      BY <1>2, InputsFacts
    <2> HIDE DEF C, D
    <2>4. Cardinality(C) <= Cardinality(D) /\ Cardinality(C) \in Nat /\ Cardinality(D) \in Nat
      BY <2>3, FS_Subset, FS_CardinalityType
    <2> QED BY <2>1, <2>2, <2>4 DEF C, D
  <1>4. DoneInv'
    BY <1>2 DEF OnceInv, DoneInv, Aligns
  <1> QED BY <1>3, <1>4, UniqueStep DEF OnceInv

\* The barrier that a node takes is the only one of its sender and checkpoint.
LEMMA TakenFacts ==
    ASSUME OnceInv, FlowInv', Grows, NEW n \in Nodes, NextIsBarrier(n), NEW items, Fresh(items),
           NEW u, NEW id, u = Head(input[n]).from, id = Head(input[n]).id,
           \A i \in DOMAIN input'[n] :
              \/ input'[n][i] \in items
              \/ \E k \in DOMAIN Tail(input[n]) : input'[n][i] = Tail(input[n])[k]
    PROVE  /\ id \in CheckpointIds /\ u \in Upstream[n]
           /\ u \notin Consumed(n, id) /\ u \in Consumed(n, id)'
  <1>1. /\ id # 0 /\ id \in CheckpointIds /\ u \in Upstream[n]
        /\ u \in DOMAIN sentAt[id] /\ 1 \in DOMAIN input[n]
        /\ input[n][1].from = u /\ input[n][1].id = id
    BY HeadFacts DEF OnceInv, NextIsBarrier, IsBarrier
  <1>2. \A k \in DOMAIN Tail(input[n]) :
           k \in Nat \ {0} /\ k + 1 \in DOMAIN input[n] /\ Tail(input[n])[k] = input[n][k + 1]
    <2>1. input[n] \in Seq(Item) /\ input[n] # << >>
      BY DEF OnceInv, FlowInv, ShapeInv, NextIsBarrier
    <2>2. Tail(input[n]) \in Seq(Item)
      BY <2>1
    <2>3. \A k \in DOMAIN Tail(input[n]) : k \in Nat \ {0}
      BY <2>2
    <2> QED BY <2>1, <2>3, TailFacts
  <1>3. u \notin Consumed(n, id)
    BY <1>1 DEF Consumed, BarrierWaits
  <1>4. ASSUME NEW i \in DOMAIN input'[n], input'[n][i].from = u, input'[n][i].id = id
        PROVE  FALSE
    <2>1. CASE input'[n][i] \in items
      BY <1>1, <1>4, <2>1 DEF Fresh
    <2>2. CASE \E k \in DOMAIN Tail(input[n]) : input'[n][i] = Tail(input[n])[k]
      <3>1. PICK k \in DOMAIN Tail(input[n]) : input'[n][i] = Tail(input[n])[k]
        BY <2>2
      <3>2. k \in Nat \ {0} /\ k + 1 \in DOMAIN input[n] /\ input'[n][i] = input[n][k + 1]
        BY <1>2, <3>1
      <3>3. k + 1 = 1
        BY <1>1, <1>4, <3>2 DEF OnceInv, UniqueInv
      <3> QED BY <3>2, <3>3
    <2> QED BY <2>1, <2>2
  <1>5. u \in DOMAIN sentAt'[id]
    BY <1>1 DEF Grows
  <1>6. u \in Consumed(n, id)'
    BY <1>1, <1>4, <1>5 DEF Consumed, BarrierWaits
  <1> QED BY <1>1, <1>3, <1>6

\* A node that is not in a step keeps its handler.
LEMMA OthersKeep ==
    ASSUME FlowInv, NEW n \in Nodes, NEW h, handler' = [handler EXCEPT ![n] = h]
    PROVE  \A m \in Nodes : m # n => handler'[m] = handler[m]
  BY DEF FlowInv, ShapeInv

\* One more element is one more.
LEMMA CardinalityFacts ==
    ASSUME NEW n \in Nodes, NEW C \in SUBSET Upstream[n], NEW D \in SUBSET Upstream[n],
           C \subseteq D, NEW u \in D, u \notin C
    PROVE  /\ Cardinality(C) \in Nat /\ Cardinality(D) \in Nat
           /\ Cardinality(C) + 1 <= Cardinality(D)
  <1>1. IsFiniteSet(C) /\ IsFiniteSet(D)
    BY InputsFacts
  <1>2. Cardinality(C \cup {u}) = Cardinality(C) + 1
    BY <1>1, FS_AddElement
  <1>3. Cardinality(C \cup {u}) <= Cardinality(D)
    <2>1. C \cup {u} \subseteq D
      OBVIOUS
    <2> QED BY <1>1, <2>1, FS_Subset
  <1> QED BY <1>1, <1>2, <1>3, FS_CardinalityType

LEMMA CountBarrierOnce ==
    ASSUME OnceInv, NEW n \in Nodes, CountBarrier(n)
    PROVE  OnceInv'
  <1> DEFINE b == Head(input[n])
  <1> SUFFICES ASSUME NEW u, NEW id, u = b.from, id = b.id
               PROVE  OnceInv'
    OBVIOUS
  <1>1. FlowInv' /\ Grows /\ Delivered({}) /\ Fresh({})
    BY CountBarrierFlow DEF OnceInv, Fresh
  <1>2. input'[n] = Tail(input[n]) /\ sentAt' = sentAt
    BY DEF CountBarrier, OnceInv, FlowInv, ShapeInv, history
  <1>3. /\ id \in CheckpointIds /\ u \in Upstream[n]
        /\ u \notin Consumed(n, id) /\ u \in Consumed(n, id)'
    BY <1>1, <1>2, TakenFacts DEF CountBarrier
  <1>4. /\ handler'[n] = HandlerAfter(n, b) /\ ~Triggers(n, b)
        /\ \A m \in Nodes : m # n => handler'[m] = handler[m]
    BY BarrierStep, OthersKeep DEF CountBarrier, OnceInv
  <1>5. /\ \A m \in Nodes : handler[m].counts \in [CheckpointIds -> Nat]
    BY DEF OnceInv, FlowInv, ShapeInv, Handlers
  <1> HIDE DEF b
  <1>6. ASSUME ~Aligns(n)
        PROVE  \A i \in CheckpointIds :
                  \/ handler'[n].counts[i] <= handler[n].counts[i]
                  \/ handler'[n].counts[i] <= Cardinality(Consumed(n, i)')
    <2>1. handler'[n] = [handler[n] EXCEPT !.counts[id] = @ + 1]
      BY <1>4, <1>6 DEF HandlerAfter, Triggers, Tracked
    <2>2. /\ handler'[n].counts[id] = handler[n].counts[id] + 1
          /\ \A i \in CheckpointIds : i # id => handler'[n].counts[i] = handler[n].counts[i]
      <3>1. handler[n] \in Handlers
        BY DEF OnceInv, FlowInv, ShapeInv
      <3> QED BY <1>3, <2>1, <3>1 DEF Handlers
    <2>3. handler[n].counts[id] <= Cardinality(Consumed(n, id))
      BY <1>3, <1>6 DEF OnceInv, CountsInv
    <2>4. handler[n].counts[id] + 1 <= Cardinality(Consumed(n, id)')
      <3> DEFINE C == Consumed(n, id)
                 D == Consumed(n, id)'
      <3>1. C \subseteq Upstream[n] /\ D \subseteq Upstream[n]
        BY DEF Consumed
      <3>2. C \subseteq D
        BY <1>1, <1>3, ConsumedStep DEF OnceInv, FlowInv, ShapeInv
      <3>3. u \in D /\ u \notin C
        BY <1>3
      <3> HIDE DEF C, D
      <3>4. /\ Cardinality(C) \in Nat /\ Cardinality(D) \in Nat
            /\ Cardinality(C) + 1 <= Cardinality(D)
        BY <3>1, <3>2, <3>3, CardinalityFacts
      <3>5. handler[n].counts[id] \in Nat
        BY <1>3, <1>5
      <3> QED BY <2>3, <3>4, <3>5 DEF C, D
    <2> QED BY <1>5, <2>2, <2>4
  <1>7. \A m \in Nodes : ~Aligns(m) => \A i \in CheckpointIds :
           \/ handler'[m].counts[i] <= handler[m].counts[i]
           \/ handler'[m].counts[i] <= Cardinality(Consumed(m, i)')
    BY <1>4, <1>5, <1>6
  <1>8. TakenInv'
    BY DEF OnceInv, TakenInv, CountBarrier, history
  <1> QED BY <1>1, <1>2, <1>7, <1>8, OnceStep

LEMMA TriggerNodeOnce ==
    ASSUME OnceInv, NEW n \in Nodes, TriggerNode(n)
    PROVE  OnceInv'
  <1> DEFINE b == Head(input[n])
             item == Barrier(n, b.id)
             items == IF n \in Ops THEN {item} ELSE {}
  <1> SUFFICES ASSUME NEW u, NEW id, u = b.from, id = b.id
               PROVE  OnceInv'
    OBVIOUS
  <1>1. FlowInv' /\ Grows /\ Delivered(items) /\ Fresh(items)
    BY TriggerNodeFlow, TriggerRecords DEF OnceInv
  <1>2. PICK receivers \in Reaches(n) :
           input' = Sent([input EXCEPT ![n] = Tail(@)], item, receivers)
    BY DEF TriggerNode
  <1>3. /\ input[n] # << >> /\ id \in CheckpointIds
        /\ DOMAIN sentAt' = CheckpointIds
        /\ sentAt'[id] = With(sentAt[id], n, state[n])
        /\ tookAt'[id] = With(tookAt[id], n, state[n])
        /\ \A i \in CheckpointIds : i # id => sentAt'[i] = sentAt[i] /\ tookAt'[i] = tookAt[i]
    BY TriggerNodeFacts DEF OnceInv
  <1>4. n \in Ops => item \in Item
    BY <1>3, ItemFacts
  <1>5. /\ handler'[n] = HandlerAfter(n, b) /\ Triggers(n, b) /\ NextIsBarrier(n)
        /\ \A m \in Nodes : m # n => handler'[m] = handler[m]
    BY BarrierStep, OthersKeep DEF TriggerNode, OnceInv
  <1> HIDE DEF item, b
  <1>6. \A i \in DOMAIN input'[n] :
           \/ input'[n][i] \in items
           \/ \E k \in DOMAIN Tail(input[n]) : input'[n][i] = Tail(input[n])[k]
    <2>1. input'[n] = IF n \in receivers THEN Enqueue(Tail(input[n]), item) ELSE Tail(input[n])
      BY <1>2 DEF Sent, OnceInv, FlowInv, ShapeInv
    <2>2. CASE n \notin receivers
      BY <2>1, <2>2
    <2>3. CASE n \in receivers
      <3>1. n \in Ops
        BY <2>3, InputsFacts, TopologyAssumption DEF Reaches, Downstream, Nodes
      <3>2. input[n] \in Seq(Item) /\ Len(input[n]) <= BufferLength
        BY DEF OnceInv, FlowInv, ShapeInv
      <3>3. Tail(input[n]) \in Seq(Item) /\ Len(Tail(input[n])) <= BufferLength
        BY <1>3, <3>2, TailFacts, TopologyAssumption
      <3>4. PartAnd(Enqueue(Tail(input[n]), item), Tail(input[n]), item)
            /\ Enqueue(Tail(input[n]), item) \in Seq(Item)
        BY <1>4, <3>1, <3>3, PartItself, EnqueueFacts
      <3>5. \A i \in DOMAIN Enqueue(Tail(input[n]), item) :
               i \in 1..Len(Enqueue(Tail(input[n]), item)) - 1
                  \/ i = Len(Enqueue(Tail(input[n]), item))
        BY <3>4
      <3> QED BY <2>1, <2>3, <3>1, <3>4, <3>5 DEF PartAnd
    <2> QED BY <2>2, <2>3
  <1>7. u \in Upstream[n] /\ u \notin Consumed(n, id) /\ u \in Consumed(n, id)'
    BY <1>1, <1>5, <1>6, TakenFacts DEF b
  <1>8. DOMAIN sentAt'[id] = DOMAIN sentAt[id] \cup {n}
        /\ DOMAIN tookAt'[id] = DOMAIN tookAt[id] \cup {n}
    BY <1>3 DEF With
  <1>9. ASSUME ~Aligns(n)
        PROVE  /\ \A i \in CheckpointIds :
                     \/ handler'[n].counts[i] <= handler[n].counts[i]
                     \/ handler'[n].counts[i] <= Cardinality(Consumed(n, i)')
               /\ Consumed(n, id)' = Upstream[n]
    <2>1. /\ handler[n] \in Handlers
          /\ handler[n].counts[id] <= Cardinality(Consumed(n, id))
      BY <1>3, <1>9 DEF OnceInv, FlowInv, ShapeInv, CountsInv
    <2>2. TrackerTriggers(handler[n], Inputs(n), b) /\ handler'[n] = Tracked(handler[n], Inputs(n), b)
      BY <1>5, <1>9 DEF HandlerAfter, Triggers
    <2>3. \A i \in CheckpointIds : handler'[n].counts[i] =
             IF Inputs(n) > 1 /\ i <= id THEN 0 ELSE handler[n].counts[i]
      BY <2>1, <2>2 DEF Tracked, Handlers
    <2>4. \A i \in CheckpointIds : handler'[n].counts[i] <= handler[n].counts[i]
      BY <2>1, <2>3 DEF Handlers
    <2> DEFINE C == Consumed(n, id)
               D == Consumed(n, id)'
    <2>5. C \subseteq Upstream[n] /\ D \subseteq Upstream[n]
      BY DEF Consumed
    <2>6. C \subseteq D
      BY <1>1, <1>3, ConsumedStep DEF OnceInv, FlowInv, ShapeInv
    <2>7. u \in D /\ u \notin C
      BY <1>7
    <2>8. handler[n].counts[id] <= Cardinality(C) /\ handler[n].counts[id] \in Nat
      BY <1>3, <2>1 DEF Handlers
    <2>9. Inputs(n) = 1 \/ handler[n].counts[id] + 1 = Inputs(n)
      BY <2>2 DEF TrackerTriggers
    <2> HIDE DEF C, D
    <2>10. /\ Cardinality(C) \in Nat /\ Cardinality(D) \in Nat
           /\ Cardinality(C) + 1 <= Cardinality(D)
      BY <2>5, <2>6, <2>7, CardinalityFacts
    <2>11. Cardinality(D) <= Inputs(n) /\ (Cardinality(D) = Inputs(n) => D = Upstream[n])
      BY <2>5, InputsFacts
    <2>12. Inputs(n) \in Nat
      BY InputsFacts
    <2>13. D = Upstream[n]
      BY <2>8, <2>9, <2>10, <2>11, <2>12
    <2> QED BY <2>4, <2>13 DEF D
  <1>10. \A m \in Nodes : \A i \in CheckpointIds : handler[m].counts[i] \in Nat
    BY DEF OnceInv, FlowInv, ShapeInv, Handlers
  <1>11. \A m \in Nodes : ~Aligns(m) => \A i \in CheckpointIds :
            /\ \/ handler'[m].counts[i] <= handler[m].counts[i]
               \/ handler'[m].counts[i] <= Cardinality(Consumed(m, i)')
            /\ m \in DOMAIN sentAt'[i] =>
                  m \in DOMAIN sentAt[i] \/ Consumed(m, i)' = Upstream[m]
    BY <1>3, <1>5, <1>8, <1>9, <1>10
  <1>12. TakenInv'
    <2>1. n \notin Sources
      BY TopologyAssumption
    <2>2. triggers' = triggers /\ begun' = begun
      BY DEF TriggerNode
    <2>3. \A g \in triggers : g.task \in Sources /\ g.id \in CheckpointIds
      BY DEF OnceInv, FlowInv, ShapeInv
    <2>4. \A i \in CheckpointIds : \A t : t \in DOMAIN tookAt'[i] =>
             t \in DOMAIN tookAt[i] \/ (t = n /\ i = id)
      BY <1>3, <1>8
    <2>5. \A i \in CheckpointIds : \A m \in Nodes :
             m \in DOMAIN tookAt'[i] => m \in DOMAIN sentAt'[i]
      BY <1>1, <1>8, <2>4 DEF OnceInv, TakenInv, Grows
    <2>6. \A g \in triggers : g.task \notin DOMAIN tookAt'[g.id]
      BY <2>1, <2>3, <2>4 DEF OnceInv, TakenInv
    <2>7. \A i \in CheckpointIds \ begun : DOMAIN tookAt'[i] \cap Sources = {}
      BY <2>1, <2>4 DEF OnceInv, TakenInv
    <2> QED BY <2>2, <2>5, <2>6, <2>7 DEF OnceInv, TakenInv
  <1> HIDE DEF items
  <1> QED BY <1>1, <1>11, <1>12, OnceStep

\* A step that handles no barrier.
LEMMA OtherOnce ==
    ASSUME OnceInv, FlowInv', Grows, NEW items, Delivered(items), Fresh(items), TakenInv',
           \A n \in Nodes : handler'[n].counts = handler[n].counts,
           \A n \in Nodes : \A id \in CheckpointIds :
              n \in DOMAIN sentAt'[id] => n \in DOMAIN sentAt[id]
    PROVE  OnceInv'
  <1>1. \A n \in Nodes : \A id \in CheckpointIds : handler[n].counts[id] \in Nat
    BY DEF OnceInv, FlowInv, ShapeInv, Handlers
  <1> QED BY <1>1, OnceStep

LEMMA SendBarrierOnce ==
    ASSUME OnceInv, NEW g \in triggers, SendBarrier(g)
    PROVE  OnceInv'
  <1>1. /\ FlowInv' /\ Grows /\ g.task \in Sources /\ g.id \in CheckpointIds
        /\ Delivered({Barrier(g.task, g.id)}) /\ Fresh({Barrier(g.task, g.id)})
    BY SendBarrierFlow, SourceRecords DEF OnceInv
  <1>2. \A n \in Nodes : \A id \in CheckpointIds :
           n \in DOMAIN sentAt'[id] => n \in DOMAIN sentAt[id]
    <2>1. sentAt' = [sentAt EXCEPT ![g.id] = With(@, g.task, Emitted(g.task))]
      BY DEF SendBarrier
    <2>2. \A n \in Nodes : n # g.task
      BY <1>1, TopologyAssumption
    <2>3. DOMAIN sentAt = CheckpointIds
      BY DEF OnceInv, FlowInv, ShapeInv
    <2> QED BY <1>1, <2>1, <2>2, <2>3 DEF With
  <1>3. TakenInv'
    <2> DEFINE h == [g EXCEPT !.pc = "snapshot"]
    <2>1. triggers' = (triggers \ {g}) \cup {h}
      BY DEF SendBarrier
    <2>2. h.task = g.task /\ h.id = g.id
      BY DEF OnceInv, FlowInv, ShapeInv
    <2> HIDE DEF h
    <2>3. tookAt' = tookAt /\ begun' = begun
      BY DEF SendBarrier
    <2>4. \A x \in triggers' : x.task \notin DOMAIN tookAt[x.id]
      BY <2>1, <2>2 DEF OnceInv, TakenInv
    <2>5. \A x, y \in triggers' : x.task = y.task /\ x.id = y.id => x = y
      BY <2>1, <2>2 DEF OnceInv, TakenInv
    <2> QED BY <1>1, <2>3, <2>4, <2>5 DEF OnceInv, TakenInv, Grows
  <1>4. handler' = handler
    BY DEF SendBarrier
  <1> QED BY <1>1, <1>2, <1>3, <1>4, OtherOnce

LEMMA TakeSnapshotOnce ==
    ASSUME OnceInv, NEW g \in triggers, TakeSnapshot(g)
    PROVE  OnceInv'
  <1>1. FlowInv' /\ Grows /\ Delivered({}) /\ Fresh({})
    BY TakeSnapshotFlow DEF OnceInv, Fresh
  <1>2. g.task \in Sources /\ g.id \in begun /\ g.id \in CheckpointIds
    BY DEF OnceInv, FlowInv, ShapeInv
  <1>3. TakenInv'
    <2>1. tookAt' = [tookAt EXCEPT ![g.id] = With(@, g.task, state[g.task])]
      BY DEF TakeSnapshot
    <2>2. \A id \in CheckpointIds : \A t : t \in DOMAIN tookAt'[id] =>
             t \in DOMAIN tookAt[id] \/ (t = g.task /\ id = g.id)
      BY <1>2, <2>1 DEF OnceInv, FlowInv, ShapeInv, With
    <2>3. g.task \notin Nodes
      BY <1>2, TopologyAssumption
    <2>4. triggers' = triggers \ {g} /\ begun' = begun /\ sentAt' = sentAt
      BY DEF TakeSnapshot
    <2>5. \A x \in triggers : x.id \in CheckpointIds
      BY DEF OnceInv, FlowInv, ShapeInv
    <2>6. \A x \in triggers' : x.task \notin DOMAIN tookAt'[x.id]
      BY <2>2, <2>4, <2>5 DEF OnceInv, TakenInv
    <2>7. \A id \in CheckpointIds \ begun : DOMAIN tookAt'[id] \cap Sources = {}
      BY <1>2, <2>2 DEF OnceInv, TakenInv
    <2>8. \A id \in CheckpointIds : \A n \in Nodes :
             n \in DOMAIN tookAt'[id] => n \in DOMAIN sentAt[id]
      BY <2>2, <2>3 DEF OnceInv, TakenInv
    <2> QED BY <2>4, <2>6, <2>7, <2>8 DEF OnceInv, TakenInv
  <1> QED BY <1>1, <1>3, OtherOnce DEF TakeSnapshot

LEMMA BeginOnce ==
    ASSUME OnceInv, NEW id \in CheckpointIds \ begun, Begin(id)
    PROVE  OnceInv'
  <1>1. FlowInv' /\ Grows /\ Delivered({}) /\ Fresh({})
    BY BeginFlow DEF OnceInv, Fresh
  <1>2. TakenInv'
    <2> DEFINE new == {[task |-> s, id |-> id, pc |-> "send"] : s \in Sources}
    <2>1. /\ triggers' = triggers \cup new /\ begun' = begun \cup {id}
          /\ tookAt' = tookAt /\ sentAt' = sentAt
      BY DEF Begin, history
    <2>2. \A g \in new : g.id = id /\ g.task \in Sources
      OBVIOUS
    <2>3. \A g, h \in new : g.task = h.task => g = h
      OBVIOUS
    <2>4. \A g \in triggers : g.id # id
      BY DEF OnceInv, FlowInv, ShapeInv
    <2> HIDE DEF new
    <2>5. \A g \in triggers' : g.task \notin DOMAIN tookAt[g.id]
      BY <2>1, <2>2 DEF OnceInv, TakenInv
    <2>6. \A g, h \in triggers' : g.task = h.task /\ g.id = h.id => g = h
      BY <2>1, <2>2, <2>3, <2>4 DEF OnceInv, TakenInv
    <2> QED BY <2>1, <2>5, <2>6 DEF OnceInv, TakenInv
  <1> QED BY <1>1, <1>2, OtherOnce DEF Begin, history

\* What a task did for a checkpoint it has not done yet.
TookOnce ==
    \A id \in CheckpointIds : \A t \in DOMAIN tookAt[id] :
       t \in DOMAIN tookAt'[id] /\ tookAt'[id][t] = tookAt[id][t]

LEMMA OnceInvStep ==
    ASSUME OnceInv, [FlowNext]_flowVars
    PROVE  OnceInv' /\ TookOnce
  <1>1. FlowInv
    BY DEF OnceInv
  <1>2. ASSUME NEW s \in Sources, SourceStep(s) PROVE OnceInv' /\ TookOnce
    <2>1. CASE Ingest(s)
      <3>1. PICK item \in Item : FlowInv' /\ Grows /\ item.id = 0 /\ Delivered({item})
        BY <1>1, <2>1, IngestFlow
      <3>2. Fresh({item})
        BY <3>1 DEF Fresh
      <3>3. TakenInv'
        BY <2>1 DEF OnceInv, TakenInv, Ingest, history
      <3> QED BY <2>1, <3>1, <3>2, <3>3, OtherOnce DEF Ingest, history, TookOnce
    <2>2. CASE UpdateState(s)
      <3>1. FlowInv' /\ Grows /\ Delivered({}) /\ Fresh({})
        BY <1>1, <2>2, UpdateStateFlow DEF Fresh
      <3>2. TakenInv'
        BY <2>2 DEF OnceInv, TakenInv, UpdateState, history
      <3> QED BY <2>2, <3>1, <3>2, OtherOnce DEF UpdateState, history, TookOnce
    <2> QED BY <1>2, <2>1, <2>2 DEF SourceStep
  <1>3. ASSUME NEW id \in CheckpointIds \ begun, Begin(id) PROVE OnceInv' /\ TookOnce
    BY <1>3, BeginOnce DEF Begin, history, TookOnce
  <1>4. ASSUME NEW g \in triggers, SendBarrier(g) PROVE OnceInv' /\ TookOnce
    BY <1>4, SendBarrierOnce DEF SendBarrier, TookOnce
  <1>5. ASSUME NEW g \in triggers, TakeSnapshot(g) PROVE OnceInv' /\ TookOnce
    <2>1. g.task \notin DOMAIN tookAt[g.id]
      BY DEF OnceInv, TakenInv
    <2>2. tookAt' = [tookAt EXCEPT ![g.id] = With(@, g.task, state[g.task])]
      BY <1>5 DEF TakeSnapshot
    <2>3. TookOnce
      BY <2>1, <2>2 DEF TookOnce, With, OnceInv, FlowInv, ShapeInv
    <2> QED BY <1>5, <2>3, TakeSnapshotOnce
  <1>6. ASSUME NEW n \in Nodes, Withhold(n) PROVE OnceInv' /\ TookOnce
    <2>1. /\ FlowInv' /\ Grows /\ Delivered({}) /\ Fresh({})
          /\ \A m \in Nodes : handler'[m].counts = handler[m].counts
      BY <1>1, <1>6, WithholdFlow DEF Fresh
    <2>2. TakenInv'
      BY <1>6 DEF OnceInv, TakenInv, Withhold, history
    <2> QED BY <1>6, <2>1, <2>2, OtherOnce DEF Withhold, history, TookOnce
  <1>7. ASSUME NEW n \in Nodes, Process(n) PROVE OnceInv' /\ TookOnce
    <2>1. PICK items \in SUBSET Item : /\ FlowInv' /\ Grows /\ Delivered(items)
                                       /\ \A item \in items : item.id = 0
      BY <1>1, <1>7, ProcessFlow
    <2>2. Fresh(items)
      BY <2>1 DEF Fresh
    <2>3. TakenInv'
      BY <1>7 DEF OnceInv, TakenInv, Process, history
    <2> QED BY <1>7, <2>1, <2>2, <2>3, OtherOnce DEF Process, history, TookOnce
  <1>8. ASSUME NEW n \in Nodes, CountBarrier(n) PROVE OnceInv' /\ TookOnce
    BY <1>8, CountBarrierOnce DEF CountBarrier, history, TookOnce
  <1>9. ASSUME NEW n \in Nodes, TriggerNode(n) PROVE OnceInv' /\ TookOnce
    <2> DEFINE id == Head(input[n]).id
    <2>1. /\ id \in CheckpointIds
          /\ tookAt'[id] = With(tookAt[id], n, state[n])
          /\ \A i \in CheckpointIds : i # id => tookAt'[i] = tookAt[i]
      BY <1>1, <1>9, TriggerNodeFacts
    <2>2. n \notin DOMAIN tookAt[id]
      BY <1>9, <2>1, TriggeredOnce DEF OnceInv, TakenInv
    <2> HIDE DEF id
    <2>3. TookOnce
      BY <2>1, <2>2 DEF TookOnce, With
    <2> QED BY <1>9, <2>3, TriggerNodeOnce
  <1>10. CASE CancelContext \/ UNCHANGED flowVars
    <2>1. /\ UNCHANGED <<offset, sending, input, handler, state, begun, triggers, history>>
          /\ cancelled' \in BOOLEAN
      BY <1>1, <1>10 DEF CancelContext, flowVars, FlowInv, ShapeInv
    <2>2. FlowInv' /\ Grows /\ Delivered({}) /\ Fresh({})
      BY <1>1, <2>1, QuietFlow DEF Fresh
    <2>3. TakenInv'
      BY <2>1 DEF OnceInv, TakenInv, history
    <2> QED BY <2>1, <2>2, <2>3, OtherOnce DEF history, TookOnce
  <1> QED BY <1>2, <1>3, <1>4, <1>5, <1>6, <1>7, <1>8, <1>9, <1>10
          DEF FlowNext, TriggerStep, NodeStep

LEMMA OnceInvInit == FlowInit /\ FlowInv => OnceInv
  <1> SUFFICES ASSUME FlowInit, FlowInv PROVE UniqueInv /\ CountsInv /\ DoneInv /\ TakenInv
    BY DEF OnceInv
  <1>1. \A id \in CheckpointIds : DOMAIN sentAt[id] = {} /\ DOMAIN tookAt[id] = {}
    BY DEF FlowInit, Empty
  <1>2. UniqueInv
    BY DEF FlowInit, UniqueInv
  <1>3. CountsInv
    <2>1. \A n \in Nodes : \A id \in CheckpointIds : handler[n].counts[id] = 0
      BY DEF FlowInit, NewHandler
    <2>2. \A n \in Nodes : \A id \in CheckpointIds : Cardinality(Consumed(n, id)) \in Nat
      BY InputsFacts DEF Consumed
    <2> QED BY <2>1, <2>2 DEF CountsInv
  <1>4. DoneInv /\ TakenInv
    BY <1>1 DEF FlowInit, DoneInv, TakenInv
  <1> QED BY <1>2, <1>3, <1>4

LEMMA OnceInvHolds == FlowSpec => []OnceInv
  <1> QED BY OnceInvInit, OnceInvStep, FlowInvHolds, PTL DEF FlowSpec

\* Whatever the qos, a task takes at most one snapshot of a checkpoint, of which nothing
\* is lost or replaced: a node is not triggered a second time by barriers that come after
\* those of a newer checkpoint have dropped its count, nor by a barrier that comes twice
\* (BarrierTracker.processBarrier, BarrierAligner.processBarrier, TriggerCheckpoint).
THEOREM SnapshotsTakenOnce == FlowSpec => [][TookOnce]_flowVars
  <1> QED BY OnceInvHolds, OnceInvStep, PTL DEF FlowSpec

-----------------------------------------------------------------------------
(* Alignment                                                               *)

\* What an upstream sent before its barrier is before it in the channel.
OrderInv ==
    \A n \in Nodes : \A i, j \in DOMAIN input[n] :
       LET e == input[n][i]
           b == input[n][j]
       IN  i < j /\ e.id = 0 /\ b.id # 0 /\ e.from = b.from
              => e.event \in sentAt[b.id][b.from]

\* n may still be given the barrier of id by u, or is blocked by it.
Awaits(n, u, id) ==
    \/ u \notin DOMAIN sentAt[id]
    \/ BarrierWaits(n, u, id)
    \/ handler[n].current = id /\ u \in handler[n].blocked

\* n may still be triggered for id.
Open(n, id) == \A u \in Upstream[n] : Awaits(n, u, id)

\* Until it is, it has only consumed what was sent before the barriers.
StateInv ==
    \A n \in Ops : \A id \in CheckpointIds :
       Open(n, id) => state[n] \subseteq UNION {SentFor(u, id) : u \in Upstream[n]}

SnapshotInv ==
    \A id \in CheckpointIds : \A n \in Ops \cap DOMAIN tookAt[id] :
       /\ Upstream[n] \subseteq DOMAIN sentAt[id]
       /\ tookAt[id][n] \subseteq UNION {sentAt[id][u] : u \in Upstream[n]}

AlignInv == OnceInv /\ OrderInv /\ StateInv /\ SnapshotInv

\* While a node waits for barriers it consumes nothing that follows one of them.
ConsumesBefore ==
    \A n \in Ops : \A id \in CheckpointIds : Open(n, id) =>
       state'[n] \subseteq state[n] \cup UNION {SentFor(u, id) : u \in Upstream[n]}

LEMMA OrderStep ==
    ASSUME AlignInv, FlowInv', NEW items, Delivered(items), Fresh(items), OnRecord, Recorded
    PROVE  OrderInv'
  <1> SUFFICES ASSUME NEW n \in Nodes, NEW i \in DOMAIN input'[n], NEW j \in DOMAIN input'[n],
                      i < j, input'[n][i].id = 0, input'[n][j].id # 0,
                      input'[n][i].from = input'[n][j].from
               PROVE  input'[n][i].event \in sentAt'[input'[n][j].id][input'[n][j].from]
    BY DEF OrderInv
  <1> DEFINE e == input'[n][i]
             b == input'[n][j]
  <1>1. PICK k \in DOMAIN input[n] :
           /\ e = input[n][k]
           /\ b \in items \/ \E l \in DOMAIN input[n] : k < l /\ b = input[n][l]
    <2>1. ShapeInv /\ input' \in [Nodes -> Seq(Item)]
      BY DEF AlignInv, OnceInv, FlowInv, ShapeInv
    <2>2. \E k \in DOMAIN input[n] :
             /\ input'[n][i] = input[n][k]
             /\ \/ input'[n][j] \in items
                \/ \E l \in DOMAIN input[n] : k < l /\ input'[n][j] = input[n][l]
      BY <2>1, DeliveredItems
    <2> QED BY <2>2
  <1>2. /\ e.from \in Upstream[n] /\ e.from \in Sources \cup Ops /\ e.event \in SentBy[e.from]
    BY <1>1, InputsFacts DEF AlignInv, OnceInv, FlowInv, ChannelInv
  <1> HIDE DEF e, b
  <1>3. CASE b \in items
    <2>1. /\ b.id \in CheckpointIds /\ b.from \in Sources \cup Ops
          /\ b.from \notin DOMAIN sentAt[b.id] /\ b.from \in DOMAIN sentAt'[b.id]
      BY <1>3 DEF Fresh, b
    <2>2. sentAt'[b.id][b.from] = SentBy[b.from]
      BY <2>1 DEF Recorded
    <2> QED BY <1>2, <2>2 DEF e, b
  <1>4. CASE \E l \in DOMAIN input[n] : k < l /\ b = input[n][l]
    <2>1. PICK l \in DOMAIN input[n] : k < l /\ b = input[n][l]
      BY <1>4
    <2>2. e.event \in sentAt[b.id][b.from] /\ b.from \in DOMAIN sentAt[b.id]
      BY <1>1, <2>1 DEF AlignInv, OnceInv, FlowInv, OrderInv, ChannelInv, e, b
    <2>3. b.id \in CheckpointIds
      BY <2>1, ItemFacts DEF AlignInv, OnceInv, FlowInv, ShapeInv, b
    <2>4. sentAt'[b.id][b.from] = sentAt[b.id][b.from]
      BY <1>2, <2>2, <2>3 DEF OnRecord, e, b
    <2> QED BY <2>2, <2>4 DEF e, b
  <1> QED BY <1>1, <1>3, <1>4

LEMMA AwaitsStep ==
    ASSUME AlignInv, FlowInv', ExactlyOnce, NEW items, Delivered(items), Fresh(items), Grows,
           KeepsWaiting, NEW n \in Ops, NEW u \in Upstream[n], NEW id \in CheckpointIds,
           Awaits(n, u, id)'
    PROVE  Awaits(n, u, id)
  <1>1. n \in Nodes /\ Aligns(n) /\ u \in Sources \cup Ops /\ id # 0
    BY InputsFacts, CheckpointIdsAssumption DEF Nodes, Aligns
  <1>2. CASE u \notin DOMAIN sentAt'[id]
    BY <1>2 DEF Grows, Awaits
  <1>3. CASE \E i \in DOMAIN input'[n] : input'[n][i].from = u /\ input'[n][i].id = id
    <2>1. PICK i \in DOMAIN input'[n] : input'[n][i].from = u /\ input'[n][i].id = id
      BY <1>3
    <2>2. \/ \E k \in DOMAIN input[n] : input'[n][i] = input[n][k]
          \/ input'[n][i] \in items
      BY <1>1, DeliveredItems DEF AlignInv, OnceInv, FlowInv, ShapeInv
    <2> QED BY <1>1, <2>1, <2>2 DEF Fresh, Awaits, BarrierWaits
  <1>4. CASE handler'[n].current = id /\ u \in handler'[n].blocked
    BY <1>1, <1>4 DEF KeepsWaiting, Awaits
  <1> QED BY <1>2, <1>3, <1>4 DEF Awaits, BarrierWaits

LEMMA StateStep ==
    ASSUME AlignInv, FlowInv', ExactlyOnce, NEW items, Delivered(items), Fresh(items), Grows,
           OnRecord, Recorded, KeepsWaiting, ConsumesBefore
    PROVE  StateInv'
  <1> SUFFICES ASSUME NEW n \in Ops, NEW id \in CheckpointIds,
                      \A u \in Upstream[n] : Awaits(n, u, id)'
               PROVE  state'[n] \subseteq UNION {SentFor(u, id)' : u \in Upstream[n]}
    BY DEF StateInv, Open
  <1>1. n \in Nodes /\ Upstream[n] \subseteq Sources \cup Ops
    BY InputsFacts DEF Nodes
  <1>2. Open(n, id)
    BY AwaitsStep DEF Open
  <1>3. state'[n] \subseteq UNION {SentFor(u, id) : u \in Upstream[n]}
    BY <1>2 DEF ConsumesBefore, AlignInv, StateInv
  <1>4. \A u \in Upstream[n] : SentFor(u, id) \subseteq SentFor(u, id)'
    BY <1>1 DEF SentFor, OnRecord, Recorded, Grows
  <1> QED BY <1>3, <1>4

LEMMA SnapshotInvStep ==
    ASSUME AlignInv, FlowInv', OnRecord,
           \A id \in CheckpointIds : \A n \in Ops : n \in DOMAIN tookAt'[id] =>
              n \in DOMAIN tookAt[id] /\ tookAt'[id][n] = tookAt[id][n]
    PROVE  SnapshotInv'
  <1> SUFFICES ASSUME NEW id \in CheckpointIds, NEW n \in Ops, n \in DOMAIN tookAt'[id]
               PROVE  /\ Upstream[n] \subseteq DOMAIN sentAt'[id]
                      /\ tookAt'[id][n] \subseteq UNION {sentAt'[id][u] : u \in Upstream[n]}
    BY DEF SnapshotInv
  <1>1. n \in DOMAIN tookAt[id] /\ tookAt'[id][n] = tookAt[id][n]
    OBVIOUS
  <1>2. /\ Upstream[n] \subseteq DOMAIN sentAt[id]
        /\ tookAt[id][n] \subseteq UNION {sentAt[id][u] : u \in Upstream[n]}
    BY <1>1 DEF AlignInv, SnapshotInv
  <1>3. \A u \in Upstream[n] : u \in DOMAIN sentAt'[id] /\ sentAt'[id][u] = sentAt[id][u]
    BY <1>2, InputsFacts DEF OnRecord, Nodes
  <1> QED BY <1>1, <1>2, <1>3

\* A step that leaves the records and the handlers alone.
LEMMA PlainStep ==
    ASSUME AlignInv, FlowInv', ExactlyOnce, Grows, NEW items, Delivered(items),
           \A item \in items : item.id = 0,
           sentAt' = sentAt, KeepsWaiting, ConsumesBefore,
           \A id \in CheckpointIds : \A n \in Ops : n \in DOMAIN tookAt'[id] =>
              n \in DOMAIN tookAt[id] /\ tookAt'[id][n] = tookAt[id][n]
    PROVE  OrderInv' /\ StateInv' /\ SnapshotInv'
  <1>1. OnRecord /\ Recorded /\ Fresh(items)
    BY DEF OnRecord, Recorded, Fresh
  <1> QED BY <1>1, OrderStep, StateStep, SnapshotInvStep

LEMMA SameState ==
    ASSUME \A n \in Ops : state'[n] = state[n]
    PROVE  ConsumesBefore
  BY DEF ConsumesBefore

LEMMA SendBarrierAlign ==
    ASSUME AlignInv, ExactlyOnce, NEW g \in triggers, SendBarrier(g)
    PROVE  OrderInv' /\ StateInv' /\ SnapshotInv'
  <1>1. /\ FlowInv' /\ Grows /\ Delivered({Barrier(g.task, g.id)})
        /\ OnRecord /\ Recorded /\ Fresh({Barrier(g.task, g.id)})
    BY SendBarrierFlow, SourceRecords DEF AlignInv, OnceInv
  <1>2. KeepsWaiting /\ ConsumesBefore
    BY SameState DEF SendBarrier, KeepsWaiting
  <1>3. OrderInv' /\ StateInv'
    BY <1>1, <1>2, OrderStep, StateStep
  <1>4. SnapshotInv'
    BY <1>1, SnapshotInvStep DEF SendBarrier
  <1> QED BY <1>3, <1>4

\* What a node consumes was sent before the barriers it waits for.
LEMMA ProcessAlign ==
    ASSUME AlignInv, ExactlyOnce, NEW n \in Nodes, Process(n)
    PROVE  OrderInv' /\ StateInv' /\ SnapshotInv'
  <1> DEFINE e == Head(input[n])
  <1>1. PICK items \in SUBSET Item : /\ FlowInv' /\ Grows /\ Delivered(items)
                                     /\ \A item \in items : item.id = 0
    BY ProcessFlow DEF AlignInv, OnceInv
  <1>2. /\ input[n] # << >> /\ e = input[n][1] /\ 1 \in DOMAIN input[n] /\ e.id = 0
        /\ e.from \in Upstream[n] /\ e.from \in Sources \cup Ops
        /\ e.event \in SentBy[e.from]
    BY HeadFacts DEF AlignInv, OnceInv, Process, NextIsEvent, IsBarrier
  <1>3. KeepsWaiting
    BY DEF Process, KeepsWaiting
  <1>4. state' = [state EXCEPT ![n] = @ \cup {e.event}] /\ state \in [Tasks -> SUBSET Events]
    BY DEF Process, AlignInv, OnceInv, FlowInv, ShapeInv
  <1>5. ASSUME n \in Ops, NEW id \in CheckpointIds, Open(n, id)
        PROVE  e.event \in SentFor(e.from, id)
    <2>1. Awaits(n, e.from, id)
      BY <1>2, <1>5 DEF Open
    <2> HIDE DEF e
    <2>2. CASE e.from \notin DOMAIN sentAt[id]
      BY <1>2, <2>2 DEF SentFor
    <2>3. CASE BarrierWaits(n, e.from, id)
      <3>1. PICK j \in DOMAIN input[n] : input[n][j].from = e.from /\ input[n][j].id = id
        BY <2>3 DEF BarrierWaits
      <3>2. id # 0
        BY CheckpointIdsAssumption
      <3>3. 1 < j
        <4>1. j \in Nat \ {0}
          BY DEF AlignInv, OnceInv, FlowInv, ShapeInv
        <4>2. j # 1
          BY <1>2, <3>1, <3>2
        <4> QED BY <4>1, <4>2
      <3>4. e.event \in sentAt[id][e.from]
        BY <1>2, <3>1, <3>2, <3>3 DEF AlignInv, OrderInv
      <3>5. e.from \in DOMAIN sentAt[id]
        BY <3>1, <3>2 DEF AlignInv, OnceInv, FlowInv, ChannelInv
      <3> QED BY <3>4, <3>5 DEF SentFor
    <2>4. CASE handler[n].current = id /\ e.from \in handler[n].blocked
      <3>1. Aligns(n)
        BY <1>5 DEF Aligns
      <3>2. ~(Inputs(n) > 1)
        BY <2>4, <3>1 DEF Process, Withholds, Buffers, e
      <3>3. handler[n].blocked \subseteq Upstream[n] /\ Cardinality(handler[n].blocked) < Inputs(n)
        BY <3>1 DEF AlignInv, OnceInv, FlowInv, AlignerInv
      <3>4. IsFiniteSet(handler[n].blocked) /\ Cardinality(handler[n].blocked) \in Nat
            /\ Inputs(n) \in Nat
        BY <3>3, InputsFacts
      <3>5. Cardinality(handler[n].blocked) = 0
        BY <3>2, <3>3, <3>4
      <3>6. handler[n].blocked = {}
        BY <3>4, <3>5, FS_EmptySet
      <3> QED BY <2>4, <3>6
    <2> QED BY <2>1, <2>2, <2>3, <2>4 DEF Awaits
  <1> HIDE DEF e
  <1>6. ConsumesBefore
    <2> SUFFICES ASSUME NEW m \in Ops, NEW id \in CheckpointIds, Open(m, id)
                 PROVE  state'[m] \subseteq state[m] \cup UNION {SentFor(u, id) : u \in Upstream[m]}
      BY DEF ConsumesBefore
    <2>1. CASE m = n
      BY <1>2, <1>4, <1>5, <2>1 DEF Tasks
    <2>2. CASE m # n
      BY <1>4, <2>2 DEF Tasks, Nodes
    <2> QED BY <2>1, <2>2
  <1> QED BY <1>1, <1>3, <1>6, PlainStep DEF Process, history

\* A node that aligns is triggered when it has waited for all of its upstreams.
LEMMA TriggerNodeAlign ==
    ASSUME AlignInv, ExactlyOnce, NEW n \in Nodes, TriggerNode(n)
    PROVE  OrderInv' /\ StateInv' /\ SnapshotInv'
  <1> DEFINE b == Head(input[n])
             items == IF n \in Ops THEN {Barrier(n, b.id)} ELSE {}
  <1>1. /\ input[n] # << >> /\ b \in Item /\ b.id # 0 /\ b.id \in CheckpointIds
        /\ b.from \in Upstream[n] /\ b.from \in DOMAIN sentAt[b.id]
        /\ BarrierWaits(n, b.from, b.id)
        /\ sentAt'[b.id] = With(sentAt[b.id], n, state[n])
        /\ tookAt'[b.id] = With(tookAt[b.id], n, state[n])
        /\ \A id \in CheckpointIds : id # b.id =>
              sentAt'[id] = sentAt[id] /\ tookAt'[id] = tookAt[id]
        /\ Aligns(n) =>
              /\ n \notin DOMAIN sentAt[b.id]
              /\ \A u \in Upstream[n] : u = b.from \/
                    (handler[n].current = b.id /\ u \in handler[n].blocked)
    BY TriggerNodeFacts DEF AlignInv, OnceInv
  <1>2. /\ FlowInv' /\ Grows /\ KeepsWaiting /\ Delivered(items)
        /\ OnRecord /\ Recorded /\ Fresh(items)
    BY TriggerNodeFlow, TriggerRecords DEF AlignInv, OnceInv
  <1> HIDE DEF items, b
  <1>3. /\ DOMAIN tookAt'[b.id] = DOMAIN tookAt[b.id] \cup {n} /\ tookAt'[b.id][n] = state[n]
        /\ \A u \in DOMAIN tookAt[b.id] : u # n => tookAt'[b.id][u] = tookAt[b.id][u]
    BY <1>1 DEF With
  <1>4. n \in Ops => Aligns(n)
    BY DEF Aligns
  <1>5. ConsumesBefore
    BY SameState DEF TriggerNode
  <1>6. OrderInv' /\ StateInv'
    BY <1>2, <1>5, OrderStep, StateStep
  <1>7. ASSUME n \in Ops
         PROVE  /\ Upstream[n] \subseteq DOMAIN sentAt[b.id]
                /\ state[n] \subseteq UNION {sentAt[b.id][u] : u \in Upstream[n]}
    <2>1. \A u \in Upstream[n] : u \in DOMAIN sentAt[b.id]
      BY <1>1, <1>4, <1>7 DEF AlignInv, OnceInv, FlowInv, AlignerInv
    <2>2. Open(n, b.id)
      BY <1>1, <1>4, <1>7 DEF Open, Awaits
    <2>3. state[n] \subseteq UNION {SentFor(u, b.id) : u \in Upstream[n]}
      BY <1>1, <1>7, <2>2 DEF AlignInv, StateInv
    <2> QED BY <2>1, <2>3 DEF SentFor
  <1>8. SnapshotInv'
    <2> SUFFICES ASSUME NEW id \in CheckpointIds, NEW m \in Ops, m \in DOMAIN tookAt'[id]
                 PROVE  /\ Upstream[m] \subseteq DOMAIN sentAt'[id]
                        /\ tookAt'[id][m] \subseteq UNION {sentAt'[id][u] : u \in Upstream[m]}
      BY DEF SnapshotInv
    <2>1. /\ Upstream[m] \subseteq DOMAIN sentAt[id]
          /\ tookAt'[id][m] \subseteq UNION {sentAt[id][u] : u \in Upstream[m]}
      <3>1. CASE id = b.id /\ m = n
        BY <1>3, <1>7, <3>1
      <3>2. CASE ~(id = b.id /\ m = n)
        <4>1. m \in DOMAIN tookAt[id] /\ tookAt'[id][m] = tookAt[id][m]
          BY <1>1, <1>3, <3>2
        <4> QED BY <4>1 DEF AlignInv, SnapshotInv
      <3> QED BY <3>1, <3>2
    <2>2. \A u \in Upstream[m] : u \in DOMAIN sentAt'[id] /\ sentAt'[id][u] = sentAt[id][u]
      BY <1>2, <2>1, InputsFacts DEF OnRecord, Nodes
    <2> QED BY <2>1, <2>2
  <1> QED BY <1>6, <1>8

LEMMA AlignInvHolds == ExactlyOnce => (FlowSpec => []AlignInv)
  <1> SUFFICES ASSUME ExactlyOnce PROVE FlowSpec => []AlignInv
    OBVIOUS
  <1>1. FlowInit /\ OnceInv => AlignInv
    <2> SUFFICES ASSUME FlowInit, OnceInv PROVE OrderInv /\ StateInv /\ SnapshotInv
      BY DEF AlignInv
    <2>1. OrderInv
      BY DEF FlowInit, OrderInv
    <2>2. StateInv
      BY DEF FlowInit, StateInv, Tasks, Nodes
    <2>3. DOMAIN Empty = {}
      BY DEF Empty
    <2>4. SnapshotInv
      BY <2>3 DEF FlowInit, SnapshotInv
    <2> QED BY <2>1, <2>2, <2>4
  <1>2. AlignInv /\ [FlowNext]_flowVars => AlignInv'
    <2> SUFFICES ASSUME AlignInv, [FlowNext]_flowVars PROVE AlignInv'
      OBVIOUS
    <2>1. FlowInv
      BY DEF AlignInv, OnceInv
    <2>2. ASSUME NEW s \in Sources, Ingest(s) PROVE OrderInv' /\ StateInv' /\ SnapshotInv'
      <3>1. PICK item \in Item : FlowInv' /\ Grows /\ item.id = 0 /\ Delivered({item})
        BY <2>1, <2>2, IngestFlow
      <3>2. KeepsWaiting /\ ConsumesBefore
        BY <2>2, SameState DEF Ingest, KeepsWaiting
      <3> QED BY <2>2, <3>1, <3>2, PlainStep DEF Ingest, history
    <2>3. ASSUME NEW s \in Sources, UpdateState(s) PROVE OrderInv' /\ StateInv' /\ SnapshotInv'
      <3>1. FlowInv' /\ Grows /\ Delivered({}) /\ \A n \in Ops : state'[n] = state[n]
        BY <2>1, <2>3, UpdateStateFlow
      <3>2. KeepsWaiting /\ ConsumesBefore
        BY <2>3, <3>1, SameState DEF UpdateState, KeepsWaiting
      <3> QED BY <2>3, <3>1, <3>2, PlainStep DEF UpdateState, history
    <2>4. ASSUME NEW id \in CheckpointIds \ begun, Begin(id) PROVE OrderInv' /\ StateInv' /\ SnapshotInv'
      <3>1. FlowInv' /\ Grows /\ Delivered({})
        BY <2>1, <2>4, BeginFlow
      <3>2. KeepsWaiting /\ ConsumesBefore
        BY <2>4, SameState DEF Begin, KeepsWaiting
      <3> QED BY <2>4, <3>1, <3>2, PlainStep DEF Begin, history
    <2>5. ASSUME NEW g \in triggers, TakeSnapshot(g) PROVE OrderInv' /\ StateInv' /\ SnapshotInv'
      <3>1. /\ FlowInv' /\ Grows /\ Delivered({})
            /\ \A id \in CheckpointIds : \A n \in Ops : n \in DOMAIN tookAt'[id] =>
                 n \in DOMAIN tookAt[id] /\ tookAt'[id][n] = tookAt[id][n]
        BY <2>1, <2>5, TakeSnapshotFlow DEF Nodes
      <3>2. KeepsWaiting /\ ConsumesBefore
        BY <2>5, SameState DEF TakeSnapshot, KeepsWaiting
      <3> QED BY <2>5, <3>1, <3>2, PlainStep DEF TakeSnapshot
    <2>6. ASSUME NEW n \in Nodes, Withhold(n) PROVE OrderInv' /\ StateInv' /\ SnapshotInv'
      <3>1. /\ FlowInv' /\ Grows /\ Delivered({})
            /\ \A m \in Nodes : /\ handler'[m].current = handler[m].current
                                /\ handler'[m].blocked = handler[m].blocked
        BY <2>1, <2>6, WithholdFlow
      <3>2. KeepsWaiting /\ ConsumesBefore
        BY <2>6, <3>1, SameState DEF Withhold, KeepsWaiting
      <3> QED BY <2>6, <3>1, <3>2, PlainStep DEF Withhold, history
    <2>7. ASSUME NEW n \in Nodes, CountBarrier(n) PROVE OrderInv' /\ StateInv' /\ SnapshotInv'
      <3>1. FlowInv' /\ Grows /\ Delivered({}) /\ KeepsWaiting
        BY <2>1, <2>7, CountBarrierFlow
      <3>2. ConsumesBefore
        BY <2>7, SameState DEF CountBarrier
      <3> QED BY <2>7, <3>1, <3>2, PlainStep DEF CountBarrier, history
    <2>8. ASSUME CancelContext \/ UNCHANGED flowVars
          PROVE  OrderInv' /\ StateInv' /\ SnapshotInv'
      <3>1. /\ UNCHANGED <<offset, sending, input, handler, state, begun, triggers, history>>
            /\ cancelled' \in BOOLEAN
        BY <2>1, <2>8 DEF CancelContext, flowVars, FlowInv, ShapeInv
      <3>2. FlowInv' /\ Grows /\ Delivered({})
        BY <2>1, <3>1, QuietFlow
      <3>3. KeepsWaiting /\ ConsumesBefore
        BY <3>1, SameState DEF KeepsWaiting
      <3> QED BY <3>1, <3>2, <3>3, PlainStep DEF history
    <2>9. (\E s \in Sources : SourceStep(s)) => OrderInv' /\ StateInv' /\ SnapshotInv'
      BY <2>2, <2>3 DEF SourceStep
    <2>10. (\E g \in triggers : TriggerStep(g)) => OrderInv' /\ StateInv' /\ SnapshotInv'
      BY <2>5, SendBarrierAlign DEF TriggerStep
    <2>11. (\E n \in Nodes : NodeStep(n)) => OrderInv' /\ StateInv' /\ SnapshotInv'
      BY <2>6, <2>7, ProcessAlign, TriggerNodeAlign DEF NodeStep
    <2>12. OnceInv'
      BY OnceInvStep DEF AlignInv
    <2> QED BY <2>4, <2>8, <2>9, <2>10, <2>11, <2>12 DEF FlowNext, AlignInv
  <1> QED BY <1>1, <1>2, OnceInvHolds, PTL DEF FlowSpec

\* Under qos 2, in any rule: the snapshot an operator takes when the last of the
\* barriers of a checkpoint has come has nothing an upstream sent after its own,
\* whichever checkpoints overtake one another on the way and however many events and
\* barriers a full channel drops (BarrierAligner.Process, doBroadcast).
THEOREM AlignedSnapshotsAreExact == ExactlyOnce => (FlowSpec => []NothingAfterBarrier)
  <1> SUFFICES ASSUME ExactlyOnce PROVE FlowSpec => []NothingAfterBarrier
    OBVIOUS
  <1>1. AlignInv => NothingAfterBarrier
    BY DEF AlignInv, SnapshotInv, NothingAfterBarrier
  <1> QED BY <1>1, AlignInvHolds, PTL

-----------------------------------------------------------------------------
(* Tracking                                                                *)

\* No send gives up or drops: every channel has room, and the rule is not stopped.
NoLoss == ~cancelled /\ \A n \in Nodes : Len(input[n]) < BufferLength

BarrierAt(n, i, u, id) == input[n][i].from = u /\ input[n][i].id = id

EventAt(n, i, u, e) == input[n][i].from = u /\ input[n][i].id = 0 /\ input[n][i].event = e

\* What has been sent has been consumed or is in the channel, and what was sent before a
\* barrier is before it.
NoneLostInv ==
    \A n \in Nodes : \A u \in Upstream[n] :
       /\ \A e \in SentBy[u] :
             e \in state[n] \/ \E i \in DOMAIN input[n] : EventAt(n, i, u, e)
       /\ \A id \in CheckpointIds : u \in DOMAIN sentAt[id] => \A e \in sentAt[id][u] :
             \/ e \in state[n]
             \/ \E i, j \in DOMAIN input[n] :
                   i < j /\ EventAt(n, i, u, e) /\ BarrierAt(n, j, u, id)

TrackInv == OnceInv /\ NoneLostInv /\ NothingMissing

\* Of the channel of n the first d items are taken, and what is sent to n is behind it.
Passes(n, d, items) ==
    /\ \A i \in DOMAIN input[n] : i > d =>
          i - d \in DOMAIN input'[n] /\ input'[n][i - d] = input[n][i]
    /\ \A item \in items : item.from \in Upstream[n] =>
          \E j \in DOMAIN input'[n] :
             input'[n][j] = item /\ \A i \in DOMAIN input[n] : i - d < j

\* What is taken is consumed.
Consumes(n, d) ==
    \/ d = 0
    \/ d = 1 /\ (input[n] # << >> /\ input[n][1].id = 0 => input[n][1].event \in state'[n])

\* What is new has been sent to whom it is for.
SendsAll(items) ==
    /\ \A u \in Sources \cup Ops : \A e \in SentBy'[u] \ SentBy[u] :
          \E item \in items : item.from = u /\ item.id = 0 /\ item.event = e
    /\ \A id \in CheckpointIds : \A u \in Sources \cup Ops :
          u \in DOMAIN sentAt'[id] /\ u \notin DOMAIN sentAt[id] =>
             \E item \in items : item.from = u /\ item.id = id

LEMMA NoneLostStep ==
    ASSUME TrackInv, FlowInv', NEW items, SendsAll(items), OnRecord, Recorded,
           \A n \in Nodes : state[n] \subseteq state'[n],
           \A n \in Nodes : \E d \in {0, 1} : Passes(n, d, items) /\ Consumes(n, d)
    PROVE  NoneLostInv'
  <1> SUFFICES ASSUME NEW n \in Nodes, NEW u \in Upstream[n]
               PROVE  /\ \A e \in SentBy'[u] :
                            e \in state'[n] \/ \E i \in DOMAIN input'[n] : EventAt(n, i, u, e)'
                      /\ \A id \in CheckpointIds : u \in DOMAIN sentAt'[id] =>
                            \A e \in sentAt'[id][u] :
                               \/ e \in state'[n]
                               \/ \E i, j \in DOMAIN input'[n] :
                                     i < j /\ EventAt(n, i, u, e)' /\ BarrierAt(n, j, u, id)'
    BY DEF NoneLostInv
  <1>1. PICK d \in {0, 1} : Passes(n, d, items) /\ Consumes(n, d)
    OBVIOUS
  <1>2. u \in Sources \cup Ops
    BY InputsFacts
  <1>3. \A i \in DOMAIN input[n] : i \in Nat \ {0}
    BY DEF TrackInv, OnceInv, FlowInv, ShapeInv
  \* What was in the channel is there or has been consumed.
  <1>4. ASSUME NEW e, NEW i \in DOMAIN input[n], EventAt(n, i, u, e)
        PROVE  e \in state'[n] \/
                  (i > d /\ i - d \in DOMAIN input'[n] /\ EventAt(n, i - d, u, e)')
    <2>1. CASE i > d
      BY <1>1, <1>4, <2>1 DEF Passes, EventAt
    <2>2. CASE ~(i > d)
      <3>1. i = 1 /\ d = 1
        BY <1>3, <2>2
      <3> QED BY <1>1, <1>4, <3>1 DEF Consumes, EventAt
    <2> QED BY <2>1, <2>2
  <1>5. ASSUME NEW e \in SentBy'[u]
        PROVE  e \in state'[n] \/ \E i \in DOMAIN input'[n] : EventAt(n, i, u, e)'
    <2>1. CASE e \in SentBy[u]
      <3>1. e \in state[n] \/ \E i \in DOMAIN input[n] : EventAt(n, i, u, e)
        BY <2>1 DEF TrackInv, NoneLostInv
      <3> QED BY <1>4, <3>1
    <2>2. CASE e \notin SentBy[u]
      <3>1. PICK item \in items : item.from = u /\ item.id = 0 /\ item.event = e
        BY <1>2, <1>5, <2>2 DEF SendsAll
      <3>2. PICK j \in DOMAIN input'[n] : input'[n][j] = item
        BY <1>1, <3>1 DEF Passes
      <3> QED BY <3>1, <3>2 DEF EventAt
    <2> QED BY <2>1, <2>2
  <1>6. ASSUME NEW id \in CheckpointIds, u \in DOMAIN sentAt'[id], NEW e \in sentAt'[id][u]
        PROVE  \/ e \in state'[n]
               \/ \E i, j \in DOMAIN input'[n] :
                     i < j /\ EventAt(n, i, u, e)' /\ BarrierAt(n, j, u, id)'
    <2>1. CASE u \in DOMAIN sentAt[id]
      <3>1. e \in sentAt[id][u]
        BY <1>2, <1>6, <2>1 DEF OnRecord
      <3>2. CASE e \in state[n]
        BY <3>2
      <3>3. CASE \E i, j \in DOMAIN input[n] :
                    i < j /\ EventAt(n, i, u, e) /\ BarrierAt(n, j, u, id)
        <4>1. PICK i, j \in DOMAIN input[n] :
                 i < j /\ EventAt(n, i, u, e) /\ BarrierAt(n, j, u, id)
          BY <3>3
        <4>2. e \in state'[n] \/
                 (i > d /\ i - d \in DOMAIN input'[n] /\ EventAt(n, i - d, u, e)')
          BY <1>4, <4>1
        <4>3. i > d => j > d /\ i - d < j - d
          BY <1>3, <4>1
        <4>4. i > d => j - d \in DOMAIN input'[n] /\ BarrierAt(n, j - d, u, id)'
          BY <1>1, <4>1, <4>3 DEF Passes, BarrierAt
        <4> QED BY <4>2, <4>3, <4>4
      <3> QED BY <2>1, <3>1, <3>2, <3>3 DEF TrackInv, NoneLostInv
    <2>2. CASE u \notin DOMAIN sentAt[id]
      <3>1. e \in SentBy[u]
        BY <1>2, <1>6, <2>2 DEF Recorded
      <3>2. PICK item \in items : item.from = u /\ item.id = id
        BY <1>2, <1>6, <2>2 DEF SendsAll
      <3>3. PICK j \in DOMAIN input'[n] :
               input'[n][j] = item /\ \A i \in DOMAIN input[n] : i - d < j
        BY <1>1, <3>2 DEF Passes
      <3>4. e \in state[n] \/ \E i \in DOMAIN input[n] : EventAt(n, i, u, e)
        BY <3>1 DEF TrackInv, NoneLostInv
      <3>5. BarrierAt(n, j, u, id)'
        BY <3>2, <3>3 DEF BarrierAt
      <3>6. CASE e \in state[n]
        BY <3>6
      <3>7. CASE \E i \in DOMAIN input[n] : EventAt(n, i, u, e)
        <4>1. PICK i \in DOMAIN input[n] : EventAt(n, i, u, e)
          BY <3>7
        <4> QED BY <1>4, <3>3, <3>5, <4>1
      <3> QED BY <3>4, <3>6, <3>7
    <2> QED BY <2>1, <2>2
  <1> QED BY <1>5, <1>6

\* What is left of the channel of n when its first d items, one or none, are taken.
Rest(n, d) == IF d = 1 THEN Tail(input[n]) ELSE input[n]

\* With room in every channel an item is put behind what is left of it.
LEMMA SendPasses ==
    ASSUME ShapeInv, NoLoss, NEW n \in Nodes, NEW d \in {0, 1}, d = 1 => input[n] # << >>,
           NEW item, NEW items \in SUBSET {item}, NEW receivers,
           input'[n] = IF n \in receivers THEN Enqueue(Rest(n, d), item) ELSE Rest(n, d),
           n \in receivers => item \in Item,
           n \notin receivers => \A x \in items : x.from \notin Upstream[n]
    PROVE  Passes(n, d, items)
  <1> DEFINE q == Rest(n, d)
  <1>1. input[n] \in Seq(Item) /\ Len(input[n]) < BufferLength /\ Len(input[n]) \in Nat
    BY DEF ShapeInv, NoLoss
  <1>2. /\ q \in Seq(Item) /\ Len(q) = Len(input[n]) - d
        /\ \A i \in DOMAIN input[n] : i > d => i - d \in DOMAIN q /\ q[i - d] = input[n][i]
    <2>1. CASE d = 1
      <3>1. Tail(input[n]) \in Seq(Item) /\ Len(Tail(input[n])) = Len(input[n]) - 1
        BY <1>1, <2>1
      <3>2. \A i \in DOMAIN input[n] : i > 1 =>
               i - 1 \in DOMAIN Tail(input[n]) /\ Tail(input[n])[i - 1] = input[n][i]
        BY <1>1, <2>1
      <3> QED BY <2>1, <3>1, <3>2 DEF Rest
    <2>2. CASE d = 0
      BY <1>1, <2>2 DEF Rest
    <2> QED BY <2>1, <2>2
  <1> HIDE DEF q
  <1>3. \A i \in DOMAIN input[n] : i \in Nat /\ i - d < Len(q) + 1
    BY <1>1, <1>2
  <1>4. CASE n \in receivers
    <2> DEFINE r == Append(q, item)
    <2>1. ~(Len(q) >= BufferLength)
      BY <1>1, <1>2, TopologyAssumption
    <2>2. input'[n] = r
      BY <1>4, <2>1 DEF Enqueue, q
    <2>3. /\ Len(q) + 1 \in DOMAIN r /\ r[Len(q) + 1] = item
          /\ \A i \in DOMAIN q : i \in DOMAIN r /\ r[i] = q[i]
      BY <1>2, <1>4
    <2> HIDE DEF r
    <2>4. \A i \in DOMAIN input[n] : i > d => i - d \in DOMAIN r /\ r[i - d] = input[n][i]
      BY <1>2, <2>3
    <2>5. \A x \in items : x.from \in Upstream[n] =>
             \E j \in DOMAIN r : r[j] = x /\ \A i \in DOMAIN input[n] : i - d < j
      BY <1>3, <2>3
    <2> QED BY <2>2, <2>4, <2>5 DEF Passes
  <1>5. CASE n \notin receivers
    <2>1. input'[n] = q
      BY <1>5 DEF q
    <2> QED BY <1>2, <1>5, <2>1 DEF Passes
  <1> QED BY <1>4, <1>5

\* Whom a send reaches while nothing is lost.
LEMMA ReachesAll ==
    ASSUME NoLoss, NEW t, NEW receivers \in Reaches(t), NEW n \in Nodes
    PROVE  n \in receivers <=> t \in Upstream[n]
  BY DEF Reaches, Downstream, NoLoss

\* A step that leaves the channels alone, and sends nothing.
LEMMA QuietTrack ==
    ASSUME TrackInv, FlowInv', input' = input, sentAt' = sentAt,
           \A u \in Sources \cup Ops : SentBy'[u] = SentBy[u],
           \A n \in Nodes : state'[n] = state[n]
    PROVE  NoneLostInv'
  <1>1. SendsAll({}) /\ OnRecord /\ Recorded
    BY DEF SendsAll, OnRecord, Recorded
  <1>2. \A n \in Nodes : Passes(n, 0, {}) /\ Consumes(n, 0)
    BY DEF Passes, Consumes, TrackInv, OnceInv, FlowInv, ShapeInv
  <1> QED BY <1>1, <1>2, NoneLostStep

LEMMA IngestTrack ==
    ASSUME TrackInv, NoLoss, NEW s \in Sources, Ingest(s)
    PROVE  NoneLostInv'
  <1> DEFINE e == <<s, offset[s] + 1>>
             item == Event(s, e)
  <1>1. FlowInv'
    BY IngestFlow DEF TrackInv, OnceInv
  <1>2. offset[s] \in Nat /\ offset[s] + 1 \in 1 .. MaxEvents
    BY TopologyAssumption DEF TrackInv, OnceInv, FlowInv, ShapeInv, Ingest
  <1>3. item \in Item /\ item.from = s /\ item.id = 0 /\ item.event = e
    <2>1. e \in Events
      BY <1>2 DEF Events
    <2> QED BY <2>1, ItemFacts
  <1>4. SendsAll({item})
    <2>1. offset' = [offset EXCEPT ![s] = @ + 1] /\ offset \in [Sources -> 0 .. MaxEvents]
      BY DEF TrackInv, OnceInv, FlowInv, ShapeInv, Ingest
    <2>2. \A k \in 1 .. offset'[s] : k \in 1 .. offset[s] \/ k = offset[s] + 1
      BY <1>2, <2>1
    <2>3. \A x \in Emitted(s)' \ Emitted(s) : x = e
      BY <2>2 DEF Emitted
    <2>4. \A u \in Sources : u # s => Emitted(u)' = Emitted(u)
      BY <2>1 DEF Emitted
    <2>5. \A u \in Sources \cup Ops : \A x \in SentBy'[u] \ SentBy[u] : u = s /\ x = e
      BY <2>3, <2>4 DEF SentBy, Ingest
    <2> HIDE DEF item, e
    <2>6. sentAt' = sentAt
      BY DEF Ingest, history
    <2> QED BY <1>3, <2>5, <2>6 DEF SendsAll
  <1>5. PICK receivers \in Reaches(s) : input' = Sent(input, item, receivers)
    BY DEF Ingest
  <1> HIDE DEF item
  <1>6. \A n \in Nodes : Passes(n, 0, {item})
    <2> TAKE n \in Nodes
    <2>1. input'[n] = IF n \in receivers THEN Enqueue(Rest(n, 0), item) ELSE Rest(n, 0)
      BY <1>5 DEF Sent, Rest
    <2>2. n \notin receivers => \A x \in {item} : x.from \notin Upstream[n]
      BY <1>3, <1>5, ReachesAll
    <2>3. ShapeInv
      BY DEF TrackInv, OnceInv, FlowInv
    <2> QED BY <1>3, <2>1, <2>2, <2>3, SendPasses
  <1>7. \A n \in Nodes : Passes(n, 0, {item}) /\ Consumes(n, 0)
    BY <1>6 DEF Consumes
  <1>8. OnRecord /\ Recorded
    BY DEF OnRecord, Recorded, Ingest, history
  <1> QED BY <1>1, <1>4, <1>7, <1>8, NoneLostStep DEF Ingest

LEMMA SendBarrierTrack ==
    ASSUME TrackInv, NoLoss, NEW g \in triggers, SendBarrier(g)
    PROVE  NoneLostInv'
  <1> DEFINE item == Barrier(g.task, g.id)
  <1>1. FlowInv' /\ g.task \in Sources /\ g.id \in CheckpointIds /\ OnRecord /\ Recorded
    BY SendBarrierFlow, SourceRecords DEF TrackInv, OnceInv
  <1>2. item \in Item /\ item.from = g.task /\ item.id = g.id
    BY <1>1, ItemFacts
  <1>3. PICK receivers \in Reaches(g.task) : input' = Sent(input, item, receivers)
    BY DEF SendBarrier
  <1> HIDE DEF item
  <1>4. SendsAll({item})
    <2>1. \A u \in Sources \cup Ops : SentBy'[u] = SentBy[u]
      BY DEF SentBy, Emitted, SendBarrier
    <2>2. sentAt' = [sentAt EXCEPT ![g.id] = With(@, g.task, Emitted(g.task))]
          /\ DOMAIN sentAt = CheckpointIds
      BY DEF SendBarrier, TrackInv, OnceInv, FlowInv, ShapeInv
    <2>3. \A id \in CheckpointIds : \A u \in DOMAIN sentAt'[id] :
             u \in DOMAIN sentAt[id] \/ (u = g.task /\ id = g.id)
      BY <1>1, <2>2 DEF With
    <2> QED BY <1>2, <2>1, <2>3 DEF SendsAll
  <1>5. \A n \in Nodes : Passes(n, 0, {item})
    <2> TAKE n \in Nodes
    <2>1. input'[n] = IF n \in receivers THEN Enqueue(Rest(n, 0), item) ELSE Rest(n, 0)
      BY <1>3 DEF Sent, Rest
    <2>2. n \notin receivers => \A x \in {item} : x.from \notin Upstream[n]
      BY <1>2, <1>3, ReachesAll
    <2>3. ShapeInv
      BY DEF TrackInv, OnceInv, FlowInv
    <2> QED BY <1>2, <2>1, <2>2, <2>3, SendPasses
  <1>6. \A n \in Nodes : Passes(n, 0, {item}) /\ Consumes(n, 0)
    BY <1>5 DEF Consumes
  <1> QED BY <1>1, <1>4, <1>6, NoneLostStep DEF SendBarrier

LEMMA ProcessTrack ==
    ASSUME TrackInv, NoLoss, NEW n \in Nodes, Process(n)
    PROVE  NoneLostInv'
  <1> DEFINE e == Head(input[n]).event
             item == Event(n, e)
             items == IF n \in Ops THEN {item} ELSE {}
  <1>1. FlowInv' /\ input[n] # << >> /\ e \in Events /\ Head(input[n]) = input[n][1]
    BY ProcessFlow, HeadFacts DEF Process, NextIsEvent, IsBarrier, TrackInv, OnceInv
  <1>2. /\ state' = [state EXCEPT ![n] = @ \cup {e}] /\ state \in [Tasks -> SUBSET Events]
        /\ sentAt' = sentAt /\ offset' = offset
    BY DEF Process, history, TrackInv, OnceInv, FlowInv, ShapeInv
  <1>3. n \in Ops => item \in Item /\ item.from = n /\ item.id = 0 /\ item.event = e
    BY <1>1, ItemFacts
  <1>4. PICK receivers \in Reaches(n) :
           input' = Sent([input EXCEPT ![n] = Tail(@)], item, receivers)
    BY DEF Process
  <1>5. \A m \in Nodes : Consumes(m, IF m = n THEN 1 ELSE 0)
    BY <1>1, <1>2 DEF Consumes, Tasks
  <1> HIDE DEF item, e
  <1>6. SendsAll(items)
    <2>1. \A t \in Tasks : \A x \in state'[t] \ state[t] : t = n /\ x = e
      BY <1>2
    <2>2. \A u \in Sources \cup Ops : \A x \in SentBy'[u] \ SentBy[u] : u = n /\ u \in Ops /\ x = e
      BY <1>2, <2>1 DEF SentBy, Emitted, Tasks, Nodes
    <2> QED BY <1>2, <1>3, <2>2 DEF SendsAll
  <1>7. receivers # {} => n \in Ops
    BY InputsFacts, TopologyAssumption DEF Reaches, Downstream, Nodes
  <1>8. items \in SUBSET {item} /\ \A x \in items : x.from = n
    BY <1>3
  <1> HIDE DEF items
  <1>9. \A m \in Nodes : Passes(m, IF m = n THEN 1 ELSE 0, items)
    <2> TAKE m \in Nodes
    <2> DEFINE d == IF m = n THEN 1 ELSE 0
    <2>1. ShapeInv /\ d \in {0, 1} /\ (d = 1 => input[m] # << >>)
      BY <1>1 DEF TrackInv, OnceInv, FlowInv
    <2>2. input'[m] = IF m \in receivers THEN Enqueue(Rest(m, d), item) ELSE Rest(m, d)
      <3>1. [input EXCEPT ![n] = Tail(@)][m] = Rest(m, d)
        BY <2>1 DEF ShapeInv, Rest
      <3> QED BY <1>4, <3>1 DEF Sent
    <2>3. m \in receivers => item \in Item
      BY <1>3, <1>7
    <2>4. m \notin receivers => \A x \in items : x.from \notin Upstream[m]
      BY <1>4, <1>8, ReachesAll
    <2> HIDE DEF d
    <2>5. Passes(m, d, items)
      BY <1>8, <2>1, <2>2, <2>3, <2>4, SendPasses
    <2> QED BY <2>5 DEF d
  <1>10. OnRecord /\ Recorded
    BY <1>2 DEF OnRecord, Recorded
  <1>11. \A m \in Nodes : state[m] \subseteq state'[m]
    BY <1>2 DEF Tasks
  <1>12. \A m \in Nodes : \E d \in {0, 1} : Passes(m, d, items) /\ Consumes(m, d)
    BY <1>5, <1>9
  <1> QED BY <1>1, <1>6, <1>10, <1>11, <1>12, NoneLostStep

LEMMA CountBarrierTrack ==
    ASSUME TrackInv, NoLoss, NEW n \in Nodes, CountBarrier(n)
    PROVE  NoneLostInv'
  <1>1. FlowInv' /\ input[n] # << >> /\ Head(input[n]) = input[n][1] /\ input[n][1].id # 0
    BY CountBarrierFlow, HeadFacts DEF CountBarrier, NextIsBarrier, IsBarrier, TrackInv, OnceInv
  <1>2. SendsAll({}) /\ OnRecord /\ Recorded
    BY DEF SendsAll, OnRecord, Recorded, SentBy, Emitted, CountBarrier, history
  <1>3. \A m \in Nodes : Consumes(m, IF m = n THEN 1 ELSE 0)
    BY <1>1 DEF Consumes
  <1>4. \A m \in Nodes : Passes(m, IF m = n THEN 1 ELSE 0, {})
    <2> TAKE m \in Nodes
    <2> DEFINE d == IF m = n THEN 1 ELSE 0
    <2>1. ShapeInv /\ d \in {0, 1} /\ (d = 1 => input[m] # << >>)
      BY <1>1 DEF TrackInv, OnceInv, FlowInv
    <2>2. input'[m] = Rest(m, d)
      BY <2>1 DEF CountBarrier, ShapeInv, Rest
    <2> HIDE DEF d
    <2> DEFINE none == {}
    <2>3. none \in SUBSET {0} /\ m \notin none /\ \A x \in none : x.from \notin Upstream[m]
      OBVIOUS
    <2> HIDE DEF none
    <2>4. input'[m] = IF m \in none THEN Enqueue(Rest(m, d), 0) ELSE Rest(m, d)
      BY <2>2, <2>3
    <2>5. Passes(m, d, none)
      BY <2>1, <2>3, <2>4, SendPasses
    <2> QED BY <2>5 DEF d, none
  <1>5. \A m \in Nodes : \E d \in {0, 1} : Passes(m, d, {}) /\ Consumes(m, d)
    BY <1>3, <1>4
  <1> QED BY <1>1, <1>2, <1>5, NoneLostStep DEF CountBarrier

LEMMA TriggerNodeTrack ==
    ASSUME TrackInv, NoLoss, NEW n \in Nodes, TriggerNode(n)
    PROVE  NoneLostInv'
  <1> DEFINE id == Head(input[n]).id
             item == Barrier(n, id)
             items == IF n \in Ops THEN {item} ELSE {}
  <1>1. /\ FlowInv' /\ input[n] # << >> /\ id \in CheckpointIds /\ id # 0
        /\ Head(input[n]) = input[n][1] /\ OnRecord /\ Recorded
        /\ DOMAIN sentAt' = CheckpointIds
        /\ sentAt'[id] = With(sentAt[id], n, state[n])
        /\ \A i \in CheckpointIds : i # id => sentAt'[i] = sentAt[i]
    <2>1. OnceInv /\ FlowInv
      BY DEF TrackInv, OnceInv
    <2>2. input[n] # << >> /\ IsBarrier(Head(input[n]))
      BY DEF TriggerNode, NextIsBarrier
    <2>3. Head(input[n]) = input[n][1] /\ Head(input[n]) \in Item
      BY <2>1, <2>2, HeadFacts
    <2>4. FlowInv'
      BY <2>1, TriggerNodeFlow
    <2>5. OnRecord /\ Recorded
      BY <2>1, TriggerRecords
    <2>6. id \in CheckpointIds /\ id # 0
      BY <2>2, <2>3, ItemFacts DEF IsBarrier
    <2>7. DOMAIN sentAt = CheckpointIds /\ sentAt' = [sentAt EXCEPT ![id] = With(@, n, state[n])]
      BY <2>1 DEF FlowInv, ShapeInv, TriggerNode
    <2> HIDE DEF id
    <2> QED BY <2>2, <2>3, <2>4, <2>5, <2>6, <2>7 DEF id
  <1>2. n \in Ops => item \in Item /\ item.from = n /\ item.id = id
    BY <1>1, ItemFacts
  <1>3. PICK receivers \in Reaches(n) :
           input' = Sent([input EXCEPT ![n] = Tail(@)], item, receivers)
    BY DEF TriggerNode
  <1>4. \A m \in Nodes : Consumes(m, IF m = n THEN 1 ELSE 0)
    BY <1>1 DEF Consumes
  <1> HIDE DEF item, id
  <1>5. SendsAll(items)
    <2>1. \A u \in Sources \cup Ops : SentBy'[u] = SentBy[u]
      BY DEF SentBy, Emitted, TriggerNode
    <2>2. \A i \in CheckpointIds : \A u \in DOMAIN sentAt'[i] :
             u \in DOMAIN sentAt[i] \/ (u = n /\ i = id)
      BY <1>1 DEF With
    <2>3. n \in Sources \cup Ops => n \in Ops
      BY TopologyAssumption
    <2> QED BY <1>2, <2>1, <2>2, <2>3 DEF SendsAll
  <1>6. receivers # {} => n \in Ops
    BY InputsFacts, TopologyAssumption DEF Reaches, Downstream, Nodes
  <1>7. items \in SUBSET {item} /\ \A x \in items : x.from = n
    BY <1>2
  <1> HIDE DEF items
  <1>8. \A m \in Nodes : Passes(m, IF m = n THEN 1 ELSE 0, items)
    <2> TAKE m \in Nodes
    <2> DEFINE d == IF m = n THEN 1 ELSE 0
    <2>1. ShapeInv /\ d \in {0, 1} /\ (d = 1 => input[m] # << >>)
      BY <1>1 DEF TrackInv, OnceInv, FlowInv
    <2>2. input'[m] = IF m \in receivers THEN Enqueue(Rest(m, d), item) ELSE Rest(m, d)
      <3>1. [input EXCEPT ![n] = Tail(@)][m] = Rest(m, d)
        BY <2>1 DEF ShapeInv, Rest
      <3> QED BY <1>3, <3>1 DEF Sent
    <2>3. m \in receivers => item \in Item
      BY <1>2, <1>6
    <2>4. m \notin receivers => \A x \in items : x.from \notin Upstream[m]
      BY <1>3, <1>7, ReachesAll
    <2> HIDE DEF d
    <2>5. Passes(m, d, items)
      BY <1>7, <2>1, <2>2, <2>3, <2>4, SendPasses
    <2> QED BY <2>5 DEF d
  <1>9. \A m \in Nodes : \E d \in {0, 1} : Passes(m, d, items) /\ Consumes(m, d)
    BY <1>4, <1>8
  <1> QED BY <1>1, <1>5, <1>9, NoneLostStep DEF TriggerNode

\* A node that tracks takes its snapshot when it has all that precedes the barriers.
LEMMA NothingMissingStep ==
    ASSUME ~ExactlyOnce, TrackInv, OnceInv', NoneLostInv', TookOnce, OnRecord,
           \A id \in CheckpointIds : \A n \in Nodes : n \in DOMAIN tookAt'[id] =>
              n \in DOMAIN tookAt[id] \/ tookAt'[id][n] = state'[n]
    PROVE  NothingMissing'
  <1> SUFFICES ASSUME NEW id \in CheckpointIds, NEW n \in Nodes, n \in DOMAIN tookAt'[id],
                      NEW u \in Upstream[n]
               PROVE  u \in DOMAIN sentAt'[id] /\ sentAt'[id][u] \subseteq tookAt'[id][n]
    BY DEF NothingMissing
  <1>1. u \in Sources \cup Ops
    BY InputsFacts
  <1>2. CASE n \in DOMAIN tookAt[id]
    <2>1. u \in DOMAIN sentAt[id] /\ sentAt[id][u] \subseteq tookAt[id][n]
      BY <1>2 DEF TrackInv, NothingMissing
    <2> QED BY <1>1, <1>2, <2>1 DEF TookOnce, OnRecord
  <1>3. CASE n \notin DOMAIN tookAt[id]
    <2>1. tookAt'[id][n] = state'[n]
      BY <1>3
    <2>2. n \in DOMAIN sentAt'[id] /\ ~Aligns(n)
      BY DEF OnceInv, TakenInv, Aligns
    <2>3. Consumed(n, id)' = Upstream[n]
      BY <2>2 DEF OnceInv, DoneInv, Aligns
    <2>4. u \in DOMAIN sentAt'[id] /\ ~BarrierWaits(n, u, id)'
      BY <2>3 DEF Consumed
    <2>5. sentAt'[id][u] \subseteq state'[n]
      BY <2>4 DEF NoneLostInv, BarrierWaits, BarrierAt
    <2> QED BY <2>1, <2>4, <2>5
  <1> QED BY <1>2, <1>3

LEMMA TrackStep ==
    ASSUME ~ExactlyOnce, TrackInv, NoLoss, [FlowNext]_flowVars
    PROVE  TrackInv'
  <1>1. OnceInv' /\ FlowInv' /\ TookOnce
    BY OnceInvStep DEF TrackInv, OnceInv
  <1>2. ASSUME sentAt' = sentAt, tookAt' = tookAt, NoneLostInv'
        PROVE  TrackInv'
    <2>1. OnRecord
      BY <1>2 DEF OnRecord
    <2> QED BY <1>1, <1>2, <2>1, NothingMissingStep DEF TrackInv
  <1>3. ASSUME NEW s \in Sources, Ingest(s) PROVE TrackInv'
    BY <1>2, <1>3, IngestTrack DEF Ingest, history
  <1>4. ASSUME NEW s \in Sources, UpdateState(s) PROVE TrackInv'
    <2>1. \A n \in Nodes : state'[n] = state[n]
      BY <1>4, TopologyAssumption DEF UpdateState, TrackInv, OnceInv, FlowInv, ShapeInv, Tasks
    <2>2. \A u \in Sources \cup Ops : SentBy'[u] = SentBy[u]
      BY <1>4, <2>1 DEF SentBy, Emitted, UpdateState, Nodes
    <2> QED BY <1>1, <1>2, <1>4, <2>1, <2>2, QuietTrack DEF UpdateState, history
  <1>5. ASSUME NEW id \in CheckpointIds \ begun, Begin(id) PROVE TrackInv'
    <2>1. \A u \in Sources \cup Ops : SentBy'[u] = SentBy[u]
      BY <1>5 DEF SentBy, Emitted, Begin
    <2> QED BY <1>1, <1>2, <1>5, <2>1, QuietTrack DEF Begin, history
  <1>6. ASSUME NEW g \in triggers, SendBarrier(g) PROVE TrackInv'
    <2>1. OnRecord
      BY <1>6, SourceRecords DEF TrackInv, OnceInv
    <2> QED BY <1>1, <1>6, <2>1, SendBarrierTrack, NothingMissingStep DEF SendBarrier, TrackInv
  <1>7. ASSUME NEW g \in triggers, TakeSnapshot(g) PROVE TrackInv'
    <2>1. \A u \in Sources \cup Ops : SentBy'[u] = SentBy[u]
      BY <1>7 DEF SentBy, Emitted, TakeSnapshot
    <2>2. \A id \in CheckpointIds : \A n \in Nodes : n \in DOMAIN tookAt'[id] =>
             n \in DOMAIN tookAt[id]
      BY <1>7, TakeSnapshotFlow DEF TrackInv, OnceInv
    <2>3. NoneLostInv' /\ OnRecord
      BY <1>1, <1>7, <2>1, QuietTrack DEF TakeSnapshot, OnRecord
    <2> QED BY <1>1, <2>2, <2>3, NothingMissingStep DEF TrackInv
  <1>8. ASSUME NEW n \in Nodes, Withhold(n) PROVE TrackInv'
    BY <1>8 DEF Withhold, Withholds, Aligns
  <1>9. ASSUME NEW n \in Nodes, Process(n) PROVE TrackInv'
    BY <1>2, <1>9, ProcessTrack DEF Process, history
  <1>10. ASSUME NEW n \in Nodes, CountBarrier(n) PROVE TrackInv'
    BY <1>2, <1>10, CountBarrierTrack DEF CountBarrier, history
  <1>11. ASSUME NEW n \in Nodes, TriggerNode(n) PROVE TrackInv'
    <2> DEFINE id == Head(input[n]).id
    <2>1. /\ id \in CheckpointIds
          /\ tookAt'[id] = With(tookAt[id], n, state[n])
          /\ \A i \in CheckpointIds : i # id => tookAt'[i] = tookAt[i]
      BY <1>11, TriggerNodeFacts DEF TrackInv, OnceInv
    <2> HIDE DEF id
    <2>2. state' = state
      BY <1>11 DEF TriggerNode
    <2>3. \A i \in CheckpointIds : \A m \in Nodes : m \in DOMAIN tookAt'[i] =>
             m \in DOMAIN tookAt[i] \/ tookAt'[i][m] = state'[m]
      BY <2>1, <2>2 DEF With
    <2>4. OnRecord
      BY <1>11, TriggerRecords DEF TrackInv
    <2> QED BY <1>1, <1>11, <2>3, <2>4, TriggerNodeTrack, NothingMissingStep DEF TrackInv
  <1>12. ASSUME CancelContext \/ UNCHANGED flowVars PROVE TrackInv'
    <2>1. UNCHANGED <<offset, sending, input, handler, state, begun, triggers, history>>
      BY <1>12 DEF CancelContext, flowVars
    <2>2. \A u \in Sources \cup Ops : SentBy'[u] = SentBy[u]
      BY <2>1 DEF SentBy, Emitted
    <2> QED BY <1>1, <1>2, <2>1, <2>2, QuietTrack DEF history
  <1> QED BY <1>3, <1>4, <1>5, <1>6, <1>7, <1>8, <1>9, <1>10, <1>11, <1>12
          DEF FlowNext, SourceStep, TriggerStep, NodeStep

\* Under qos 1, in any rule whose channels have room and that is not stopped: what an
\* upstream sent before its barrier of a checkpoint is in the snapshot of every node behind
\* it, so that a source that is rewound to its own snapshot loses nothing
\* (BarrierTracker.Process, docs/en_US/guide/rules/state_and_fault_tolerance.md:21).
THEOREM NothingMissingWithRoom ==
    ~ExactlyOnce => (FlowSpec /\ []NoLoss => []NothingMissing)
  <1> SUFFICES ASSUME ~ExactlyOnce PROVE FlowSpec /\ []NoLoss => []NothingMissing
    OBVIOUS
  <1>1. FlowInit /\ OnceInv => TrackInv
    <2> SUFFICES ASSUME FlowInit, OnceInv PROVE NoneLostInv /\ NothingMissing
      BY DEF TrackInv
    <2>1. \A id \in CheckpointIds : DOMAIN sentAt[id] = {} /\ DOMAIN tookAt[id] = {}
      BY DEF FlowInit, Empty
    <2>2. \A u \in Sources \cup Ops : SentBy[u] = {}
      BY DEF FlowInit, SentBy, Emitted, Tasks, Nodes
    <2>3. NoneLostInv
      BY <2>1, <2>2, InputsFacts DEF NoneLostInv
    <2>4. NothingMissing
      BY <2>1 DEF NothingMissing
    <2> QED BY <2>3, <2>4
  <1>2. TrackInv => NothingMissing
    BY DEF TrackInv
  <1> QED BY <1>1, <1>2, TrackStep, OnceInvHolds, PTL DEF FlowSpec

-----------------------------------------------------------------------------
(* The flow under the coordinator                                          *)

\* A checkpoint begins at a time that no other has begun at: a tick that waits in the
\* ticker's channel is older than the clock, and newer than all that has begun but a
\* forced one.
TimeInv ==
    /\ {clock, tick} \subseteq CheckpointIds \cup {0} /\ tick <= clock
    /\ begun \subseteq 1 .. clock /\ tick \notin begun
    /\ stop # None => CanStop

LEMMA ClockFacts ==
    /\ CheckpointIds \subseteq Nat \ {0}
    /\ \A c \in CheckpointIds \cup {0} : c \in Nat
    /\ \A id \in CheckpointIds : \A c \in 1 .. id : c \in CheckpointIds
  <1>1. Cardinality(CheckpointIds) \in Nat
    BY StoreAssumption, FS_CardinalityType
  <1> QED BY <1>1, CheckpointIdsAssumption, StoreAssumption

\* What a step of the coordinator and its surroundings is for the flow.
LEMMA StepOfFlow ==
    ASSUME TimeInv, [Next]_vars
    PROVE  [FlowNext]_flowVars
  <1> USE ClockFacts
  <1>1. CASE TaskStep
    BY <1>1 DEF TaskStep, FlowNext, TriggerStep, NodeStep
  <1>2. CASE SnapshotStep
    BY <1>2 DEF SnapshotStep, FlowNext, TriggerStep, NodeStep
  <1>3. CASE \E g \in savers : SaverStep(g)
    BY <1>3 DEF SaverStep, TakeFromContext, LoadMap, StoreState
  <1>4. CASE TickerFires \/ OnDone \/ ForceSaveState
    BY <1>4 DEF TickerFires, OnDone, ForceSaveState
  <1>5. CASE OnTick
    <2>1. CASE inForceSaveState
      BY <1>5, <2>1 DEF OnTick
    <2>2. CASE ~inForceSaveState
      <3>1. tick \in CheckpointIds \ begun /\ Begin(tick)
        BY <1>5, <2>2 DEF OnTick, SaveState, TimeInv
      <3> QED BY <3>1 DEF FlowNext
    <2> QED BY <2>1, <2>2
  <1>6. CASE SignalStep
    <2>1. PICK s \in Range(signal) : OnForceSaveState(s) \/ OnAck(s) \/ OnDec(s)
      BY <1>6 DEF SignalStep
    <2>2. CASE OnForceSaveState(s)
      <3>1. clock + 1 \in CheckpointIds /\ Begin(clock + 1)
        BY <2>2 DEF OnForceSaveState, SaveState
      <3>2. clock \in Nat /\ begun \subseteq 1 .. clock
        BY DEF TimeInv
      <3> QED BY <3>1, <3>2 DEF FlowNext
    <2>3. CASE OnAck(s) \/ OnDec(s)
      BY <2>3 DEF OnAck, OnDec
    <2> QED BY <2>1, <2>2, <2>3
  <1>7. CASE Notified \/ TimedOut \/ Cancel
    <2>1. CancelContext /\ CanStop
      BY <1>7, StoreAssumption DEF Notified, TimedOut, Cancel, TimeInv
    <2>2. CASE cancelled
      <3> QED BY <2>1, <2>2 DEF FlowNext, CancelContext, flowVars
    <2>3. CASE ~cancelled
      BY <2>1, <2>3 DEF FlowNext
    <2> QED BY <2>2, <2>3
  <1>8. CASE UNCHANGED vars
    BY <1>8 DEF vars
  <1> QED BY <1>1, <1>2, <1>3, <1>4, <1>5, <1>6, <1>7, <1>8 DEF Next

LEMMA TimeStep ==
    ASSUME TimeInv, [Next]_vars
    PROVE  TimeInv'
  <1> USE ClockFacts
  <1>0. clock \in Nat /\ tick \in Nat /\ begun \subseteq 1 .. clock
    BY DEF TimeInv
  <1>1. CASE UNCHANGED <<clock, tick, begun, stop>>
    BY <1>1 DEF TimeInv
  <1>2. CASE TaskStep
    BY <1>1, <1>2 DEF TaskStep, SourceStep, Ingest, UpdateState, SendBarrier, Withhold,
                      Process, CountBarrier, time, client
  <1>3. CASE SnapshotStep
    BY <1>1, <1>3 DEF SnapshotStep, TakeSnapshot, TriggerNode, time, client
  <1>4. CASE \E g \in savers : SaverStep(g)
    BY <1>1, <1>4 DEF SaverStep, TakeFromContext, LoadMap, StoreState, time, client, flowVars
  <1>5. CASE TickerFires
    <2>1. clock + 1 \in CheckpointIds
      <3> DEFINE last == clock + (IF CanStop THEN 2 ELSE 1)
      <3>1. last \in CheckpointIds /\ clock + 1 \in 1 .. last
        BY <1>5, <1>0, TopologyAssumption DEF TickerFires
      <3> QED BY <3>1
    <2>2. /\ clock' = clock + 1 /\ tick' = clock + 1 /\ begun' = begun /\ stop' = stop
      BY <1>5 DEF TickerFires, client, flowVars
    <2>3. clock + 1 \notin begun /\ begun \subseteq 1 .. clock + 1
      BY <1>0 DEF TimeInv
    <2> QED BY <1>0, <2>1, <2>2, <2>3 DEF TimeInv
  <1>6. CASE OnTick
    <2>1. clock' = clock /\ tick' = 0 /\ stop' = stop /\ tick \in 1 .. clock
      BY <1>6, <1>0 DEF OnTick, SaveState, client, TimeInv
    <2>2. begun' = begun \/ begun' = begun \cup {tick}
      BY <1>6 DEF OnTick, SaveState, Begin, flowVars
    <2>3. begun' \subseteq 1 .. clock
      BY <1>0, <2>1, <2>2
    <2> QED BY <1>0, <2>1, <2>3 DEF TimeInv
  <1>7. CASE SignalStep
    <2>1. PICK s \in Range(signal) : OnForceSaveState(s) \/ OnAck(s) \/ OnDec(s)
      BY <1>7 DEF SignalStep
    <2>2. CASE OnForceSaveState(s)
      <3>1. /\ clock + 1 \in CheckpointIds /\ clock' = clock + 1 /\ tick' = tick
            /\ stop' = stop /\ begun' = begun \cup {clock + 1}
        BY <2>2 DEF OnForceSaveState, SaveState, Begin, client
      <3> QED BY <1>0, <3>1 DEF TimeInv
    <2>3. CASE OnAck(s) \/ OnDec(s)
      BY <1>1, <2>3 DEF OnAck, OnDec, time, flowVars
    <2> QED BY <2>1, <2>2, <2>3
  <1>8. CASE OnDone
    BY <1>1, <1>8 DEF OnDone, time, client, flowVars
  <1>9. CASE ForceSaveState \/ Notified \/ TimedOut \/ Cancel
    <2>1. UNCHANGED <<clock, tick, begun>>
      BY <1>9 DEF ForceSaveState, Notified, TimedOut, Cancel, CancelContext, time, flowVars
    <2>2. CanStop
      BY <1>9, StoreAssumption DEF ForceSaveState, Notified, TimedOut, Cancel, TimeInv
    <2> QED BY <2>1, <2>2 DEF TimeInv
  <1>10. CASE UNCHANGED vars
    BY <1>1, <1>10 DEF vars, time, client, flowVars
  <1> QED BY <1>2, <1>3, <1>4, <1>5, <1>6, <1>7, <1>8, <1>9, <1>10 DEF Next

LEMMA TimeHolds == Spec => []TimeInv
  <1>1. Init => TimeInv
    BY ClockFacts DEF Init, FlowInit, TimeInv
  <1> QED BY <1>1, TimeStep, PTL DEF Spec

\* The coordinator, the contexts and the store add to the flow of events and barriers
\* only when a checkpoint begins and when the context is done: every behaviour of
\* Checkpoint is one of BarrierFlow.
THEOREM FlowImplemented == Spec => ImplementsFlow
  <1>1. Init => FlowInit
    BY DEF Init
  <1> QED BY <1>1, StepOfFlow, TimeHolds, PTL DEF Spec, ImplementsFlow, FlowSpec

\* Whatever the coordinator does, an aligned snapshot has nothing that was sent after a
\* barrier of its checkpoint.
THEOREM AlignedSnapshotsOfRule == ExactlyOnce => (Spec => []NothingAfterBarrier)
  <1> SUFFICES ASSUME ExactlyOnce PROVE Spec => []NothingAfterBarrier
    OBVIOUS
  <1>1. FlowSpec => []NothingAfterBarrier
    BY AlignedSnapshotsAreExact
  <1> QED BY <1>1, FlowImplemented, PTL DEF ImplementsFlow

-----------------------------------------------------------------------------
(* Types                                                                   *)

States == (SUBSET Events) \cup {None}

Savers == [task : Tasks, id : CheckpointIds, pc : {"take", "load", "store"},
           snap : States, found : Tasks \cup {None}]

\* The maps of states a checkpoint may have, whole or not.
Maps == UNION {[some -> States] : some \in SUBSET Tasks}

Stores == [owner : Tasks \cup {None}, states : Maps]

SavingInv ==
    /\ snapshot \in [Tasks -> States] /\ savers \subseteq Savers
    /\ mapStore \in [CheckpointIds -> Stores]

StoredInv ==
    /\ checkpoints \in Seq(CheckpointIds) /\ Len(checkpoints) <= MaxSaved
    /\ DOMAIN db \subseteq CheckpointIds

PendingInv ==
    /\ DOMAIN pending \subseteq CheckpointIds
    /\ \A id \in DOMAIN pending : pending[id] \subseteq Tasks

\* The store is cleaned as soon as the counter is at the threshold, or the coordinator ends.
CleanInv ==
    /\ coord \in {"running", "stopped", "panicked"}
    /\ toBeClean \in 0 .. CleanThreshold
    /\ coord = "running" => toBeClean < CleanThreshold

IsForce(i) == signal[i].message = "ForceSaveState"

\* There is at most one request to force a save, and it is made, carried out and notified
\* in this order.
ForceInv ==
    /\ signal \in Seq(Message) /\ inForceSaveState \in BOOLEAN /\ notify \in 0 .. 1
    /\ stop \in {None, "saving", "saved", "timedOut", "cancelled"}
    /\ \A i, j \in DOMAIN signal : IsForce(i) /\ IsForce(j) => i = j
    /\ (stop = None \/ \E i \in DOMAIN signal : IsForce(i)) => ~inForceSaveState /\ notify = 0
    /\ stop = None => \A i \in DOMAIN signal : ~IsForce(i)
    /\ inForceSaveState => notify = 0

\* Task t has taken its snapshot of checkpoint id, and no goroutine saves it any more.
Done(t, id) == t \in DOMAIN tookAt[id] /\ \A g \in savers : ~(g.task = t /\ g.id = id)

\* A task that has acknowledged a checkpoint, or given it up, is done with it.
AckedInv ==
    /\ \A g \in savers : g.task \in DOMAIN tookAt[g.id]
    /\ \A g, h \in savers : g.task = h.task /\ g.id = h.id => g = h
    /\ \A i \in DOMAIN signal : ~IsForce(i) => Done(signal[i].task, signal[i].id)
    /\ \A id \in DOMAIN pending : \A t \in Tasks \ pending[id] : Done(t, id)
    /\ \A i \in DOMAIN checkpoints : \A t \in Tasks : Done(t, checkpoints[i])

BookInv == SavingInv /\ StoredInv /\ PendingInv /\ CleanInv /\ ForceInv /\ AckedInv

LEMMA SaverFacts ==
    ASSUME NEW g \in Savers
    PROVE  /\ \A snap \in States : LET h == [g EXCEPT !.pc = "load", !.snap = snap]
              IN  h \in Savers /\ h.task = g.task /\ h.id = g.id
           /\ \A found \in Tasks \cup {None} : LET h == [g EXCEPT !.pc = "store", !.found = found]
              IN  h \in Savers /\ h.task = g.task /\ h.id = g.id
  BY DEF Savers

LEMMA NewSaver ==
    ASSUME NEW t \in Tasks, NEW id \in CheckpointIds
    PROVE  Saver(t, id) \in Savers /\ Saver(t, id).task = t /\ Saver(t, id).id = id
  BY DEF Saver, Savers, States

LEMMA MapFacts ==
    /\ Empty \in Maps
    /\ \A map \in Maps : DOMAIN map \subseteq Tasks
    /\ \A map \in Maps : \A t \in Tasks : \A v \in States : With(map, t, v) \in Maps
  <1>1. \A some \in SUBSET Tasks : \A map \in [some -> States] : map \in Maps
    BY DEF Maps
  <1>2. \A map \in Maps : DOMAIN map \subseteq Tasks /\ map \in [DOMAIN map -> States]
    BY DEF Maps
  <1>3. Empty \in [{} -> States]
    BY DEF Empty
  <1>4. \A map \in Maps : \A t \in Tasks : \A v \in States :
           With(map, t, v) \in [DOMAIN map \cup {t} -> States]
    BY <1>2 DEF With
  <1>5. \A map \in Maps : \A t \in Tasks : DOMAIN map \cup {t} \in SUBSET Tasks
    BY <1>2
  <1> QED BY <1>1, <1>2, <1>3, <1>4, <1>5

LEMMA StoredFacts ==
    ASSUME SavingInv, NEW g \in savers
    PROVE  Stored(g) \in Stores
  <1>1. g \in Savers /\ mapStore[g.id] \in Stores
    BY DEF SavingInv, Savers
  <1>2. g.task \in Tasks /\ g.snap \in States /\ mapStore[g.id].states \in Maps
    BY <1>1 DEF Savers, Stores
  <1>3. With(Empty, g.task, g.snap) \in Maps /\ With(mapStore[g.id].states, g.task, g.snap) \in Maps
    BY <1>2, MapFacts
  <1> DEFINE own == With(Empty, g.task, g.snap)
             more == With(mapStore[g.id].states, g.task, g.snap)
  <1>4. [owner |-> g.task, states |-> own] \in Stores
    BY <1>2, <1>3 DEF Stores
  <1>5. [mapStore[g.id] EXCEPT !.states = more] \in Stores
    BY <1>1, <1>3 DEF Stores
  <1>6. [mapStore[g.id] EXCEPT !.states = With(@, g.task, g.snap)]
           = [mapStore[g.id] EXCEPT !.states = more]
    OBVIOUS
  <1> QED BY <1>1, <1>4, <1>5, <1>6 DEF Stored

-----------------------------------------------------------------------------
(* Signals                                                                 *)

LEMMA MessageFacts ==
    /\ \A m \in Message : m.message # "ForceSaveState" =>
          m.message \in {"ACK", "DEC"} /\ m.id \in CheckpointIds /\ m.task \in Tasks
    /\ \A g \in Savers : /\ Ack(g) \in Message /\ Ack(g).task = g.task /\ Ack(g).id = g.id
                          /\ Ack(g).message # "ForceSaveState"
                          /\ Dec(g) \in Message /\ Dec(g).task = g.task /\ Dec(g).id = g.id
                          /\ Dec(g).message # "ForceSaveState"
  <1>1. \A m \in Message : m.message # "ForceSaveState" =>
           m.message \in {"ACK", "DEC"} /\ m.id \in CheckpointIds /\ m.task \in Tasks
    BY DEF Message
  <1>2. \A g \in Savers : g.task \in Tasks /\ g.id \in CheckpointIds
    BY DEF Savers
  <1>3. \A g \in Savers : /\ Ack(g) \in Message /\ Dec(g) \in Message
    BY <1>2 DEF Message, Ack, Dec
  <1> QED BY <1>1, <1>3 DEF Ack, Dec

LEMMA ReceiveFacts ==
    ASSUME ForceInv, NEW s, Receive(s)
    PROVE  /\ s \in Message /\ s = signal[1] /\ 1 \in DOMAIN signal /\ signal' \in Seq(Message)
           /\ \A i \in DOMAIN signal' :
                 i + 1 \in DOMAIN signal /\ i + 1 # 1 /\ signal'[i] = signal[i + 1]
  <1>1. signal \in Seq(Message) /\ signal # << >> /\ s = Head(signal) /\ signal' = Tail(signal)
    BY DEF ForceInv, Receive
  <1>2. s \in Message /\ s = signal[1] /\ 1 \in DOMAIN signal /\ signal' \in Seq(Message)
    BY <1>1
  <1>3. \A i \in DOMAIN signal' :
                 i + 1 \in DOMAIN signal /\ i + 1 # 1 /\ signal'[i] = signal[i + 1]
    BY <1>1
  <1> QED BY <1>2, <1>3

LEMMA SignalFacts ==
    ASSUME signal \in Seq(Message), NEW m \in Message, signal' = Append(signal, m)
    PROVE  /\ signal' \in Seq(Message)
           /\ \A i \in DOMAIN signal' :
                 \/ i \in DOMAIN signal /\ signal'[i] = signal[i]
                 \/ i = Len(signal) + 1 /\ signal'[i] = m
  OBVIOUS

\* A goroutine that has saved its snapshot, or failed to, signals it.
LEMMA AckForce ==
    ASSUME ForceInv, NEW m \in Message, m.message # "ForceSaveState",
           signal' = Append(signal, m), UNCHANGED <<inForceSaveState, notify, stop>>
    PROVE  ForceInv'
  <1>1. /\ signal' \in Seq(Message)
        /\ \A i \in DOMAIN signal' : IsForce(i)' => i \in DOMAIN signal /\ IsForce(i)
    BY SignalFacts DEF ForceInv, IsForce
  <1> QED BY <1>1 DEF ForceInv

\* A signal that does not ask for a forced save ends one, or leaves it.
LEMMA EndForce ==
    ASSUME ForceInv, NEW s, Receive(s), UNCHANGED stop,
           FinishForceSaveState \/ UNCHANGED <<inForceSaveState, notify>>
    PROVE  ForceInv'
  <1>1. /\ signal' \in Seq(Message)
        /\ \A i \in DOMAIN signal' : IsForce(i)' => i + 1 \in DOMAIN signal /\ IsForce(i + 1)
        /\ \A i, j \in DOMAIN signal' : i + 1 = j + 1 => i = j
    BY ReceiveFacts DEF IsForce
  <1>2. CASE ~inForceSaveState
    <2>1. inForceSaveState' = inForceSaveState /\ notify' = notify
      BY <1>2 DEF FinishForceSaveState, ForceInv
    <2> QED BY <1>1, <2>1 DEF ForceInv
  <1>3. CASE inForceSaveState
    <2>1. notify = 0 /\ stop # None /\ \A i \in DOMAIN signal : ~IsForce(i)
      BY <1>3 DEF ForceInv
    <2>2. inForceSaveState' \in BOOLEAN /\ (notify' = 0 \/ (notify' = 1 /\ ~inForceSaveState'))
      <3>1. CASE FinishForceSaveState
        <4>1. inForceSaveState' = FALSE /\ notify' = notify + 1
          BY <1>3, <3>1 DEF FinishForceSaveState
        <4>2. notify + 1 = 1
          BY <2>1
        <4> QED BY <4>1, <4>2
      <3>2. CASE UNCHANGED <<inForceSaveState, notify>>
        BY <2>1, <3>2 DEF ForceInv
      <3> QED BY <3>1, <3>2
    <2>3. \A i \in DOMAIN signal' : ~IsForce(i)'
      BY <1>1, <2>1
    <2>4. /\ inForceSaveState' \in BOOLEAN /\ notify' \in 0 .. 1
          /\ inForceSaveState' => notify' = 0
      BY <2>2
    <2> QED BY <1>1, <2>1, <2>3, <2>4 DEF ForceInv
  <1> QED BY <1>2, <1>3

-----------------------------------------------------------------------------
(* What is done stays done                                                 *)

DoneStays == \A t \in Tasks : \A id \in CheckpointIds : Done(t, id) => Done(t, id)'

LEMMA SaversDone ==
    ASSUME TookOnce, \A g \in savers' :
              (\E h \in savers : h.task = g.task /\ h.id = g.id) \/ g.task \notin DOMAIN tookAt[g.id]
    PROVE  DoneStays
  BY DEF DoneStays, Done, TookOnce

\* A step that receives no acknowledgement and completes nothing.
LEMMA DoneKept ==
    ASSUME AckedInv, ForceInv, PendingInv, StoredInv, DoneStays, UNCHANGED <<pending, checkpoints>>,
           \A g \in savers' : g.task \in DOMAIN tookAt'[g.id],
           \A g, h \in savers' : g.task = h.task /\ g.id = h.id => g = h,
           \A i \in DOMAIN signal' : IsForce(i)' \/ Done(signal[i].task, signal[i].id)'
    PROVE  AckedInv'
  <1>1. \A id \in DOMAIN pending : \A t \in Tasks \ pending[id] : Done(t, id)'
    BY DEF AckedInv, DoneStays, PendingInv
  <1>2. \A i \in DOMAIN checkpoints : \A t \in Tasks : Done(t, checkpoints[i])'
    BY DEF AckedInv, DoneStays, StoredInv
  <1> QED BY <1>1, <1>2 DEF AckedInv, Done

-----------------------------------------------------------------------------
(* Steps that take or save a snapshot                                      *)

LEMMA QuietBook ==
    ASSUME BookInv, UNCHANGED <<saving, stored, signal, coordination, client, tookAt>>
    PROVE  BookInv'
  <1>1. UNCHANGED <<snapshot, savers, mapStore, checkpoints, db, signal, coord, pending, toBeClean,
                    inForceSaveState, notify, stop, tookAt>>
    BY DEF saving, stored, coordination, client
  <1>2. SavingInv' /\ StoredInv' /\ PendingInv' /\ CleanInv'
    BY <1>1 DEF BookInv, SavingInv, StoredInv, PendingInv, CleanInv
  <1>3. ForceInv'
    BY <1>1 DEF BookInv, ForceInv, IsForce
  <1>4. AckedInv'
    BY <1>1 DEF BookInv, AckedInv, Done, IsForce
  <1> QED BY <1>2, <1>3, <1>4 DEF BookInv

\* A task that takes its snapshot of a checkpoint has not taken one before.
LEMMA SnapshotFacts ==
    ASSUME OnceInv, SnapshotStep
    PROVE  \E t \in Tasks : \E id \in CheckpointIds :
              /\ TookSnapshot(t, id) /\ state[t] \in SUBSET Events
              /\ t \notin DOMAIN tookAt[id] /\ t \in DOMAIN tookAt'[id]
  <1>1. state \in [Tasks -> SUBSET Events] /\ DOMAIN tookAt = CheckpointIds
    BY DEF OnceInv, FlowInv, ShapeInv
  <1>2. ASSUME NEW g \in triggers, TakeSnapshot(g), TookSnapshot(g.task, g.id)
        PROVE  /\ g.task \in Tasks /\ g.id \in CheckpointIds
               /\ g.task \notin DOMAIN tookAt[g.id] /\ g.task \in DOMAIN tookAt'[g.id]
    <2>1. g.task \in Sources /\ g.id \in CheckpointIds /\ g.task \notin DOMAIN tookAt[g.id]
      BY DEF OnceInv, FlowInv, ShapeInv, TakenInv
    <2>2. tookAt'[g.id] = With(tookAt[g.id], g.task, state[g.task])
      BY <1>1, <1>2, <2>1 DEF TakeSnapshot
    <2> QED BY <2>1, <2>2 DEF With, Tasks
  <1>3. ASSUME NEW n \in Nodes, TriggerNode(n)
        PROVE  /\ n \in Tasks /\ Head(input[n]).id \in CheckpointIds
               /\ n \notin DOMAIN tookAt[Head(input[n]).id]
               /\ n \in DOMAIN tookAt'[Head(input[n]).id]
    <2> DEFINE id == Head(input[n]).id
    <2>1. id \in CheckpointIds /\ tookAt'[id] = With(tookAt[id], n, state[n])
      BY <1>3, TriggerNodeFacts DEF OnceInv
    <2>2. n \notin DOMAIN sentAt[id]
      BY <1>3, TriggeredOnce
    <2> HIDE DEF id
    <2>3. n \notin DOMAIN tookAt[id] /\ n \in DOMAIN tookAt'[id]
      BY <2>1, <2>2 DEF OnceInv, TakenInv, With
    <2> QED BY <2>1, <2>3 DEF id, Tasks
  <1>4. CASE \E g \in triggers : TakeSnapshot(g) /\ TookSnapshot(g.task, g.id)
    BY <1>1, <1>2, <1>4
  <1>5. CASE \E n \in Nodes : TriggerNode(n) /\ TookSnapshot(n, Head(input[n]).id)
    BY <1>1, <1>3, <1>5
  <1> QED BY <1>4, <1>5 DEF SnapshotStep

LEMMA SnapshotBook ==
    ASSUME OnceInv, BookInv, TookOnce, SnapshotStep
    PROVE  BookInv'
  <1>1. PICK t \in Tasks, id \in CheckpointIds :
              /\ TookSnapshot(t, id) /\ state[t] \in SUBSET Events
              /\ t \notin DOMAIN tookAt[id] /\ t \in DOMAIN tookAt'[id]
    BY SnapshotFacts
  <1>2. UNCHANGED <<checkpoints, db, signal, coord, pending, toBeClean, inForceSaveState,
                    notify, stop>>
    BY DEF SnapshotStep, stored, coordination, client
  <1>3. /\ snapshot' = [snapshot EXCEPT ![t] = state[t]]
        /\ savers' = savers \cup {Saver(t, id)} /\ mapStore' = mapStore
    BY <1>1 DEF TookSnapshot
  <1>4. Saver(t, id) \in Savers /\ Saver(t, id).task = t /\ Saver(t, id).id = id
    BY NewSaver
  <1>5. SavingInv'
    BY <1>1, <1>3, <1>4 DEF BookInv, SavingInv, States
  <1>6. StoredInv' /\ PendingInv' /\ CleanInv'
    BY <1>2 DEF BookInv, StoredInv, PendingInv, CleanInv
  <1>7. ForceInv'
    BY <1>2 DEF BookInv, ForceInv, IsForce
  <1>8. DoneStays
    BY <1>1, <1>3, <1>4, SaversDone
  <1>9. /\ \A g \in savers' : g.task \in DOMAIN tookAt'[g.id]
        /\ \A g, h \in savers' : g.task = h.task /\ g.id = h.id => g = h
    <2>1. \A g \in savers : g.task \in DOMAIN tookAt[g.id] /\ g.id \in CheckpointIds
      BY DEF BookInv, AckedInv, SavingInv, Savers
    <2>2. \A g \in savers : g.task \in DOMAIN tookAt'[g.id] /\ ~(g.task = t /\ g.id = id)
      BY <1>1, <2>1 DEF TookOnce
    <2> QED BY <1>1, <1>3, <1>4, <2>2 DEF BookInv, AckedInv
  <1>10. \A i \in DOMAIN signal' : IsForce(i)' \/ Done(signal[i].task, signal[i].id)'
    <2>1. \A i \in DOMAIN signal : ~IsForce(i) =>
             Done(signal[i].task, signal[i].id) /\ signal[i].task \in Tasks /\ signal[i].id \in CheckpointIds
      BY MessageFacts DEF BookInv, AckedInv, ForceInv, IsForce
    <2> QED BY <1>2, <1>8, <2>1 DEF DoneStays, IsForce
  <1>11. AckedInv'
    BY <1>2, <1>8, <1>9, <1>10, DoneKept DEF BookInv
  <1> QED BY <1>5, <1>6, <1>7, <1>11 DEF BookInv

\* A goroutine goes on with its snapshot.
LEMMA SaverGoesOn ==
    ASSUME BookInv, NEW g \in savers, NEW h \in Savers, h.task = g.task, h.id = g.id,
           savers' = (savers \ {g}) \cup {h},
           UNCHANGED <<tookAt, signal, stored, coordination, client>>
    PROVE  StoredInv' /\ PendingInv' /\ CleanInv' /\ ForceInv' /\ AckedInv'
  <1>1. UNCHANGED <<checkpoints, db, signal, coord, pending, toBeClean, inForceSaveState,
                    notify, stop, tookAt>>
    BY DEF stored, coordination, client
  <1>2. StoredInv' /\ PendingInv' /\ CleanInv'
    BY <1>1 DEF BookInv, StoredInv, PendingInv, CleanInv
  <1>3. ForceInv'
    BY <1>1 DEF BookInv, ForceInv, IsForce
  <1>4. \A t, id : Done(t, id) => Done(t, id)'
    BY <1>1 DEF Done
  <1>5. AckedInv'
    <2>1. /\ \A k \in savers' : k.task \in DOMAIN tookAt'[k.id]
          /\ \A k, l \in savers' : k.task = l.task /\ k.id = l.id => k = l
      BY <1>1 DEF BookInv, AckedInv
    <2>2. \A i \in DOMAIN signal : ~IsForce(i) => Done(signal[i].task, signal[i].id)
      BY DEF BookInv, AckedInv
    <2>3. \A i \in DOMAIN signal' : IsForce(i)' \/ Done(signal[i].task, signal[i].id)'
      BY <1>1, <1>4, <2>2 DEF IsForce, Done
    <2> QED BY <1>1, <1>4, <2>1, <2>3, DoneKept DEF BookInv, DoneStays
  <1> QED BY <1>2, <1>3, <1>5

\* A goroutine ends with a signal, and with it the task is done with the checkpoint.
LEMMA SaverEnds ==
    ASSUME BookInv, NEW g \in savers, NEW m \in Message, m.task = g.task, m.id = g.id,
           m.message # "ForceSaveState", signal' = Append(signal, m), savers' = savers \ {g},
           UNCHANGED <<tookAt, stored, coordination, client>>
    PROVE  StoredInv' /\ PendingInv' /\ CleanInv' /\ ForceInv' /\ AckedInv'
  <1>1. UNCHANGED <<checkpoints, db, coord, pending, toBeClean, inForceSaveState, notify, stop,
                    tookAt>>
    BY DEF stored, coordination, client
  <1>2. StoredInv' /\ PendingInv' /\ CleanInv'
    BY <1>1 DEF BookInv, StoredInv, PendingInv, CleanInv
  <1>3. ForceInv'
    BY <1>1, AckForce DEF BookInv
  <1>4. \A t, id : Done(t, id) => Done(t, id)'
    BY <1>1 DEF Done
  <1>5. Done(g.task, g.id)'
    BY <1>1 DEF Done, BookInv, AckedInv
  <1>6. \A i \in DOMAIN signal' : IsForce(i)' \/ Done(signal[i].task, signal[i].id)'
    <2> SUFFICES ASSUME NEW i \in DOMAIN signal'
                 PROVE  IsForce(i)' \/ Done(signal[i].task, signal[i].id)'
      OBVIOUS
    <2>1. \/ i \in DOMAIN signal /\ signal'[i] = signal[i]
          \/ i = Len(signal) + 1 /\ signal'[i] = m
      BY SignalFacts DEF BookInv, ForceInv
    <2>2. CASE i \in DOMAIN signal /\ signal'[i] = signal[i]
      BY <1>1, <2>2 DEF BookInv, AckedInv, IsForce, Done
    <2>3. CASE signal'[i] = m
      BY <1>5, <2>3 DEF Done
    <2> QED BY <2>1, <2>2, <2>3
  <1>7. AckedInv'
    <2>1. /\ \A k \in savers' : k.task \in DOMAIN tookAt'[k.id]
          /\ \A k, l \in savers' : k.task = l.task /\ k.id = l.id => k = l
      BY <1>1 DEF BookInv, AckedInv
    <2> QED BY <1>1, <1>4, <1>6, <2>1, DoneKept DEF BookInv, DoneStays
  <1> QED BY <1>2, <1>3, <1>7

LEMMA SaverBook ==
    ASSUME BookInv, NEW g \in savers, SaverStep(g)
    PROVE  BookInv'
  <1>1. g \in Savers /\ g.task \in Tasks /\ g.id \in CheckpointIds
    BY DEF BookInv, SavingInv, Savers
  <1>2. /\ Ack(g) \in Message /\ Ack(g).task = g.task /\ Ack(g).id = g.id
        /\ Ack(g).message # "ForceSaveState"
        /\ Dec(g) \in Message /\ Dec(g).task = g.task /\ Dec(g).id = g.id
        /\ Dec(g).message # "ForceSaveState"
    BY <1>1, MessageFacts
  <1>3. UNCHANGED <<tookAt, stored, coordination, client>>
    BY DEF SaverStep, TakeFromContext, LoadMap, StoreState, flowVars, history
  <1>4. SavingInv'
    <2>1. CASE TakeFromContext(g)
      <3>1. snapshot' \in [Tasks -> States] /\ mapStore' = mapStore
        BY <1>1, <2>1 DEF TakeFromContext, BookInv, SavingInv, States
      <3>2. [g EXCEPT !.pc = "load", !.snap = snapshot[g.task]] \in Savers
        BY <1>1, SaverFacts DEF BookInv, SavingInv
      <3>3. savers' \subseteq Savers
        BY <2>1, <3>2 DEF TakeFromContext, BookInv, SavingInv
      <3> QED BY <3>1, <3>3 DEF BookInv, SavingInv
    <2>2. CASE LoadMap(g)
      <3>1. mapStore[g.id].owner \in Tasks \cup {None}
        BY <1>1 DEF BookInv, SavingInv, Stores
      <3>2. [g EXCEPT !.pc = "store", !.found = mapStore[g.id].owner] \in Savers
        BY <1>1, <3>1, SaverFacts
      <3> QED BY <2>2, <3>2 DEF LoadMap, BookInv, SavingInv
    <2>3. CASE StoreState(g)
      <3>1. Stored(g) \in Stores
        BY StoredFacts DEF BookInv
      <3>2. mapStore' \in [CheckpointIds -> Stores]
        BY <2>3, <3>1 DEF StoreState, BookInv, SavingInv
      <3> QED BY <2>3, <3>2 DEF StoreState, BookInv, SavingInv
    <2> QED BY <2>1, <2>2, <2>3 DEF SaverStep
  <1>5. StoredInv' /\ PendingInv' /\ CleanInv' /\ ForceInv' /\ AckedInv'
    <2>1. CASE TakeFromContext(g) /\ snapshot[g.task] = None
      <3>1. savers' = savers \ {g} /\ signal' = Append(signal, Ack(g))
        BY <2>1 DEF TakeFromContext
      <3> QED BY <1>2, <1>3, <3>1, SaverEnds
    <2>2. CASE TakeFromContext(g) /\ snapshot[g.task] # None
      <3> DEFINE h == [g EXCEPT !.pc = "load", !.snap = snapshot[g.task]]
      <3>1. h \in Savers /\ h.task = g.task /\ h.id = g.id
        BY <1>1, SaverFacts DEF BookInv, SavingInv
      <3>2. savers' = (savers \ {g}) \cup {h} /\ signal' = signal
        BY <2>2 DEF TakeFromContext
      <3> HIDE DEF h
      <3> QED BY <1>3, <3>1, <3>2, SaverGoesOn
    <2>3. CASE LoadMap(g)
      <3> DEFINE h == [g EXCEPT !.pc = "store", !.found = mapStore[g.id].owner]
      <3>1. mapStore[g.id].owner \in Tasks \cup {None}
        BY <1>1 DEF BookInv, SavingInv, Stores
      <3>2. h \in Savers /\ h.task = g.task /\ h.id = g.id
        BY <1>1, <3>1, SaverFacts
      <3>3. savers' = (savers \ {g}) \cup {h} /\ signal' = signal
        BY <2>3 DEF LoadMap
      <3> HIDE DEF h
      <3> QED BY <1>3, <3>2, <3>3, SaverGoesOn
    <2>4. CASE StoreState(g)
      <3>1. savers' = savers \ {g}
        BY <2>4 DEF StoreState
      <3>2. CASE signal' = Append(signal, Ack(g))
        BY <1>2, <1>3, <3>1, <3>2, SaverEnds
      <3>3. CASE signal' = Append(signal, Dec(g))
        BY <1>2, <1>3, <3>1, <3>3, SaverEnds
      <3> QED BY <2>4, <3>2, <3>3 DEF StoreState
    <2> QED BY <2>1, <2>2, <2>3, <2>4 DEF SaverStep
  <1> QED BY <1>4, <1>5 DEF BookInv

-----------------------------------------------------------------------------
(* Steps of the coordinator                                                *)

\* The coordinator believes of a task only what it has signalled.
LEMMA CoordinatorKeeps ==
    ASSUME BookInv, UNCHANGED <<savers, tookAt>>,
           \A i \in DOMAIN signal' : IsForce(i)' \/ Done(signal'[i].task, signal'[i].id),
           \A id \in DOMAIN pending' : \A t \in Tasks \ pending'[id] : Done(t, id),
           \A i \in DOMAIN checkpoints' : \A t \in Tasks : Done(t, checkpoints'[i])
    PROVE  AckedInv'
  BY DEF BookInv, AckedInv, Done, IsForce

LEMMA ReceivedDone ==
    ASSUME BookInv, NEW s, Receive(s)
    PROVE  /\ \A i \in DOMAIN signal' : IsForce(i)' \/ Done(signal'[i].task, signal'[i].id)
           /\ s.message # "ForceSaveState" =>
                 Done(s.task, s.id) /\ s.id \in CheckpointIds /\ s.task \in Tasks
  BY ReceiveFacts, MessageFacts DEF BookInv, AckedInv, IsForce

LEMMA SaveStateBook ==
    ASSUME BookInv, NEW id \in CheckpointIds, SaveState(id), coord = "running",
           \A i \in DOMAIN signal' : IsForce(i)' \/ Done(signal'[i].task, signal'[i].id)
    PROVE  SavingInv' /\ StoredInv' /\ PendingInv' /\ CleanInv' /\ AckedInv'
  <1>1. /\ pending' = With(pending, id, Tasks)
        /\ UNCHANGED <<snapshot, savers, mapStore, checkpoints, tookAt>>
    BY DEF SaveState, Begin, saving, history
  <1>2. SavingInv'
    BY <1>1 DEF BookInv, SavingInv
  <1>3. StoredInv'
    <2>1. db' = db \/ db' = CleanedDb
      BY DEF SaveState
    <2>2. DOMAIN CleanedDb \subseteq DOMAIN db
      BY DEF CleanedDb, Restrict
    <2> QED BY <1>1, <2>1, <2>2 DEF BookInv, StoredInv
  <1>4. PendingInv'
    BY <1>1 DEF BookInv, PendingInv, With
  <1>5. CleanInv'
    <2>1. toBeClean \in Nat /\ toBeClean < CleanThreshold /\ CleanThreshold \in Nat \ {0}
      BY StoreAssumption DEF BookInv, CleanInv
    <2>2. \/ toBeClean + 1 < CleanThreshold /\ toBeClean' = toBeClean + 1 /\ coord' = coord
          \/ coord' = "panicked" /\ toBeClean' = toBeClean + 1
          \/ coord' = coord /\ toBeClean' = 0
      BY DEF SaveState
    <2> QED BY <2>1, <2>2 DEF CleanInv
  <1>6. AckedInv'
    <2>1. \A i \in DOMAIN pending' : \A t \in Tasks \ pending'[i] : Done(t, i)
      BY <1>1 DEF BookInv, AckedInv, With
    <2>2. \A i \in DOMAIN checkpoints' : \A t \in Tasks : Done(t, checkpoints'[i])
      BY <1>1 DEF BookInv, AckedInv
    <2> QED BY <1>1, <2>1, <2>2, CoordinatorKeeps
  <1> QED BY <1>2, <1>3, <1>4, <1>5, <1>6

LEMMA OnTickBook ==
    ASSUME BookInv, TimeInv, OnTick
    PROVE  BookInv'
  <1>1. CASE inForceSaveState
    BY <1>1, QuietBook DEF OnTick, flowVars, history, coordination, client
  <1>2. CASE ~inForceSaveState
    <2>1. SaveState(tick) /\ tick \in CheckpointIds /\ coord = "running"
      BY <1>2 DEF OnTick, TimeInv
    <2>2. UNCHANGED <<signal, inForceSaveState, notify, stop>>
      BY <2>1 DEF OnTick, SaveState, client
    <2>3. ForceInv'
      BY <2>2 DEF BookInv, ForceInv, IsForce
    <2>4. \A i \in DOMAIN signal' : IsForce(i)' \/ Done(signal'[i].task, signal'[i].id)
      BY <2>2 DEF BookInv, AckedInv, IsForce
    <2> QED BY <2>1, <2>3, <2>4, SaveStateBook DEF BookInv
  <1> QED BY <1>1, <1>2

LEMMA OnForceBook ==
    ASSUME BookInv, NEW s, OnForceSaveState(s)
    PROVE  BookInv'
  <1>1. /\ Receive(s) /\ s.message = "ForceSaveState" /\ SaveState(clock + 1)
        /\ clock + 1 \in CheckpointIds /\ coord = "running" /\ inForceSaveState' = TRUE
        /\ UNCHANGED <<notify, stop>>
    BY DEF OnForceSaveState, SaveState, Receive, client
  <1>2. ForceInv'
    <2>1. /\ s = signal[1] /\ 1 \in DOMAIN signal /\ signal' \in Seq(Message)
          /\ \A i \in DOMAIN signal' :
                i + 1 \in DOMAIN signal /\ i + 1 # 1 /\ signal'[i] = signal[i + 1]
      BY <1>1, ReceiveFacts DEF BookInv
    <2>2. IsForce(1)
      BY <1>1, <2>1 DEF IsForce
    <2>3. stop # None /\ notify = 0 /\ \A i \in DOMAIN signal : IsForce(i) => i = 1
      BY <2>1, <2>2 DEF BookInv, ForceInv
    <2>4. \A i \in DOMAIN signal' : ~IsForce(i)'
      BY <2>1, <2>3 DEF IsForce
    <2> QED BY <1>1, <2>1, <2>3, <2>4 DEF BookInv, ForceInv
  <1> QED BY <1>1, <1>2, ReceivedDone, SaveStateBook DEF BookInv

LEMMA OnDecBook ==
    ASSUME BookInv, NEW s, OnDec(s)
    PROVE  BookInv'
  <1>1. /\ Receive(s) /\ FinishForceSaveState
        /\ pending' = Restrict(pending, DOMAIN pending \ {s.id})
        /\ UNCHANGED <<snapshot, savers, mapStore, checkpoints, db, coord, toBeClean, stop, tookAt>>
    BY DEF OnDec, saving, stored, flowVars, history
  <1>2. SavingInv' /\ StoredInv' /\ CleanInv'
    BY <1>1 DEF BookInv, SavingInv, StoredInv, CleanInv
  <1>3. ForceInv'
    BY <1>1, EndForce DEF BookInv
  <1>4. PendingInv'
    BY <1>1 DEF BookInv, PendingInv, Restrict
  <1>5. AckedInv'
    <2>1. \A id \in DOMAIN pending' : \A t \in Tasks \ pending'[id] : Done(t, id)
      BY <1>1 DEF BookInv, AckedInv, Restrict
    <2>2. \A i \in DOMAIN checkpoints' : \A t \in Tasks : Done(t, checkpoints'[i])
      BY <1>1 DEF BookInv, AckedInv
    <2> QED BY <1>1, <2>1, <2>2, ReceivedDone, CoordinatorKeeps
  <1> QED BY <1>2, <1>3, <1>4, <1>5 DEF BookInv

LEMMA SavedFacts ==
    ASSUME StoredInv, NEW id \in CheckpointIds
    PROVE  LET all == SavedCheckpoints(id)
           IN  /\ all \in Seq(CheckpointIds) /\ Len(all) <= MaxSaved
               /\ \E d \in {0, 1} : \A i \in DOMAIN all :
                     \/ all[i] = id /\ i = Len(all)
                     \/ i + d \in DOMAIN checkpoints /\ all[i] = checkpoints[i + d]
  <1> DEFINE all == Append(checkpoints, id)
  <1>1. checkpoints \in Seq(CheckpointIds) /\ Len(checkpoints) <= MaxSaved /\ MaxSaved \in Nat
    BY StoreAssumption DEF StoredInv
  <1>2. /\ all \in Seq(CheckpointIds) /\ Len(all) = Len(checkpoints) + 1
        /\ all[Len(checkpoints) + 1] = id
        /\ \A i \in 1 .. Len(checkpoints) : i \in DOMAIN checkpoints /\ all[i] = checkpoints[i]
    BY <1>1
  <1> HIDE DEF all
  <1>3. CASE Len(all) > MaxSaved
    <2>1. SavedCheckpoints(id) = Tail(all)
      BY <1>3 DEF SavedCheckpoints, all
    <2>2. /\ Tail(all) \in Seq(CheckpointIds) /\ Len(Tail(all)) = Len(checkpoints)
          /\ \A i \in 1 .. Len(checkpoints) : Tail(all)[i] = all[i + 1]
      BY <1>1, <1>2
    <2>3. \A i \in 1 .. Len(checkpoints) :
             \/ i = Len(checkpoints) /\ all[i + 1] = id
             \/ i + 1 \in DOMAIN checkpoints /\ all[i + 1] = checkpoints[i + 1]
      BY <1>1, <1>2
    <2> QED BY <1>1, <2>1, <2>2, <2>3
  <1>4. CASE ~(Len(all) > MaxSaved)
    <2>1. SavedCheckpoints(id) = all
      BY <1>4 DEF SavedCheckpoints, all
    <2> QED BY <1>1, <1>2, <1>4, <2>1
  <1> QED BY <1>3, <1>4

\* What is saved when the last task has acknowledged a checkpoint.
LEMMA CompleteFacts ==
    ASSUME BookInv, NEW s, Receive(s), s.message = "ACK", s.id \in DOMAIN pending,
           Acked(s)[s.id] = {}, Complete(s.id)
    PROVE  /\ mapStore' \in [CheckpointIds -> Stores] /\ StoredInv' /\ PendingInv'
           /\ \A t \in Tasks : Done(t, s.id)
           /\ \A id \in DOMAIN pending' : id \in DOMAIN pending /\ (id = s.id \/ pending'[id] = pending[id])
           /\ checkpoints' = checkpoints \/ checkpoints' = SavedCheckpoints(s.id)
  <1>1. s.id \in CheckpointIds /\ s.task \in Tasks /\ Done(s.task, s.id)
    BY ReceivedDone
  <1>2. \A t \in Tasks : Done(t, s.id)
    <2>1. pending[s.id] \ {s.task} = {}
      BY DEF Acked
    <2> QED BY <1>1, <2>1 DEF BookInv, AckedInv
  <1>3. /\ checkpoints' = checkpoints \/ checkpoints' = SavedCheckpoints(s.id)
        /\ mapStore' = mapStore \/ mapStore' = SavedMaps
        /\ db' = db \/ db' = With(db, s.id, mapStore[s.id].states)
        /\ pending' = Restrict(pending, Remaining(s.id)) \/ pending' = [pending EXCEPT ![s.id] = {}]
    BY DEF Complete, SavedDb
  <1>4. mapStore' \in [CheckpointIds -> Stores]
    <2>1. NoStore \in Stores
      BY MapFacts DEF NoStore, Stores
    <2> QED BY <1>3, <2>1 DEF SavedMaps, BookInv, SavingInv
  <1>5. StoredInv'
    <2>1. checkpoints' \in Seq(CheckpointIds) /\ Len(checkpoints') <= MaxSaved
      BY <1>1, <1>3, SavedFacts DEF BookInv, StoredInv
    <2>2. DOMAIN db' \subseteq CheckpointIds
      BY <1>1, <1>3 DEF BookInv, StoredInv, With
    <2> QED BY <2>1, <2>2 DEF StoredInv
  <1>6. /\ PendingInv'
        /\ \A id \in DOMAIN pending' : id \in DOMAIN pending /\ (id = s.id \/ pending'[id] = pending[id])
    <2>1. CASE pending' = Restrict(pending, Remaining(s.id))
      BY <2>1 DEF Restrict, Remaining, BookInv, PendingInv
    <2>2. CASE pending' = [pending EXCEPT ![s.id] = {}]
      BY <2>2 DEF BookInv, PendingInv
    <2> QED BY <1>3, <2>1, <2>2
  <1> QED BY <1>2, <1>3, <1>4, <1>5, <1>6

LEMMA OnAckBook ==
    ASSUME BookInv, NEW s, OnAck(s)
    PROVE  BookInv'
  <1>1. /\ Receive(s) /\ s.message = "ACK"
        /\ UNCHANGED <<snapshot, savers, coord, toBeClean, stop, tookAt>>
    BY DEF OnAck, flowVars, history
  <1>2. s.id \in CheckpointIds /\ s.task \in Tasks /\ Done(s.task, s.id)
    BY <1>1, ReceivedDone
  <1>3. CleanInv'
    BY <1>1 DEF BookInv, CleanInv
  <1>4. ForceInv'
    <2>1. FinishForceSaveState \/ UNCHANGED <<inForceSaveState, notify>>
      BY DEF OnAck
    <2> QED BY <1>1, <2>1, EndForce DEF BookInv
  <1>5. CASE s.id \in DOMAIN pending /\ Acked(s)[s.id] = {}
    <2>1. Complete(s.id)
      BY <1>5 DEF OnAck
    <2>2. /\ mapStore' \in [CheckpointIds -> Stores] /\ StoredInv' /\ PendingInv'
          /\ \A t \in Tasks : Done(t, s.id)
          /\ \A id \in DOMAIN pending' :
                id \in DOMAIN pending /\ (id = s.id \/ pending'[id] = pending[id])
          /\ checkpoints' = checkpoints \/ checkpoints' = SavedCheckpoints(s.id)
      BY <1>1, <1>5, <2>1, CompleteFacts
    <2>3. SavingInv'
      BY <1>1, <2>2 DEF BookInv, SavingInv
    <2>4. \A id \in DOMAIN pending' : \A t \in Tasks \ pending'[id] : Done(t, id)
      BY <2>2 DEF BookInv, AckedInv
    <2>5. \A i \in DOMAIN checkpoints' : \A t \in Tasks : Done(t, checkpoints'[i])
      <3>1. \A i \in DOMAIN checkpoints : \A t \in Tasks : Done(t, checkpoints[i])
        BY DEF BookInv, AckedInv
      <3>2. CASE checkpoints' = SavedCheckpoints(s.id)
        <4> DEFINE all == SavedCheckpoints(s.id)
        <4>1. \A i \in DOMAIN all :
                 all[i] = s.id \/ \E d \in {0, 1} : i + d \in DOMAIN checkpoints /\ all[i] = checkpoints[i + d]
          BY <1>2, SavedFacts DEF BookInv
        <4> HIDE DEF all
        <4>2. \A i \in DOMAIN all : \A t \in Tasks : Done(t, all[i])
          BY <2>2, <3>1, <4>1
        <4> QED BY <3>2, <4>2 DEF all
      <3> QED BY <2>2, <3>1, <3>2
    <2>6. AckedInv'
      BY <1>1, <2>4, <2>5, ReceivedDone, CoordinatorKeeps
    <2> QED BY <1>3, <1>4, <2>2, <2>3, <2>6 DEF BookInv
  <1>6. CASE ~(s.id \in DOMAIN pending /\ Acked(s)[s.id] = {})
    <2>1. /\ UNCHANGED <<checkpoints, db, mapStore>>
          /\ pending' = IF s.id \in DOMAIN pending THEN Acked(s) ELSE pending
      BY <1>6 DEF OnAck, stored
    <2>2. SavingInv' /\ StoredInv'
      BY <1>1, <2>1 DEF BookInv, SavingInv, StoredInv
    <2>3. PendingInv' /\ \A id \in DOMAIN pending' : \A t \in Tasks \ pending'[id] : Done(t, id)
      BY <1>2, <2>1 DEF BookInv, PendingInv, AckedInv, Acked
    <2>4. AckedInv'
      BY <1>1, <2>1, <2>3, ReceivedDone, CoordinatorKeeps DEF BookInv, AckedInv
    <2> QED BY <1>3, <1>4, <2>2, <2>3, <2>4 DEF BookInv
  <1> QED BY <1>5, <1>6

-----------------------------------------------------------------------------
(* The end of the rule                                                     *)

LEMMA EndBook ==
    ASSUME BookInv, OnDone \/ ForceSaveState \/ Notified \/ TimedOut \/ Cancel
    PROVE  BookInv'
  <1>1. UNCHANGED <<snapshot, savers, mapStore, checkpoints, db, pending, toBeClean,
                    inForceSaveState, tookAt>>
    BY DEF OnDone, ForceSaveState, Notified, TimedOut, Cancel, CancelContext, saving, stored,
           coordination, flowVars, history
  <1>2. SavingInv' /\ StoredInv' /\ PendingInv'
    BY <1>1 DEF BookInv, SavingInv, StoredInv, PendingInv
  <1>3. CleanInv'
    BY <1>1 DEF BookInv, CleanInv, OnDone, ForceSaveState, Notified, TimedOut, Cancel, coordination
  <1>4. CASE ForceSaveState
    <2> DEFINE m == [message |-> "ForceSaveState", id |-> 0, task |-> None]
    <2>1. m \in Message /\ signal \in Seq(Message)
      BY DEF Message, BookInv, ForceInv
    <2>2. signal' = Append(signal, m)
      BY <1>4 DEF ForceSaveState
    <2>3. m.message = "ForceSaveState"
      OBVIOUS
    <2> HIDE DEF m
    <2>4. /\ signal' \in Seq(Message)
          /\ \A i \in DOMAIN signal' :
                \/ i \in DOMAIN signal /\ signal'[i] = signal[i]
                \/ i = Len(signal) + 1 /\ signal'[i] = m
      BY <2>1, <2>2, SignalFacts
    <2>5. stop = None /\ stop' = "saving" /\ notify' = notify
      BY <1>4 DEF ForceSaveState
    <2>6. ~inForceSaveState /\ notify = 0 /\ \A i \in DOMAIN signal : ~IsForce(i)
      BY <2>5 DEF BookInv, ForceInv
    <2>7. \A i \in DOMAIN signal' : IsForce(i)' => i = Len(signal) + 1
      BY <2>4, <2>6 DEF IsForce
    <2>8. ForceInv'
      <3>1. inForceSaveState' = inForceSaveState /\ inForceSaveState \in BOOLEAN /\ stop' # None
        BY <1>1, <2>5, StoreAssumption DEF BookInv, ForceInv
      <3> QED BY <2>4, <2>5, <2>6, <2>7, <3>1 DEF ForceInv
    <2>9. \A i \in DOMAIN signal' : IsForce(i)' \/ Done(signal'[i].task, signal'[i].id)
      BY <2>3, <2>4 DEF BookInv, AckedInv, IsForce
    <2>10. AckedInv'
      BY <1>1, <2>9, CoordinatorKeeps DEF BookInv, AckedInv
    <2> QED BY <1>2, <1>3, <2>8, <2>10 DEF BookInv
  <1>5. CASE OnDone \/ Notified \/ TimedOut \/ Cancel
    <2>1. signal' = signal
      BY <1>5 DEF OnDone, Notified, TimedOut, Cancel
    <2>2. AckedInv'
      BY <1>1, <2>1 DEF BookInv, AckedInv, Done, IsForce
    <2>3. \A i : IsForce(i)' = IsForce(i)
      BY <2>1 DEF IsForce
    <2>4. CASE OnDone
      <3>1. UNCHANGED <<notify, stop>>
        BY <2>4 DEF OnDone, client
      <3> QED BY <1>1, <1>2, <1>3, <2>1, <2>2, <2>3, <3>1 DEF BookInv, ForceInv
    <2>5. CASE Notified
      <3>1. notify = 1 /\ notify' = 0 /\ stop = "saving" /\ stop' = "saved" /\ stop' # None
        BY <2>5, StoreAssumption DEF Notified, BookInv, ForceInv
      <3> QED BY <1>1, <1>2, <1>3, <2>1, <2>2, <2>3, <3>1 DEF BookInv, ForceInv
    <2>6. CASE TimedOut
      <3>1. notify' = notify /\ stop = "saving" /\ stop' = "timedOut" /\ stop' # None
        BY <2>6, StoreAssumption DEF TimedOut
      <3> QED BY <1>1, <1>2, <1>3, <2>1, <2>2, <2>3, <3>1 DEF BookInv, ForceInv
    <2>7. CASE Cancel
      <3>1. notify' = notify /\ stop = None /\ stop' = "cancelled" /\ stop' # None
        BY <2>7, StoreAssumption DEF Cancel
      <3> QED BY <1>1, <1>2, <1>3, <2>1, <2>2, <2>3, <3>1 DEF BookInv, ForceInv
    <2> QED BY <1>2, <1>3, <1>5, <2>2, <2>4, <2>5, <2>6, <2>7 DEF BookInv
  <1> QED BY <1>4, <1>5

-----------------------------------------------------------------------------
(* The theorems                                                            *)

LEMMA BookStep ==
    ASSUME OnceInv, TimeInv, BookInv, [Next]_vars
    PROVE  BookInv'
  <1>1. TookOnce
    BY StepOfFlow, OnceInvStep
  <1>2. CASE TaskStep
    <2>1. tookAt' = tookAt
      BY <1>2 DEF TaskStep, SourceStep, Ingest, UpdateState, SendBarrier, Withhold, Process,
                  CountBarrier, history
    <2> QED BY <1>2, <2>1, QuietBook DEF TaskStep
  <1>3. CASE TickerFires \/ UNCHANGED vars
    BY <1>3, QuietBook DEF TickerFires, vars, flowVars, history
  <1>4. CASE SignalStep
    BY <1>4, OnForceBook, OnAckBook, OnDecBook DEF SignalStep
  <1> QED BY <1>1, <1>2, <1>3, <1>4, SnapshotBook, SaverBook, OnTickBook, EndBook DEF Next

LEMMA BookHolds == Spec => []BookInv
  <1>1. Init => BookInv
    <2> SUFFICES ASSUME Init PROVE BookInv
      OBVIOUS
    <2>1. DOMAIN Empty = {} /\ Empty \in Maps
      BY MapFacts DEF Empty
    <2>2. NoStore \in Stores
      BY <2>1 DEF NoStore, Stores
    <2>3. SavingInv
      BY <2>2 DEF Init, SavingInv, States
    <2>4. StoredInv /\ PendingInv /\ CleanInv
      BY <2>1, StoreAssumption DEF Init, StoredInv, PendingInv, CleanInv
    <2>5. ForceInv
      <3>1. signal \in Seq(Message) /\ DOMAIN signal = {}
        BY DEF Init
      <3>2. inForceSaveState = FALSE /\ notify = 0 /\ stop = None
        BY DEF Init
      <3>3. ~inForceSaveState /\ inForceSaveState \in BOOLEAN
        BY <3>2, Zenon
      <3>4. notify \in 0 .. 1
        BY <3>2
      <3> QED BY <3>1, <3>2, <3>3, <3>4 DEF ForceInv
    <2>6. AckedInv
      BY <2>1 DEF Init, AckedInv
    <2> QED BY <2>3, <2>4, <2>5, <2>6 DEF BookInv
  <1>2. Spec => []OnceInv
    BY FlowImplemented, OnceInvHolds, PTL DEF ImplementsFlow
  <1> QED BY <1>1, <1>2, BookStep, TimeHolds, PTL DEF Spec

\* Every variable of the coordinator, the contexts and the store has the values its
\* counterpart in the code can have; above all at most one forced save is under way.
THEOREM CheckpointTypeCorrect == Spec => []TypeOK
  <1>1. TimeInv /\ BookInv => TypeOK
    <2> SUFFICES ASSUME TimeInv, BookInv PROVE TypeOK
      OBVIOUS
    <2>1. \A t \in Tasks : snapshot[t] = None \/ snapshot[t] \subseteq Events
      BY DEF BookInv, SavingInv, States
    <2>2. \A g \in savers : g.task \in Tasks /\ g.pc \in {"take", "load", "store"}
      BY DEF BookInv, SavingInv, Savers
    <2>3. \A id \in CheckpointIds : DOMAIN mapStore[id].states \subseteq Tasks
      BY MapFacts DEF BookInv, SavingInv, Stores
    <2>4. Range(checkpoints) \subseteq CheckpointIds /\ Range(signal) \subseteq Message
      BY DEF BookInv, StoredInv, ForceInv, Range
    <2> QED BY <2>1, <2>2, <2>3, <2>4
            DEF TypeOK, TimeInv, BookInv, StoredInv, PendingInv, CleanInv, ForceInv
  <1> QED BY <1>1, TimeHolds, BookHolds, PTL

\* A checkpoint is listed as completed only when every task has taken its snapshot for it
\* and none is still being saved, however the acknowledgements of several checkpoints
\* interleave, fail, or come after the checkpoint was given up (Coordinator.complete).
THEOREM CheckpointsAreWhole == Spec => []CompletesWhole
  <1>1. OnceInv /\ BookInv => CompletesWhole
    <2> SUFFICES ASSUME OnceInv, BookInv, NEW id \in Range(checkpoints)
                 PROVE  DOMAIN tookAt[id] = Tasks /\ \A g \in triggers \cup savers : g.id # id
      BY DEF CompletesWhole
    <2>1. id \in CheckpointIds /\ \A t \in Tasks : Done(t, id)
      BY DEF BookInv, AckedInv, StoredInv, Range
    <2>2. DOMAIN tookAt[id] = Tasks
      BY <2>1 DEF Done, OnceInv, FlowInv, ShapeInv
    <2>3. \A g \in savers : g.id # id
      BY <2>1 DEF Done, BookInv, SavingInv, Savers
    <2>4. \A g \in triggers : g.id # id
      BY <2>2 DEF OnceInv, TakenInv, FlowInv, ShapeInv, Tasks
    <2> QED BY <2>2, <2>3, <2>4
  <1>2. Spec => []OnceInv
    BY FlowImplemented, OnceInvHolds, PTL DEF ImplementsFlow
  <1> QED BY <1>1, <1>2, BookHolds, PTL

-----------------------------------------------------------------------------
(* The order of the checkpoints                                            *)

NeverForced == stop # "saving"

\* A tick that waits is newer than what has begun, and what is listed as completed older
\* than what is pending.
ListInv ==
    /\ \A i \in DOMAIN signal : ~IsForce(i)
    /\ tick # 0 => tick = clock /\ \A id \in begun : id < tick
    /\ DOMAIN pending \subseteq begun
    /\ \A i \in DOMAIN checkpoints :
          checkpoints[i] \in begun /\ \A id \in DOMAIN pending : checkpoints[i] < id
    /\ CompletesInOrder

LEMMA ListKept ==
    ASSUME ListInv, UNCHANGED <<clock, tick, begun, checkpoints>>,
           \A i \in DOMAIN signal' : ~IsForce(i)', DOMAIN pending' \subseteq DOMAIN pending
    PROVE  ListInv'
  BY DEF ListInv, CompletesInOrder

LEMMA ReceiveList ==
    ASSUME ListInv, ForceInv, NEW s, Receive(s)
    PROVE  s.message # "ForceSaveState" /\ \A i \in DOMAIN signal' : ~IsForce(i)'
  BY ReceiveFacts DEF ListInv, IsForce

LEMMA TickList ==
    ASSUME ListInv, TimeInv, TickerFires
    PROVE  ListInv'
  <1>1. /\ tick' = clock + 1 /\ clock' = clock + 1
        /\ UNCHANGED <<begun, checkpoints, signal, pending>>
    BY DEF TickerFires, flowVars, stored, coordination
  <1>2. clock \in Nat /\ begun \subseteq 1 .. clock
    BY ClockFacts DEF TimeInv
  <1>3. \A id \in begun' : id < tick'
    BY <1>1, <1>2
  <1> QED BY <1>1, <1>3 DEF ListInv, IsForce, CompletesInOrder

LEMMA OnTickList ==
    ASSUME ListInv, TimeInv, BookInv, OnTick
    PROVE  ListInv'
  <1>1. /\ tick' = 0 /\ tick # 0 /\ UNCHANGED <<clock, signal, checkpoints>>
        /\ \/ UNCHANGED <<begun, pending>>
           \/ begun' = begun \cup {tick} /\ pending' = With(pending, tick, Tasks)
    BY DEF OnTick, SaveState, Begin, stored, flowVars
  <1>2. \A id \in begun : id < tick
    BY <1>1 DEF ListInv
  <1>3. DOMAIN With(pending, tick, Tasks) = DOMAIN pending \cup {tick}
    BY DEF With
  <1>4. \A i \in DOMAIN checkpoints :
           checkpoints[i] \in begun /\ \A id \in DOMAIN pending : checkpoints[i] < id
    BY DEF ListInv
  <1>5. \A i \in DOMAIN checkpoints : \A id \in DOMAIN pending' : checkpoints[i] < id
    BY <1>1, <1>2, <1>3, <1>4
  <1>6. DOMAIN pending' \subseteq begun' /\ begun \subseteq begun'
    BY <1>1, <1>3 DEF ListInv
  <1> QED BY <1>1, <1>4, <1>5, <1>6 DEF ListInv, IsForce, CompletesInOrder

LEMMA OnAckList ==
    ASSUME ~CanFail, ListInv, TimeInv, BookInv, NEW s, OnAck(s)
    PROVE  ListInv'
  <1>1. Receive(s) /\ UNCHANGED <<clock, tick, begun>>
    BY DEF OnAck, time, flowVars
  <1>2. \A i \in DOMAIN signal' : ~IsForce(i)'
    BY <1>1, ReceiveList DEF BookInv
  <1>3. CASE s.id \in DOMAIN pending /\ Acked(s)[s.id] = {} /\ mapStore[s.id].owner # None
    <2>1. checkpoints' = SavedCheckpoints(s.id) /\ pending' = Restrict(pending, Remaining(s.id))
      BY <1>3 DEF OnAck, Complete
    <2>2. s.id \in CheckpointIds /\ s.id \in begun /\ begun \subseteq Nat
      BY <1>3, ClockFacts DEF ListInv, BookInv, PendingInv, FlowInv, TimeInv
    <2>3. DOMAIN pending' \subseteq DOMAIN pending /\ \A id \in DOMAIN pending' : s.id < id
      BY <2>1, <2>2 DEF Restrict, Remaining
    <2> DEFINE all == SavedCheckpoints(s.id)
    <2>4. all \in Seq(CheckpointIds) /\ \E d \in {0, 1} : \A i \in DOMAIN all :
             \/ all[i] = s.id /\ i = Len(all)
             \/ i + d \in DOMAIN checkpoints /\ all[i] = checkpoints[i + d]
      BY <2>2, SavedFacts DEF BookInv
    <2>5. \A i \in DOMAIN checkpoints : checkpoints[i] \in begun /\ checkpoints[i] < s.id
      BY <1>3 DEF ListInv
    <2>6. \A i, j \in DOMAIN all : i < j => all[i] < all[j]
      <3>1. PICK d \in {0, 1} : \A i \in DOMAIN all :
               \/ all[i] = s.id /\ i = Len(all)
               \/ i + d \in DOMAIN checkpoints /\ all[i] = checkpoints[i + d]
        BY <2>4
      <3>2. \A i, j \in DOMAIN checkpoints : i < j => checkpoints[i] < checkpoints[j]
        BY DEF ListInv, CompletesInOrder
      <3>3. \A i \in DOMAIN all : i \in 1 .. Len(all) /\ Len(all) \in Nat
        BY <2>4
      <3> HIDE DEF all
      <3> QED BY <2>5, <3>1, <3>2, <3>3
    <2> HIDE DEF all
    <2>7. \A i \in DOMAIN all : all[i] \in begun /\ \A id \in DOMAIN pending' : all[i] < id
      <3>1. \A id \in DOMAIN pending' : id \in Nat /\ s.id < id
        BY <2>2, <2>3 DEF ListInv
      <3>2. ASSUME NEW c \in begun, c = s.id \/ c < s.id, NEW id \in DOMAIN pending'
            PROVE  c < id
        <4>1. c \in Nat /\ s.id \in Nat /\ id \in Nat /\ s.id < id
          BY <2>2, <3>1
        <4> QED BY <3>2, <4>1
      <3> QED BY <2>2, <2>4, <2>5, <3>2
    <2>8. checkpoints' = all
      BY <2>1 DEF all
    <2> QED BY <1>1, <1>2, <2>3, <2>6, <2>7, <2>8 DEF ListInv, CompletesInOrder
  <1>4. CASE ~(s.id \in DOMAIN pending /\ Acked(s)[s.id] = {} /\ mapStore[s.id].owner # None)
    <2>1. checkpoints' = checkpoints
      BY <1>4 DEF OnAck, Complete, stored
    <2>2. DOMAIN pending' \subseteq DOMAIN pending
      BY <1>4 DEF OnAck, Complete, Acked
    <2> QED BY <1>1, <1>2, <2>1, <2>2, ListKept
  <1> QED BY <1>3, <1>4

LEMMA ListStep ==
    ASSUME ~CanFail, OnceInv, TimeInv, BookInv, ListInv, NeverForced', [Next]_vars
    PROVE  ListInv'
  <1>1. CASE UNCHANGED <<clock, tick, begun, checkpoints, pending, signal>>
    BY <1>1, ListKept DEF ListInv, IsForce
  <1>2. CASE TaskStep
    BY <1>1, <1>2 DEF TaskStep, SourceStep, Ingest, UpdateState, SendBarrier, Withhold, Process,
                      CountBarrier, time, stored, coordination
  <1>3. CASE SnapshotStep
    BY <1>1, <1>3 DEF SnapshotStep, TakeSnapshot, TriggerNode, time, stored, coordination
  <1>4. ASSUME NEW g \in savers, SaverStep(g) PROVE ListInv'
    <2>1. UNCHANGED <<clock, tick, begun, checkpoints, pending>>
      BY <1>4 DEF SaverStep, TakeFromContext, LoadMap, StoreState, time, stored, coordination,
                  flowVars
    <2>2. signal' = signal \/ signal' = Append(signal, Ack(g)) \/ signal' = Append(signal, Dec(g))
      BY <1>4 DEF SaverStep, TakeFromContext, LoadMap, StoreState
    <2>3. /\ Ack(g) \in Message /\ Ack(g).message # "ForceSaveState"
          /\ Dec(g) \in Message /\ Dec(g).message # "ForceSaveState"
      BY <1>4, MessageFacts DEF BookInv, SavingInv
    <2>4. \A i \in DOMAIN signal : ~IsForce(i)
      BY DEF ListInv
    <2>5. signal \in Seq(Message)
      BY DEF BookInv, ForceInv
    <2>6. \A i \in DOMAIN signal' : ~IsForce(i)'
      <3>1. CASE signal' = signal
        BY <2>4, <3>1 DEF IsForce
      <3>2. ASSUME NEW m \in Message, m.message # "ForceSaveState", signal' = Append(signal, m)
            PROVE  \A i \in DOMAIN signal' : ~IsForce(i)'
        BY <2>4, <2>5, <3>2, SignalFacts DEF IsForce
      <3> QED BY <2>2, <2>3, <3>1, <3>2
    <2> QED BY <2>1, <2>6, ListKept
  <1>5. CASE SignalStep
    <2>1. PICK s \in Range(signal) : OnForceSaveState(s) \/ OnAck(s) \/ OnDec(s)
      BY <1>5 DEF SignalStep
    <2>2. CASE OnForceSaveState(s)
      BY <2>2, ReceiveList DEF OnForceSaveState, BookInv
    <2>3. CASE OnDec(s)
      <3>1. /\ UNCHANGED <<clock, tick, begun, checkpoints>> /\ Receive(s)
            /\ DOMAIN pending' \subseteq DOMAIN pending
        BY <2>3 DEF OnDec, time, stored, flowVars, Restrict
      <3> QED BY <3>1, ReceiveList, ListKept DEF BookInv
    <2> QED BY <2>1, <2>2, <2>3, OnAckList
  <1>6. CASE OnDone \/ Notified \/ TimedOut \/ Cancel
    BY <1>1, <1>6 DEF OnDone, Notified, TimedOut, Cancel, CancelContext, time, stored, coordination,
                      flowVars
  <1>7. CASE ForceSaveState
    BY <1>7 DEF ForceSaveState, NeverForced
  <1>8. CASE UNCHANGED vars
    BY <1>1, <1>8 DEF vars, time, stored, coordination, flowVars
  <1> QED BY <1>2, <1>3, <1>4, <1>5, <1>6, <1>7, <1>8, TickList, OnTickList DEF Next

\* While no save is forced and the store does not fail, the list of completed checkpoints is
\* in the order they began, whichever of them are given up or overtaken: the answer to "TODO
\* is the order promised?" of KVStore.SaveCheckpoint (kv_store.go:104).  A forced save may
\* break the order: a tick that waits in the ticker's channel until the save has ended begins
\* an older checkpoint after it.
THEOREM CheckpointsInOrder ==
    ~CanFail => (Spec /\ []NeverForced => []CheckpointsSound)
  <1> SUFFICES ASSUME ~CanFail PROVE Spec /\ []NeverForced => []CheckpointsSound
    OBVIOUS
  <1>1. Init => ListInv
    BY DEF Init, Empty, ListInv, CompletesInOrder
  <1>2. Spec => []OnceInv
    BY FlowImplemented, OnceInvHolds, PTL DEF ImplementsFlow
  <1>3. TypeOK /\ CompletesWhole /\ ListInv => CheckpointsSound
    BY DEF ListInv, CheckpointsSound
  <1> QED BY <1>1, <1>2, <1>3, ListStep, TimeHolds, BookHolds, CheckpointTypeCorrect,
             CheckpointsAreWhole, PTL DEF Spec
=============================================================================
