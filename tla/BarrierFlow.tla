---------------------------- MODULE BarrierFlow ----------------------------
(***************************************************************************)
(* How barriers and events flow through the tasks of a rule, and when each *)
(* task takes its snapshot: ResponderExecutor.TriggerCheckpoint, the       *)
(* nodes' channels and preprocess, SourceNode.                             *)
(*                                                                         *)
(* A checkpoint begins with a goroutine for every source that sends a      *)
(* barrier and takes the source's snapshot.  A node that handles its last  *)
(* barrier does the same in its own goroutine.  When checkpoints begin is  *)
(* left open here; Checkpoint.tla adds the coordinator that decides it.    *)
(*                                                                         *)
(* A task's state is the set of the events it has consumed; event <<s, k>> *)
(* is the k-th of source s, so that a source's state is its offset.        *)
(* Checkpoint ids are milliseconds: two checkpoints are assumed not to     *)
(* begin in the same one.                                                  *)
(***************************************************************************)
EXTENDS BarrierHandler, Functions

CONSTANTS
    Sources,        \* tasksToTrigger of the coordinator
    Ops,            \* operators: barrier handler by the qos
    Sinks,          \* sinks: always a BarrierTracker
    Upstream,       \* for an operator or a sink, the tasks that send to it
    ExactlyOnce,    \* whether the qos is 2 rather than 1
    BufferLength,   \* capacity of a node's input channel
    None,           \* no value
    MaxEvents,      \* bound: events of one source
    CanStop         \* bound: whether the rule is stopped

Nodes == Ops \cup Sinks
Tasks == Sources \cup Nodes

\* A receiver has a connection from every one of its upstreams; the tasks are those
\* of one rule.
ASSUME TopologyAssumption ==
    /\ Sources \cap Nodes = {} /\ Ops \cap Sinks = {}
    /\ IsFiniteSet(Sources \cup Ops)
    /\ Upstream \in [Nodes -> (SUBSET (Sources \cup Ops)) \ {{}}]
    /\ {ExactlyOnce, CanStop} \subseteq BOOLEAN
    /\ BufferLength \in Nat \ {0} /\ MaxEvents \in Nat

VARIABLES
    offset,     \* how many events each source has sent
    sending,    \* sources between Broadcast and updateState
    input,      \* the input channel of each node
    handler,    \* barrierHandler of each node
    state,      \* the state in each task's context
    begun,      \* the checkpoints begun so far
    triggers,   \* goroutines that trigger a source: [task, id, pc]
    cancelled,  \* the rule's context is done
    \* History, not state of the program:
    sentAt,     \* what a task had sent when it sent the barrier of an id
    tookAt      \* the state a task had when it took the snapshot of an id

history  == <<sentAt, tookAt>>
flowVars == <<offset, sending, input, handler, state, begun, triggers, cancelled,
              history>>

Events == Sources \X (1 .. MaxEvents)

\* The map without entries, and a map with v stored under k.
Empty == << >>
With(map, k, v) == [x \in DOMAIN map \cup {k} |-> IF x = k THEN v ELSE map[x]]

\* What source s has sent.
Emitted(s) == {<<s, k>> : k \in 1 .. offset[s]}

Event(from, e)    == [from |-> from, event |-> e, id |-> 0]
Barrier(from, id) == [from |-> from, event |-> None, id |-> id]

Inputs(n) == Cardinality(Upstream[n])
Downstream(t) == {n \in Nodes : t \in Upstream[n]}

\* createBarrierHandler, and NewBarrierTracker for the sinks.
Aligns(n) == ExactlyOnce /\ n \in Ops

FlowInit ==
    /\ offset = [s \in Sources |-> 0] /\ sending = {}
    /\ input = [n \in Nodes |-> << >>]
    /\ handler = [n \in Nodes |-> NewHandler]
    /\ state = [t \in Tasks |-> {}]
    /\ begun = {} /\ triggers = {} /\ cancelled = FALSE
    /\ sentAt = [id \in CheckpointIds |-> Empty]
    /\ tookAt = [id \in CheckpointIds |-> Empty]

-----------------------------------------------------------------------------
(* Channels.                                                               *)

\* Mutant: the oldest item is dropped one too late.
EnqueueOneMore(q, item) ==
    Append(IF Len(q) > BufferLength THEN Tail(q) ELSE q, item)

\* doBroadcast to one channel: when it is full the oldest item is dropped.
Enqueue(q, item) ==
    Append(IF Len(q) >= BufferLength THEN Tail(q) ELSE q, item)

\* The receivers a broadcast of t reaches: every one, or fewer once the
\* context is done, when a send may give up in favour of ctx.Done.
Reaches(t) == IF cancelled THEN SUBSET Downstream(t) ELSE {Downstream(t)}

Sent(in, item, receivers) ==
    [n \in Nodes |-> IF n \in receivers THEN Enqueue(in[n], item) ELSE in[n]]

-----------------------------------------------------------------------------
(* Sources: SourceNode broadcasts an event, then stores its offset.        *)

Ingest(s) ==
    /\ s \notin sending /\ offset[s] < MaxEvents
    /\ offset' = [offset EXCEPT ![s] = @ + 1]
    /\ sending' = sending \cup {s}
    /\ \E receivers \in Reaches(s) :
          input' = Sent(input, Event(s, <<s, offset[s] + 1>>), receivers)
    /\ UNCHANGED <<handler, state, begun, triggers, cancelled, history>>

UpdateState(s) ==
    /\ s \in sending
    /\ sending' = sending \ {s}
    /\ state' = [state EXCEPT ![s] = Emitted(s)]
    /\ UNCHANGED <<offset, input, handler, begun, triggers, cancelled, history>>

-----------------------------------------------------------------------------
(* Triggering the sources.                                                 *)

\* Every source gets a goroutine.
Begin(id) ==
    /\ begun' = begun \cup {id}
    /\ triggers' = triggers \cup
           {[task |-> s, id |-> id, pc |-> "send"] : s \in Sources}
    /\ UNCHANGED <<offset, sending, input, handler, state, cancelled, history>>

\* The goroutine runs beside the one that ingests the source's events: first
\* it sends the barrier...
SendBarrier(g) ==
    /\ g \in triggers /\ g.pc = "send"
    /\ triggers' = (triggers \ {g}) \cup {[g EXCEPT !.pc = "snapshot"]}
    /\ \E receivers \in Reaches(g.task) :
          input' = Sent(input, Barrier(g.task, g.id), receivers)
    /\ sentAt' = [sentAt EXCEPT ![g.id] = With(@, g.task, Emitted(g.task))]
    /\ UNCHANGED <<offset, sending, handler, state, begun, cancelled, tookAt>>

\* ... and then it takes the snapshot.
TakeSnapshot(g) ==
    /\ g \in triggers /\ g.pc = "snapshot"
    /\ triggers' = triggers \ {g}
    /\ tookAt' = [tookAt EXCEPT ![g.id] = With(@, g.task, state[g.task])]
    /\ UNCHANGED <<offset, sending, input, handler, state, begun, cancelled,
                   sentAt>>

-----------------------------------------------------------------------------
(* Nodes: preprocess hands every item to the barrier handler first.        *)

NextIsEvent(n)   == input[n] # << >> /\ ~IsBarrier(Head(input[n]))
NextIsBarrier(n) == input[n] # << >> /\ IsBarrier(Head(input[n]))

\* The handler keeps the item: the event of a blocked upstream.
Withholds(n) == Aligns(n) /\ Buffers(handler[n], Inputs(n), Head(input[n]))

Withhold(n) ==
    /\ NextIsEvent(n) /\ Withholds(n)
    /\ handler' = [handler EXCEPT ![n] = Buffered(@, Head(input[n]))]
    /\ input' = [input EXCEPT ![n] = Tail(@)]
    /\ UNCHANGED <<offset, sending, state, begun, triggers, cancelled, history>>

\* The node consumes the event: its state counts it, and it is passed on.
Process(n) ==
    /\ NextIsEvent(n) /\ ~Withholds(n)
    /\ state' = [state EXCEPT ![n] = @ \cup {Head(input[n]).event}]
    /\ \E receivers \in Reaches(n) :
          input' = Sent([input EXCEPT ![n] = Tail(@)],
                        Event(n, Head(input[n]).event), receivers)
    /\ UNCHANGED <<offset, sending, handler, begun, triggers, cancelled, history>>

\* What the handler of n becomes with barrier b, and whether that triggers.
HandlerAfter(n, b) == IF Aligns(n) THEN Aligned(handler[n], Inputs(n), b)
                                   ELSE Tracked(handler[n], Inputs(n), b)

Triggers(n, b) == IF Aligns(n) THEN AlignerTriggers(handler[n], Inputs(n), b)
                               ELSE TrackerTriggers(handler[n], Inputs(n), b)

\* A barrier that does not trigger: counted, or ignored by an aligner.
CountBarrier(n) ==
    /\ NextIsBarrier(n) /\ ~Triggers(n, Head(input[n]))
    /\ handler' = [handler EXCEPT ![n] = HandlerAfter(n, Head(input[n]))]
    /\ input' = [input EXCEPT ![n] = Tail(@)]
    /\ UNCHANGED <<offset, sending, state, begun, triggers, cancelled, history>>

\* The node is triggered: it sends the barrier on and takes its snapshot.
TriggerNode(n) ==
    /\ NextIsBarrier(n) /\ Triggers(n, Head(input[n]))
    /\ handler' = [handler EXCEPT ![n] = HandlerAfter(n, Head(input[n]))]
    /\ LET id == Head(input[n]).id
       IN  /\ \E receivers \in Reaches(n) :
                 input' = Sent([input EXCEPT ![n] = Tail(@)], Barrier(n, id),
                               receivers)
           /\ sentAt' = [sentAt EXCEPT ![id] = With(@, n, state[n])]
           /\ tookAt' = [tookAt EXCEPT ![id] = With(@, n, state[n])]
    /\ UNCHANGED <<offset, sending, state, begun, triggers, cancelled>>

\* Topo.doClean cancels the context.
CancelContext ==
    /\ cancelled' = TRUE
    /\ UNCHANGED <<offset, sending, input, handler, state, begun, triggers,
                   history>>

-----------------------------------------------------------------------------

SourceStep(s)  == Ingest(s) \/ UpdateState(s)
TriggerStep(g) == SendBarrier(g) \/ TakeSnapshot(g)
NodeStep(n)    == Withhold(n) \/ Process(n) \/ CountBarrier(n) \/ TriggerNode(n)

FlowNext ==
    \/ \E s \in Sources  : SourceStep(s)
    \/ \E id \in CheckpointIds \ begun : Begin(id)
    \/ \E g \in triggers : TriggerStep(g)
    \/ \E n \in Nodes    : NodeStep(n)
    \/ CanStop /\ ~cancelled /\ CancelContext

FlowSpec == FlowInit /\ [][FlowNext]_flowVars

\* Every goroutine of the rule goes on: what is in its channel is handled, a
\* goroutine once started ends.  Nothing is assumed of the outside world:
\* events, checkpoints and the user's stop need not come.
FlowFairness ==
    /\ WF_flowVars(\E s \in Sources : UpdateState(s))
    /\ WF_flowVars(\E g \in triggers : TriggerStep(g))
    /\ WF_flowVars(\E n \in Nodes : NodeStep(n))

FairFlowSpec == FlowSpec /\ FlowFairness

-----------------------------------------------------------------------------
(* Properties.                                                             *)

Item == [from : Sources \cup Ops, event : Events, id : {0}]
           \cup [from : Sources \cup Ops, event : {None}, id : CheckpointIds]

\* Every variable has the values its counterpart in the code can have.
FlowTypeOK ==
    /\ offset \in [Sources -> 0 .. MaxEvents] /\ sending \subseteq Sources
    /\ \A n \in Nodes :
          /\ Len(input[n]) <= BufferLength /\ Range(input[n]) \subseteq Item
          /\ handler[n].counts \in [CheckpointIds -> 0 .. Inputs(n) - 1]
          /\ handler[n].current \in CheckpointIds \cup {0}
          /\ handler[n].blocked \subseteq Upstream[n]
          /\ Range(handler[n].buffer) \subseteq Item
    /\ state \in [Tasks -> SUBSET Events]
    /\ begun \subseteq CheckpointIds /\ cancelled \in BOOLEAN
    /\ triggers \subseteq [task : Sources, id : begun, pc : {"send", "snapshot"}]
    /\ \A id \in CheckpointIds : DOMAIN tookAt[id] \subseteq Tasks

\* What a node had been sent before the barriers of a checkpoint is in its
\* snapshot: nothing that precedes a checkpoint is missing from it (qos 1).
NothingMissing ==
    \A id \in CheckpointIds : \A n \in Nodes \cap DOMAIN tookAt[id] :
       \A u \in Upstream[n] :
          u \in DOMAIN sentAt[id] /\ sentAt[id][u] \subseteq tookAt[id][n]

\* The aligned snapshot of an operator has nothing that was sent after a
\* barrier of its checkpoint, even when the barriers of several checkpoints
\* overtake one another (qos 2).
NothingAfterBarrier ==
    \A id \in CheckpointIds : \A n \in Ops \cap DOMAIN tookAt[id] :
       tookAt[id][n] \subseteq UNION {sentAt[id][u] : u \in Upstream[n]}

\* Until the rule ends a checkpoint reaches every task, or a newer one does:
\* barriers that overtake one another, an alignment that is skipped and a
\* count that is dropped never stop checkpointing.
Reached(id) == \A t \in Tasks : \E newer \in CheckpointIds :
                  newer >= id /\ t \in DOMAIN tookAt[newer]
ReachesEveryTask ==
    \A id \in CheckpointIds : id \in begun ~> Reached(id) \/ cancelled

\* node.go says of an item the align handler blocks: "return true and then
\* write back to the channel later".  What an aligner withholds is processed
\* in the end.
\* (The code does not satisfy this: README, section 8.)
WrittenBack ==
    \A n \in Ops : \A e \in Events :
       (\E i \in DOMAIN handler[n].buffer : handler[n].buffer[i].event = e)
          ~> e \in state[n]
=============================================================================
