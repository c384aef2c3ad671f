-------------------------- MODULE BarrierHandler ---------------------------
(***************************************************************************)
(* How a node treats the checkpoint barriers among its input:              *)
(* internal/topo/checkpoint/barrier_handler.go.                            *)
(*                                                                         *)
(* BarrierTracker (qos 1) counts the barriers of each checkpoint and lets  *)
(* the data pass.  BarrierAligner (qos 2) also blocks every upstream whose *)
(* barrier has come: what it sends next waits in a buffer.  A handler is   *)
(* called by the one goroutine of its node, so that handling an item is    *)
(* one step; the operators below give the handler after it and whether the *)
(* node's checkpoint is triggered.  An item is a record [from, event, id]: *)
(* the barrier of checkpoint id, or an event when id = 0.                  *)
(***************************************************************************)
EXTENDS Naturals, FiniteSets, Sequences

CONSTANT CheckpointIds
ASSUME CheckpointIdsAssumption == CheckpointIds \subseteq Nat \ {0}

\* counts is the tracker's map (0: no entry), the other fields the aligner's.
NewHandler == [counts |-> [id \in CheckpointIds |-> 0],
               current |-> 0, blocked |-> {}, buffer |-> << >>]

IsBarrier(item) == item.id # 0

-----------------------------------------------------------------------------
(* BarrierTracker, for a node with n inputs.                               *)

\* Mutant: the first barrier of a checkpoint triggers it.
TrackerTriggersFirst(h, n, item) == h.counts[item.id] = 0

\* The barrier is the last of its checkpoint; a node of one input keeps no
\* count.
TrackerTriggers(h, n, item) == n = 1 \/ h.counts[item.id] + 1 = n

\* A checkpoint that is triggered removes its entry and the older ones.
Tracked(h, n, item) ==
    IF TrackerTriggers(h, n, item)
    THEN [h EXCEPT !.counts =
            [id \in CheckpointIds |-> IF n > 1 /\ id <= item.id THEN 0 ELSE @[id]]]
    ELSE [h EXCEPT !.counts[item.id] = @ + 1]

-----------------------------------------------------------------------------
(* BarrierAligner.                                                         *)

\* Mutant: while one checkpoint is aligned the barriers of newer ones are
\* ignored.
BlockedByCurrent(h, item) ==
    IF h.blocked = {} /\ item.id > h.current THEN {item.from}
    ELSE IF item.id = h.current /\ h.blocked # {} THEN h.blocked \cup {item.from}
    ELSE h.blocked

\* The upstreams blocked after the barrier: a newer checkpoint begins its own
\* alignment, skipping the current one; a barrier of the current checkpoint
\* joins; an older one is ignored.
BlockedAfter(h, item) ==
    IF item.id > h.current THEN {item.from}
    ELSE IF item.id = h.current /\ h.blocked # {} THEN h.blocked \cup {item.from}
    ELSE h.blocked

AlignerTriggers(h, n, item) == Cardinality(BlockedAfter(h, item)) = n

\* The handler after a barrier.  When the checkpoint is triggered the buffer
\* is handed to a goroutine that writes it to the handler's output; no code
\* calls SetOutput, so that the channel is nil and the goroutine blocks on its
\* first write for ever.
Aligned(h, n, item) ==
    LET begun == [h EXCEPT !.current = IF item.id > @ THEN item.id ELSE @]
    IN  IF AlignerTriggers(h, n, item)
        THEN [begun EXCEPT !.blocked = {}, !.buffer = << >>]
        ELSE [begun EXCEPT !.blocked = BlockedAfter(h, item)]

\* Mutant: the events of a blocked upstream pass.
NeverBuffers(h, n, item) == FALSE

\* An event of a blocked upstream is withheld.
Buffers(h, n, item) == n > 1 /\ item.from \in h.blocked

Buffered(h, item) == [h EXCEPT !.buffer = Append(@, item)]
=============================================================================
