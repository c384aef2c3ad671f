------------------------------- MODULE SinkPath -------------------------------
(***************************************************************************)
(* The end of a rule: BatchOp (node/batch_op.go) tells where a batch ends, *)
(* BatchWriterOp (node/batch_writer_op.go) makes one message of it, and    *)
(* SinkNode (node/sink_node.go) hands that to the outside.  A batch that   *)
(* fails is dropped, is retried until the outside is back, or goes to the  *)
(* alternative queue, which a second sink node with retries serves.        *)
(*                                                                         *)
(* The disk cache between that queue and its sink is CacheOp's; how a full *)
(* channel is met, in detail, is NodeOutput's.  A stop of the rule ends    *)
(* every node at its next select, in a broadcast or in a retry too: none   *)
(* takes another step, and what the nodes hold then is lost.  Errors that  *)
(* are sent in place of items (sendError) are left out: BatchOp counts     *)
(* them and the writer does not, so that a batch beside one is shorter.    *)
(***************************************************************************)
EXTENDS Integers, Sequences, FiniteSets, SequencesExt

CONSTANTS
    BatchSize,    \* batchSize of the sink, where it is set
    PathLength,   \* capacity of the channels
    BatchEnd,     \* BatchEOFTuple
    Eof,          \* EOFTuple
    MaxInputs     \* bound: items that reach the sink

ASSUME PathAssumption ==
    /\ BatchSize \in Nat \ {0} /\ PathLength \in Nat \ {0} /\ MaxInputs \in Nat
    /\ BatchEnd # Eof /\ {BatchEnd, Eof} \cap Seq(Nat) = {}

SinkNodes == {"main", "resend"}

VARIABLES
    batchSize,   \* BatchSize, or 0: batches end by time only
    lingers,     \* a linger interval is set
    discards,    \* not disableBufferFullDiscard
    onFailure,   \* "drop", "retry" (resendInterval) or "alter" (resendAlterQueue)
    ioErrors,    \* whatever fails, fails with an IO error
    inputs,      \* items that have come, which are 1, 2, ...
    ended,       \* the stream has ended
    currIndex,   \* items since the end of a batch
    owed,        \* what BatchOp has still to broadcast of what it took
    toWriter,    \* the input of the writer
    written,     \* what the writer holds of a batch
    queue,       \* the inputs of the sinks
    held,        \* the batch that is retried, none: << >>
    taken,   \* history: the batches that the outside took from each sink
    lost,        \* history: the items dropped
    heardEof     \* the sink has told the rule that the stream is at its end

pathVars == <<batchSize, lingers, discards, onFailure, ioErrors, inputs, ended, currIndex,
              owed, toWriter, written, queue, held, taken, lost, heardEof>>
config == <<batchSize, lingers, discards, onFailure, ioErrors>>
batchVars  == <<inputs, ended, currIndex, owed>>
sinkVars   == <<held, taken, heardEof>>

Arrivals == 1..inputs

\* What passes: items by ones, and as a batch behind the writer.
Batches == {b \in Seq(Arrivals) : b # << >>}

PathTypeOK ==
    /\ batchSize \in {0, BatchSize}
    /\ lingers \in BOOLEAN /\ discards \in BOOLEAN /\ ioErrors \in BOOLEAN
    /\ onFailure \in {"drop", "retry", "alter"}
    /\ inputs \in 0..MaxInputs /\ ended \in BOOLEAN
    /\ currIndex \in Nat
    /\ owed \in Seq(Batches \cup {BatchEnd, Eof})
    /\ toWriter \in Seq(Batches \cup {BatchEnd, Eof}) /\ Len(toWriter) <= PathLength
    /\ written \in Seq(Arrivals)
    /\ \A s \in SinkNodes :
         /\ queue[s] \in Seq(Batches \cup {Eof}) /\ Len(queue[s]) <= PathLength
         /\ held[s] \in Seq(Arrivals)
         /\ taken[s] \in Seq(Batches)
    /\ lost \subseteq Arrivals
    /\ heardEof \in BOOLEAN

\* Nothing has come.
PathStarts ==
    /\ inputs = 0 /\ ended = FALSE /\ currIndex = 0
    /\ owed = << >> /\ toWriter = << >> /\ written = << >>
    /\ queue = [s \in SinkNodes |-> << >>] /\ held = [s \in SinkNodes |-> << >>]
    /\ taken = [s \in SinkNodes |-> << >>]
    /\ lost = {} /\ heardEof = FALSE

PathInit ==
    /\ batchSize \in {0, BatchSize} /\ lingers \in BOOLEAN
    /\ batchSize > 0 \/ lingers          \* NewBatchOp refuses neither
    /\ discards \in BOOLEAN /\ ioErrors \in BOOLEAN
    /\ onFailure \in {"drop", "retry", "alter"}
    /\ PathStarts
-----------------------------------------------------------------------------
(* A channel                                                               *)

HasRoom(ch) == Len(ch) < PathLength \/ discards

\* Broadcast: to the end of the channel, in place of its oldest if that is full.
Forwarded(ch, msg) == Append(IF Len(ch) < PathLength THEN ch ELSE Tail(ch), msg)

\* The items of a message.
Carried(msg) ==
    IF msg \in {BatchEnd, Eof} THEN {} ELSE ToSet(msg)

\* What the channel loses by it.
Discarded(ch) == IF Len(ch) < PathLength THEN {} ELSE Carried(Head(ch))
-----------------------------------------------------------------------------
(* BatchOp                                                                 *)

\* ingest of an item, which is followed by the end of the batch that it fills.
IngestItem ==
    LET isFull == batchSize > 0 /\ currIndex + 1 >= batchSize IN
    /\ owed = << >> /\ ~ended /\ inputs < MaxInputs
    /\ inputs' = inputs + 1
    /\ currIndex' = IF isFull THEN 0 ELSE currIndex + 1
    /\ owed' = <<<<inputs + 1>>>> \o (IF isFull THEN <<BatchEnd>> ELSE << >>)
    /\ UNCHANGED <<config, ended, toWriter, written, queue, sinkVars, lost>>

\* Mutant: the other way round.
IngestEofFirst ==
    /\ owed = << >> /\ ~ended
    /\ ended' = TRUE /\ currIndex' = 0
    /\ owed' = <<Eof, BatchEnd>>
    /\ UNCHANGED <<config, inputs, toWriter, written, queue, sinkVars, lost>>

\* ingest of the end of the stream: the batch ends, then the stream does.
IngestEof ==
    /\ owed = << >> /\ ~ended
    /\ ended' = TRUE /\ currIndex' = 0
    /\ owed' = <<BatchEnd, Eof>>
    /\ UNCHANGED <<config, inputs, toWriter, written, queue, sinkVars, lost>>

\* The tick of the linger interval.
Linger ==
    /\ owed = << >> /\ lingers
    /\ currIndex' = 0
    /\ owed' = <<BatchEnd>>
    /\ UNCHANGED <<config, inputs, ended, toWriter, written, queue, sinkVars, lost>>

\* Broadcast of the next of what BatchOp owes.
SendOwed ==
    /\ owed # << >> /\ HasRoom(toWriter)
    /\ toWriter' = Forwarded(toWriter, Head(owed))
    /\ lost' = lost \cup Discarded(toWriter)
    /\ owed' = Tail(owed)
    /\ UNCHANGED <<config, inputs, ended, currIndex, written, queue, sinkVars>>
-----------------------------------------------------------------------------
(* BatchWriterOp, and BatchMergerOp, which gathers rows in the same way    *)

\* An item is written to the buffer.
Write ==
    /\ toWriter # << >> /\ Head(toWriter) \notin {BatchEnd, Eof}
    /\ written' = written \o Head(toWriter)
    /\ toWriter' = Tail(toWriter)
    /\ UNCHANGED <<config, batchVars, queue, sinkVars, lost>>

\* The end of a batch without an item.
SkipBatchEnd ==
    /\ toWriter # << >> /\ Head(toWriter) = BatchEnd
    /\ written = << >>
    /\ toWriter' = Tail(toWriter)
    /\ UNCHANGED <<config, batchVars, written, queue, sinkVars, lost>>

\* The end of a batch: Flush, Broadcast, New.
FlushBatch ==
    /\ toWriter # << >> /\ Head(toWriter) = BatchEnd
    /\ written # << >> /\ HasRoom(queue["main"])
    /\ queue' = [queue EXCEPT !["main"] = Forwarded(@, written)]
    /\ lost' = lost \cup Discarded(queue["main"])
    /\ toWriter' = Tail(toWriter)
    /\ written' = << >>
    /\ UNCHANGED <<config, batchVars, sinkVars>>

\* The end of the stream is passed on as it is.
PassEof ==
    /\ toWriter # << >> /\ Head(toWriter) = Eof
    /\ HasRoom(queue["main"])
    /\ queue' = [queue EXCEPT !["main"] = Forwarded(@, Eof)]
    /\ lost' = lost \cup Discarded(queue["main"])
    /\ toWriter' = Tail(toWriter)
    /\ UNCHANGED <<config, batchVars, written, sinkVars>>
-----------------------------------------------------------------------------
(* SinkNode                                                                *)

Retries(s) == s = "resend" \/ onFailure = "retry"

\* The node s has nothing to retry and finds a batch, or the end, in its input.
Takes(s) == held[s] = << >> /\ queue[s] # << >>

\* doCollect succeeds.
CollectBatch(s) ==
    /\ Takes(s) /\ Head(queue[s]) # Eof
    /\ taken' = [taken EXCEPT ![s] = Append(@, Head(queue[s]))]
    /\ queue' = [queue EXCEPT ![s] = Tail(@)]
    /\ UNCHANGED <<config, batchVars, toWriter, written, held, heardEof, lost>>

\* doCollect fails with an IO error, and a retry is set: the node keeps the batch.
CollectFails(s) ==
    /\ Takes(s) /\ Head(queue[s]) # Eof
    /\ Retries(s)
    /\ queue' = [queue EXCEPT ![s] = Tail(@)]
    /\ held' = [held EXCEPT ![s] = Head(queue[s])]
    /\ UNCHANGED <<config, batchVars, toWriter, written, taken, heardEof, lost>>

\* It fails, and no retry is set or the error is another: the batch is dropped.
DropFailed(s) ==
    /\ Takes(s) /\ Head(queue[s]) # Eof
    /\ ~(s = "main" /\ onFailure = "alter") /\ ~(Retries(s) /\ ioErrors)
    /\ queue' = [queue EXCEPT ![s] = Tail(@)]
    /\ lost' = lost \cup ToSet(Head(queue[s]))
    /\ UNCHANGED <<config, batchVars, toWriter, written, sinkVars>>

\* It fails, and the batch goes to the alternative queue, if that has room.
Reroute ==
    LET hasRoom == Len(queue["resend"]) < PathLength
        batch == Head(queue["main"])
    IN
    /\ Takes("main") /\ batch # Eof /\ onFailure = "alter"
    /\ queue' = [queue EXCEPT !["main"] = Tail(@),
                              !["resend"] = IF hasRoom THEN Append(@, batch) ELSE @]
    /\ lost' = IF hasRoom THEN lost ELSE lost \cup ToSet(batch)
    /\ UNCHANGED <<config, batchVars, toWriter, written, sinkVars>>

\* A tick of the resend interval at which the batch is taken.  The ticks at
\* which it fails again change nothing.
Retry(s) ==
    /\ held[s] # << >>
    /\ taken' = [taken EXCEPT ![s] = Append(@, held[s])]
    /\ held' = [held EXCEPT ![s] = << >>]
    /\ UNCHANGED <<config, batchVars, toWriter, written, queue, heardEof, lost>>

\* A tick at which it fails with another error: the batch is dropped.
GiveUp(s) ==
    /\ held[s] # << >> /\ ~ioErrors
    /\ held' = [held EXCEPT ![s] = << >>]
    /\ lost' = lost \cup ToSet(held[s])
    /\ UNCHANGED <<config, batchVars, toWriter, written, queue, taken, heardEof>>

\* The end of the stream: the rule is told.
HearEof ==
    /\ Takes("main") /\ Head(queue["main"]) = Eof
    /\ heardEof' = TRUE
    /\ queue' = [queue EXCEPT !["main"] = Tail(@)]
    /\ UNCHANGED <<config, batchVars, toWriter, written, held, taken, lost>>
-----------------------------------------------------------------------------
SinkStep(s) == CollectBatch(s) \/ CollectFails(s) \/ DropFailed(s) \/ Retry(s) \/ GiveUp(s)
WriterStep == Write \/ SkipBatchEnd \/ FlushBatch \/ PassEof

PathNext ==
    \/ IngestItem \/ IngestEof \/ Linger \/ SendOwed
    \/ WriterStep
    \/ \E s \in SinkNodes : SinkStep(s)
    \/ Reroute \/ HearEof

PathSpec == PathInit /\ [][PathNext]_pathVars
-----------------------------------------------------------------------------
(* Properties                                                              *)

\* The batches that are on their way to, at, or behind the sink s.
BatchesOf(s) ==
    (ToSet(taken[s]) \cup {held[s]} \cup ToSet(queue[s])) \ {<< >>, Eof}

AllBatches == UNION {BatchesOf(s) : s \in SinkNodes}

Delivered == UNION {ToSet(FlattenSeq(taken[s])) : s \in SinkNodes}

\* All that the path holds of the items, or has handed over.
Along ==
    LET waiting == ToSet(owed) \cup ToSet(toWriter) \cup AllBatches \cup {written}
    IN UNION {Carried(msg) : msg \in waiting}

\* No item is lost on the way as long as channels wait, the rule runs and the
\* sink retries what fails (sink_node.go:109, "retry (blocking) until success or
\* unrecoverable error"): each one is owed, buffered, retried or taken.
NothingLostByRetry == ~discards /\ onFailure = "retry" /\ ioErrors => Along = Arrivals

\* Whatever fails, no item is handed to the outside twice, nor by both sinks
\* (the writer starts anew for each batch, batch_writer_op.go:118-123).
NothingTwice ==
    LET all == FlattenSeq(taken["main"]) \o FlattenSeq(taken["resend"]) IN
    /\ IsInjective(all)
    /\ lost \cap ToSet(all) = {}

\* Each sink hands over the items in the order in which they came, also when one
\* of them had to be retried (sink_node.go:126-139 blocks until it is through).
CollectedInOrder ==
    \A s \in SinkNodes : LET all == FlattenSeq(taken[s]) IN
        \A i \in 1..(Len(all) - 1) : all[i] < all[i + 1]

\* While channels wait, no batch has more items than its size, and a shorter one
\* ends by time or with the stream, where all are items (batch_op.go:104-107).
BatchesAreFull ==
    ~discards /\ batchSize > 0 => \A b \in AllBatches :
        /\ Len(b) <= batchSize
        /\ Len(b) = batchSize \/ lingers \/ (ended /\ Last(b) = inputs)

\* When the sink tells the rule that the stream is at its end, all that came
\* before is with the outside or was dropped: nothing waits for a batch, a retry
\* or behind it (batch_op.go:96-99, sink_node.go:186-191).  Without a queue on
\* the side: what is in that is left there, see EofIsLastAlways.
EofIsLast ==
    heardEof /\ ~discards /\ onFailure # "alter" => Arrivals \subseteq Delivered \cup lost

\* (The code does not satisfy this: README, section 8.)
EofIsLastAlways == heardEof /\ ~discards => Arrivals \subseteq Delivered \cup lost

\* What BatchOp counts is what still waits for the end of a batch: once that has
\* passed, by size, by time or with the stream, the writer holds nothing back
\* (batch_op.go:111-116, batch_writer_op.go:101-124).
NothingLeftBehind ==
    ~discards /\ currIndex = 0 /\ owed = << >> /\ toWriter = << >> => written = << >>

\* Whatever fails, nothing is lost by a sink that retries, nothing is handed over twice
\* or out of order, batches have their size, and neither the end of a batch nor the end
\* of the stream leaves an item behind (batch_op.go:85-116, sink_node.go:101-191).
PathSound ==
    /\ PathTypeOK
    /\ NothingLostByRetry /\ NothingTwice /\ CollectedInOrder
    /\ BatchesAreFull /\ EofIsLast /\ NothingLeftBehind
=============================================================================
