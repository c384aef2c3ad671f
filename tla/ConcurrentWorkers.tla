-------------------------- MODULE ConcurrentWorkers --------------------------
(***************************************************************************)
(* A node with several workers: runWithOrder of concurrent.go, as the      *)
(* codecs (decode, encode, compress, ...) and the transform before a sink  *)
(* use it.                                                                 *)
(*                                                                         *)
(* The distributor hands the inputs to the workers in turn, and the merger *)
(* takes the workers' results in the same turn; all the channels between   *)
(* them are unbuffered.  The order is kept only as long as every worker    *)
(* answers each input once.  With a qos, a barrier comes as an input too.  *)
(***************************************************************************)
EXTENDS Naturals, Sequences, FiniteSets, SequencesExt

CONSTANTS
    NumWorkers,   \* concurrency
    InputLength,  \* capacity of the node's input
    NoItem,       \* no value
    MaxItems      \* bound: inputs

\* What a result is.
Whats == {"row", "error", "control"}

ASSUME WorkersAssumption ==
    /\ {NumWorkers, InputLength, MaxItems} \subseteq Nat \ {0}
    /\ NoItem \notin Nat /\ NoItem \notin Seq(Whats)

Workers == 0 .. NumWorkers - 1

\* The goroutines.
W(w)       == <<"worker", w>>
Merger     == <<"merger", 0>>
Distr      == <<"distributor", 0>>
Goroutines == {W(w) : w \in Workers} \cup {Merger, Distr}

\* What a worker function may return for a row, and what its results are: a
\* row, or an error in its place.
WorkResults == {<< >>, <<"row">>, <<"error">>, <<"row", "row">>}

ItemKinds == {"row", "control", "barrier"}

VARIABLES
    checkpoints, \* the qos is at least AtLeastOnce
    items,        \* the kind of every input so far, in their order
    inQueue,     \* node.input
    counter,     \* the worker of the next input
    distributor, \* the input it holds, or NoItem
    working,     \* for each worker: the input it is on, and its results
    turn,        \* the worker whose results the merger takes next
    merging,     \* the results the merger has still to send
    stopping,    \* the context is done
    running,     \* the goroutines that have not ended
    \* History, not state of the program:
    result,      \* what the worker made of each input, NoItem before
    output       \* what went out: <<input, what>>

workVars == <<checkpoints, items, inQueue, counter, distributor, working, turn, merging,
              stopping, running, result, output>>

Free == [item |-> NoItem, pc |-> "free", out |-> << >>]

WorkersTypeOK ==
    /\ checkpoints \in BOOLEAN /\ stopping \in BOOLEAN
    /\ items \in Seq(ItemKinds) /\ Len(items) <= MaxItems
    /\ inQueue \in Seq(DOMAIN items) /\ Len(inQueue) <= InputLength
    /\ counter \in 0..NumWorkers
    /\ distributor \in DOMAIN items \cup {NoItem}
    /\ \A w \in Workers :
         /\ working[w].item \in DOMAIN items \cup {NoItem}
         /\ working[w].pc \in {"free", "busy", "done"}
         /\ (working[w].pc = "free") = (working[w].item = NoItem)
    /\ turn \in Workers
    /\ running \subseteq Goroutines

WorkersInit ==
    /\ checkpoints \in BOOLEAN
    /\ items = << >> /\ inQueue = << >>
    /\ counter = 0 /\ distributor = NoItem
    /\ working = [w \in Workers |-> Free]
    /\ turn = 0 /\ merging = << >>
    /\ stopping = FALSE
    /\ running = Goroutines
    /\ result = << >> /\ output = << >>
-----------------------------------------------------------------------------
(* The actions                                                             *)

Arrive(kind) ==
    /\ Len(items) < MaxItems /\ Len(inQueue) < InputLength /\ ~stopping
    /\ kind = "barrier" => checkpoints
    /\ items' = Append(items, kind)
    /\ inQueue' = Append(inQueue, Len(items) + 1)
    /\ result' = Append(result, NoItem)
    /\ UNCHANGED <<checkpoints, counter, distributor, working, turn, merging, stopping,
                   running, output>>

\* Mutant: the next input goes to any worker that is free.
TakeAny ==
    /\ Distr \in running /\ distributor = NoItem /\ inQueue # << >>
    /\ distributor' = Head(inQueue) /\ inQueue' = Tail(inQueue)
    /\ \E w \in Workers : working[w] = Free /\ counter' = w
    /\ UNCHANGED <<checkpoints, items, working, turn, merging, stopping, running, result,
                   output>>

\* distribute: the round-robin goes on before the input is received.
Take ==
    /\ Distr \in running /\ distributor = NoItem /\ inQueue # << >>
    /\ distributor' = Head(inQueue) /\ inQueue' = Tail(inQueue)
    /\ counter' = IF counter = NumWorkers THEN 0 ELSE counter
    /\ UNCHANGED <<checkpoints, items, working, turn, merging, stopping, running, result,
                   output>>

\* workerChans[counter] <- item meets the worker's receive.
HandOver ==
    /\ {Distr, W(counter)} \subseteq running
    /\ distributor # NoItem /\ working[counter] = Free
    /\ working' = [working EXCEPT ![counter] =
                    [item |-> distributor, pc |-> "busy", out |-> << >>]]
    /\ distributor' = NoItem
    /\ counter' = counter + 1
    /\ UNCHANGED <<checkpoints, items, inQueue, turn, merging, stopping, running, result,
                   output>>

\* The worker function, or the input itself when it is a control tuple.
Work(w) ==
    /\ working[w].pc = "busy" /\ items[working[w].item] # "barrier"
    /\ \E r \in IF items[working[w].item] = "row" THEN WorkResults ELSE {<<"control">>} :
         /\ working' = [working EXCEPT ![w].pc = "done", ![w].out = r]
         /\ result' = [result EXCEPT ![working[w].item] = r]
    /\ UNCHANGED <<checkpoints, items, inQueue, counter, distributor, turn, merging,
                   stopping, running, output>>

\* preprocess consumes a barrier and sends it on at once; the worker goes to its
\* next input without an answer to the merger.
WorkBarrier(w) ==
    /\ working[w].pc = "busy" /\ items[working[w].item] = "barrier"
    /\ output' = Append(output, <<working[w].item, "barrier">>)
    /\ working' = [working EXCEPT ![w] = Free]
    /\ UNCHANGED <<checkpoints, items, inQueue, counter, distributor, turn, merging,
                   stopping, running, result>>

Pairs(w) == [i \in DOMAIN working[w].out |-> <<working[w].item, working[w].out[i]>>]

\* The merger receives from the worker whose turn it is.
Merge(w) ==
    /\ {Merger, W(w)} \subseteq running /\ merging = << >> /\ working[w].pc = "done"
    /\ w = turn
    /\ merging' = Pairs(w)
    /\ working' = [working EXCEPT ![w] = Free]
    /\ turn' = (turn + 1) % NumWorkers
    /\ UNCHANGED <<checkpoints, items, inQueue, counter, distributor, stopping, running,
                   result, output>>

\* It sends one result: Broadcast, or onError, which sends the error on.
Emit ==
    /\ Merger \in running /\ merging # << >>
    /\ output' = Append(output, Head(merging))
    /\ merging' = Tail(merging)
    /\ UNCHANGED <<checkpoints, items, inQueue, counter, distributor, working, turn, stopping,
                   running, result>>

Stop ==
    /\ ~stopping
    /\ stopping' = TRUE
    /\ UNCHANGED <<checkpoints, items, inQueue, counter, distributor, working, turn, merging,
                   running, result, output>>

\* Mutant: a worker that waits for the merger does not look at the context.
WaitsIdle(g) ==
    CASE g = Distr  -> TRUE
      [] g = Merger -> merging = << >>
      [] OTHER      -> working[g[2]].pc = "free"

\* A goroutine that waits for another, or for an input, sees the end of the
\* context; the merger sends what it has taken first.
Waits(g) ==
    CASE g = Distr  -> TRUE
      [] g = Merger -> merging = << >>
      [] OTHER      -> working[g[2]].pc # "busy"

End(g) ==
    /\ stopping /\ g \in running /\ Waits(g)
    /\ running' = running \ {g}
    /\ UNCHANGED <<checkpoints, items, inQueue, counter, distributor, working, turn, merging,
                   stopping, result, output>>

WorkSteps ==
    \/ Take \/ HandOver \/ Emit
    \/ \E w \in Workers : Work(w) \/ WorkBarrier(w) \/ Merge(w)

WorkersNext ==
    \/ WorkSteps \/ Stop
    \/ \E kind \in ItemKinds : Arrive(kind)
    \/ \E g \in Goroutines : End(g)

\* Each goroutine runs; the worker functions return.
WorkersFairness ==
    /\ WF_workVars(Take \/ HandOver)
    /\ WF_workVars(Emit \/ \E w \in Workers : Merge(w))
    /\ \A w \in Workers : WF_workVars(Work(w) \/ WorkBarrier(w))
    /\ \A g \in Goroutines : WF_workVars(End(g))

WorkersSpec == WorkersInit /\ [][WorkersNext]_workVars /\ WorkersFairness
-----------------------------------------------------------------------------
(* Properties                                                              *)

\* What the answers so far would make in the order of the inputs.
InOrderOf(n) ==
    FlattenSeq([k \in 1..n |->
        IF result[k] = NoItem THEN << >>
        ELSE [i \in DOMAIN result[k] |-> <<k, result[k][i]>>]])

\* Without checkpoints the outputs are those of the inputs one after the other,
\* none missing in between, though the workers finish in any order
\* (concurrent.go:54 "Merge multiple channels into one preserving the order").
OrderPreserved ==
    ~checkpoints =>
        LET last == IF output = << >> THEN 0 ELSE output[Len(output)][1] IN
        /\ \A k \in 1..last : result[k] # NoItem
        /\ IsPrefix(output, InOrderOf(last))

\* How many of the first n of out are results of the input k.
SentOf(out, k, n) == Cardinality({h \in 1..n : out[h][1] = k /\ out[h][2] # "barrier"})

\* No result is sent twice or made up, also when barriers disturb the turns: the i-th
\* that goes out of an input is the i-th of what its worker returned.
NoneRepeated ==
    \A j \in DOMAIN output : output[j][2] # "barrier" =>
        LET k == output[j][1]   i == SentOf(output, k, j) IN
        /\ k \in DOMAIN items /\ result[k] # NoItem
        /\ i \in DOMAIN result[k] /\ output[j][2] = result[k][i]

Finished(n) ==
    LET mine == SelectSeq(output, LAMBDA e : e[1] = n) IN
    n \in DOMAIN items /\ result[n] # NoItem /\ Len(mine) = Len(result[n])

\* Without checkpoints every input that arrived is worked on and its results go
\* out, with no further input to push them (concurrent.go:85-136).
ResultsComeOut ==
    \A n \in 1..MaxItems :
        (~checkpoints /\ n \in DOMAIN items) ~> (stopping \/ Finished(n))

\* All the goroutines end with the context, whoever waits for whom
\* (concurrent.go:77, 94, 100, 127, 131).
AllEnd == stopping ~> running = {}

\* However the workers finish, what goes out of an input is what its worker returned,
\* once, and without checkpoints in the order of the inputs (concurrent.go:54-136).
WorkersSound == WorkersTypeOK /\ NoneRepeated /\ OrderPreserved

\* Without checkpoints all results come out; with the context all goroutines end.
WorkersGoOn == ResultsComeOut /\ AllEnd
=============================================================================
