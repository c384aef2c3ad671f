# A verification development of the rule engine

This directory holds TLA+ specifications of the streaming rule engine in `internal/` and `pkg/` (eKuiper), the TLC
configurations that check them on small instances, and proofs checked by TLAPS. `PROJECT.json` is the index: every
component, run, mutant, finding, hazard and theorem, and for every definition the lines of Go it stands for.

1. The system and its components
2. The modules, and how they correspond to the code
3. What the runs check and what they show
4. Bounds
5. Fairness
6. What is proved
7. What only TLC checks, and what is not modelled
8. Disagreements found
9. Plan

## 1. The system and its components

A *rule* is an SQL statement or a graph with a list of actions. The server keeps the rules in a registry; each has a
`rule.State` that plans it into a `topo.Topo`, a graph of goroutines (sources, operators, sinks) joined by channels.
REST handlers, RPC, the patrol of scheduled rules and the shutdown of the server all call `rule.State`.

| Component | State | Operations | Talks to |
|---|---|---|---|
| Rule lifecycle, `topo/rule` | current state and queue of deferred actions (lock of the state machine), rule, topology (`ruleLock`) | Start, Stop, ScheduleStart, ScheduleStop, ValidateAndRun, SetRule, Delete, runTopo | calls the planner and Topo; called by the registry |
| Running topology, `topo/topo.go` | Initialized, Opened or Closed; context; drain of outcomes | Open, Cancel, GracefulStop | runs the nodes; tells `runTopo` how the run ended |
| Barriers in the dataflow, `topo/node/node.go`, `checkpoint/barrier_handler.go`, `responder.go` | channels, per node counts or blocked inputs and withheld events | broadcast, preprocess, TriggerCheckpoint | nodes by channels; the coordinator by signals |
| Checkpoint coordinator, `checkpoint/coordinator.go` | pending checkpoints, forced-save flag, ticker | tick, ForceSaveState, ACK, DEC, done | triggers the sources, completes into the store |
| State store, `topo/state`, `topo/context` | one snapshot per task; map of states per checkpoint; list of kept checkpoints; key-value store | Snapshot, SaveState, SaveCheckpoint, Clean | written by a goroutine per snapshot |
| Sink cache, `node/cache`, and its node, `node/cache_op.go` | write buffer, ring of pages on disk, read buffer, counters; current item, ticker | AddCache, PopCache, Flush, initStore; input, tick, send, stop | a key-value store; the sink's channel |
| Way to the outside, `node/batch*_op.go`, `sink_node.go` | batch, buffer of the writer, queues | input, batch end, collect, retry, reroute, end of stream | connectors |
| Registry and patrol, `server/rule_*.go` | rules by name, definitions in a store | create, upsert, start, stop, restart, delete, recover, patrol | `rule.State`, processor |
| Shared stream, `topo/subtopo*.go` | pool of subtopologies with references | get, open, close, remove | several Topos |
| Workers and outputs, `node/concurrent.go`, `node/node.go` | ordered outputs of several goroutines, channels to the nodes behind | process, merge, broadcast, add and remove an output | one node and those behind it |
| Windows, watermarks, joins, deduplication | buffers and times | tuple, tick, watermark, timer | neighbours in the graph |
| Connection pool, `pkg/connection` | connections with references and status | fetch, attach, detach, drop, update, dial | sources and sinks |
| Memory pub/sub, `io/memory` | topics, subscribers, tables | create, subscribe, produce, close | rules with one another |
| Lookup tables, `topo/lookup` | instances with counts | create, replace, drop, attach, detach | rules and the stream processor |
| Plugin processes, `plugin/portable/runtime` | process, symbols, references | start, wait, kill, replay | rules, the plugin manager |
| Asynchronous tasks, `pkg/async` | status in a store, cancel functions in memory | register, start, finish, cancel, recover | REST handlers |
| File sink, `io/file` | writers by path | collect, roll by size or time, close | the file system |
| Expressions and planning, `xsql`, `topo/planner` | none | parse, evaluate, push down | the operators |
| Converters, other connectors, stores, REST | sequential or I/O | | |

**Hard behaviours, and what makes each component correct.**

*Rule lifecycle.* The announcement of a transition (`TriggerAction`) and the transition itself are under different locks,
with any number of callers in between; a run may end by itself at any time; a signal that arrives in transition is
deferred and popped by somebody else. Correct: the reported state matches the topology, no deferred signal is stranded, no
transient state is left behind, each open topology is supervised and closed by one party, every call returns.

*Barriers and checkpoints.* Barriers of several checkpoints overtake one another in different channels; an alignment is
skipped; channels overflow; each snapshot is saved by its own goroutine, beside the node that goes on. Correct: a
checkpoint is stored only when whole, in order; a snapshot has what came before the barriers and, when aligned, nothing
that came after; a checkpoint or a newer one reaches every task; a forced save ends; and what a recovery reads neither
loses nor repeats events.

*Sinks.* A full disk, partial pages after a stop, a crash between two writes, counters kept apart from the pages; an
outside that fails and comes back; files rolled by a ticker beside the node that writes. Correct: one first-in, first-out
queue that only an overflow shortens, at its old end; what is retried is neither lost nor repeated; the end of the
stream comes last; every file is whole.

*Registry, schedules, tables, tasks.* Check-then-act over several locks, a store and a registry written one after the
other, decisions from a state that was read earlier, and what a crash leaves in the store. Correct: registry, store and
running rules agree when nobody is at work; a scheduled rule runs when its schedule says so, and once; an instance is open
while somebody uses it; what is said to run is worked on.

*Things that rules share.* Reference counts, names reused while something of the same name is closing, dialling in a
goroutine of its own, a process that may end at any time. Correct: what is used is the one in the pool and open, what is
out of the pool is closed, and its users learn of its failure.

*Nodes.* A receiver that goes on between a failed send and the taking of the oldest item; outputs that come and go; results
of workers in any order; rows and ticks that come late; a recovery in the middle of a window. Correct: order is kept, only
the oldest is given up, each window has all the rows that are its own and no others, each stretch of time is triggered once.

## 2. The modules, and how they correspond to the code

| Module | Code | State and steps |
|---|---|---|
| `RuleMachine` | `topo/rule/transit.go` | which signal is ignored, deferred or acted on in which state, as operators |
| `RuleState` | `topo/rule`, `topo/topo.go` | the rule, its topologies and runs, and where each caller and the holder of `ruleLock` is |
| `BarrierHandler` | `checkpoint/barrier_handler.go` | the tracker (qos 1) and the aligner (qos 2), as operators on a handler |
| `BarrierFlow` | `node.go`, `responder.go` | tasks, channels, events and barriers; when a checkpoint begins is left open |
| `Checkpoint` | `checkpoint/coordinator.go`, `state/kv_store.go` | `BarrierFlow` with the coordinator, the savers, the store and a graceful stop |
| `LossyQueue`, `SyncCache` | `node/cache` | a queue that gives up its oldest items, and the buffers and ring of pages that implement it |
| `CacheOp` | `node/cache_op.go` | `SyncCache` with its node, ticker and sink |
| `SinkPath` | `batch_op.go`, `batch_writer_op.go`, `sink_node.go` | a batch, its writer, the sink and the alternative queue |
| `FileSink` | `io/file/sink.go`, `file_writer.go` | `Collect`, the ticker and `Close` at the steps where they take and leave the lock |
| `NodeOutput` | `node.go`, Broadcast | one sender, step by step, and its outputs |
| `ConcurrentWorkers` | `node/concurrent.go` | the distributor, the workers and the merger |
| `EventWindow` | `watermark_op.go`, `event_window_trigger.go` | event time, with the states saved for a recovery |
| `ClockWindow` | `window_op.go` | processing time and counts, with late rows and ticks, and a recovery |
| `DedupTrigger` | `dedup_trigger_op.go` | the queue of requests, the histogram, the timer |
| `JoinOperator` | `join_operator.go`, `joinPlan.go`, `filterPlan.go` | the planned query and the two passes, against the SQL definition |
| `Expressions` | `xsql/parser.go`, `valuer.go` | the tree that is read and the value it has, against definitions |
| `SubTopoPool` | `subtopo.go`, `subtopo_pool.go`, `planner_source.go` | the pool, and where each run is that plans, opens and closes |
| `ConnectionPool` | `pkg/connection/pool.go`, `conn.go` | connections with their dialling goroutine, and their clients |
| `MemoryPubSub` | `io/memory/pubsub`, `io/memory/store` | topics, and the runs, sinks and tables that use them |
| `RuleRegistry` | `rule_manager.go`, `rule_init.go`, `processor/rule.go` | database, registry and states of one rule, and where each call is |
| `RuleSchedule` | `rule_init.go`, `pkg/schedule` | the patrol between its reading of a state and its deed, and the clock |
| `LookupTables` | `lookup/table.go`, `processor/stream.go` | the stored definition, the instances, who is attached |
| `PluginProcess` | `plugin_ins_manager.go` | processes, who waits for them, symbols |
| `AsyncTasks` | `pkg/async/async.go` | status in the store, who works on a task, crashes |

Modules that share no state are checked together: `MCStores`, `MCOperators`, `MCBarrierFlow`, `MCShared`, `MCServer` and
`MCNodes` EXTEND several of them, and the variable `part`, chosen at the start, says which one a behaviour follows while the
others rest. `MCRuleState` and `MCRuleGroups` give the methods that callers of a rule use, `MCCheckpoint` the graph of tasks.

**Rule lifecycle.** The variables of `RuleState` are the fields of the code: `st` and `q` (`sm.currentState`,
`sm.actionQ`), `rule`, `topology` (an index into `topos`, 0 is nil), the list `topos` of every Topo planned so far
(`state`, whether the nodes are up, whether the context is done, the drain) and the list `runs` of every `runTopo`
goroutine with its program counter. `pc` is where each caller is. Who holds `ruleLock` executes the record `cs`: its
program counter and what it returns to. This is how signals of others, the nodes and the runs fall between the steps of
`doStart`, `doStop` and `nextAction`, as they do in the code.

| Actions | Code |
|---|---|
| `Call`, `TriggerAction`, `LockedStart`, `LockedStop`, `LockedValidateAndRun`, `LockedSetRule`, `LockedDelete` | the methods of `State`, before and after they take `ruleLock` |
| `DoStart`, `DoStop`, `DoClean`, `DoCancel`, `DoTransit`, `NextAction`, `NoNextAction`, `Install` | what the holder of `ruleLock` executes |
| `Open`, `Spawn`, `Receive`, `CheckClosed`, `CloseRun`, `CleanRun`, `CleanRule` | `runTopo`, `Topo.Open`, `GracefulStop`, `cleanRule` |
| `Report`, `NodesExit` | nodes that fail, finish, or see the cancelled context |

**Barriers and checkpoints.** A handler is called by the one goroutine of its node, so that an item is one step. A task's
state is the set of events it has consumed; event `<<s, k>>` is the k-th of source `s`, so that the state of a source is
its offset. `sentAt` and `tookAt` are history. A source's ingestion is two steps (`Ingest`, `UpdateState`), and so is the
goroutine that triggers it (`SendBarrier`, `TakeSnapshot`), because these run side by side. `Checkpoint` adds the
coordinator (`TickerFires`, `OnTick`, `OnForceSaveState`, `OnAck`, `OnDec`, `OnDone`), the goroutines that save a snapshot in
the three steps of the race on the map (`TakeFromContext`, `LoadMap`, `StoreState`), the store, and a graceful stop with its
forced save and its timeout. It refines `BarrierFlow` (`ImplementsFlow`), which is why what holds of the flow holds of it.

**Sink cache.** `LossyQueue` is what a cache promises while a rule runs: a queue that gives up its oldest items when it is
full, no more of them than make room for a page. `running` ends with the run, and with it the promise. `SyncCache` has the
buffers and the ring of the code and, in `kv`, the keys of the store. Operations that write several keys are given as the
sequence of stores they go through (`DeleteStores`, `AppendStores`, `InsertStores`, `FlushStores`): an operation moves to the
last, a crash to any of them. It refines `LossyQueue` with `queue <- Contents` in the first run of the rule (`FirstRun`),
which starts on an empty store; section 8 says what goes wrong in later ones. `CacheOp` extends it with the node: `Receive`,
`ReceiveControl` (a watermark or end of file, which go past the cache), `Tick`, the two halves of `send` (`Send`,
`Broadcast`), the sink that empties the channel (`Collect`), and the end of the rule by `Cancel` and `Close`, or by a crash.
What is lost with a channel or the current item at a stop is recorded in `forgone`, so that `NothingLost` says exactly what.

**The others.** Each module follows one rule of thumb: a step is what the code does between two points where another
goroutine can run, a lock is the variable that says who holds it, and a goroutine that waits has a program counter.
`RuleRegistry` follows one rule id; its callers go through the critical sections of `rule_manager.go` one by one, with
`rlock` the lock of the registry and `busy` the `ruleLock` of a state. `rewrite` is the trigger that `ExecReplaceRuleState` has
read and is about to write, under the lock of the registry; an import (`CheckImport`, `StoreImport`) takes no lock and may
write in between. Every write to the store may fail. A handler of `LookupTables` changes the instance and the store in two steps. `ConnectionPool` keeps every connection ever made in
`metas`, with the program counter of its dialling goroutine; `SubTopoPool` keeps every subtopology in the same way, so that
one which was taken out of the pool can still be used, and closed. In `MemoryPubSub` a consumer is known by rule and operator, not by run,
as in the code, which is why the runs of a rule get into each other's way. `JoinOperator` and `Expressions` have a short
behaviour, to state a query or an expression, to plan or read it and to evaluate it, so that their inputs are enumerated by
TLC and their results compared with a reference definition.

## 3. What the runs check and what they show

Properties that end in `Sound` are conjunctions of a type invariant and the safety properties of one module, which stand
before it with a comment each.

| Run | Properties | Shows |
|---|---|---|
| `rule` | `TypeOK`, `NoStrandedAction`, `TransientOwned`, `Supervised`, `ClosedOnce` | three callers start, stop, schedule or replace a rule, or start, stop, update and delete it, while its runs may fail: no deferred signal is stranded, no transient state is left without an owner, an open topology is supervised and closed by one party |
| `rule_liveness` | `StateMatchesTopology`, `EveryCallReturns`, `EndOfRunNoticed` | the reported state matches the topology, nobody waits for `ruleLock` for ever, a run that ends is noticed |
| `flow` | `FlowTypeOK`, `NothingAfterBarrier`, `TrackedHasAll`, `WindowSound` | qos 2: an aligned snapshot has nothing sent after a barrier, although channels overflow, checkpoints overtake one another and the rule is cancelled; qos 1: a snapshot has all that was sent before the barriers; windows in processing time and by count have the rows that are their own, with late rows and ticks and over a recovery |
| `ckpt_live` | `AcksArrive`, `ForcedSaveEnds`, `ImplementsFlow` | no checkpoint waits for a task for ever, a graceful stop is told of the end of its save, also when the store fails, and `Checkpoint` implements `BarrierFlow` |
| `stores` | `CheckpointsSound`, `DiskCacheSound`, `JoinSound`, `ExpressionsSound`, `PathSound`, `CacheIsQueue` | a stored checkpoint is whole and the list in order; the disk cache is a lossy queue that never repeats an item, counts right in a first run and keeps all at a stop with room; joins and expressions have the value of their definition, where section 8 does not say otherwise; a sink that retries loses and repeats nothing, and the end of the stream comes last |
| `operators` | `WorkersSound`, `EventWindowSound`, `OutputSound`, `NodesGoOn`, `ReachesEveryTask` | results of workers keep the order; windows in event time are exact, also after a crash; a broadcast gives up the oldest only; no node is stuck; skipped alignments never stop checkpointing |
| `shared` | `SharedStreamSound`, `ConnectionsSound`, `TopicsSound`, `WaitEnds` | what is shared is kept while it is used and goes with its last user; references are the users; failures are told; who waits for a connection gets an answer |
| `server` | `PluginSound`, `TablesSound`, `RegistrySound`, `TasksSound`, `ScheduleSound`, `EveryMethodReturns` | a plugin has one process with the symbols in use; a lookup table is open exactly while it is used, unless it is overwritten, and what is stored of it runs, unless handlers cross or fail halfway; registry, store and states agree once the calls are over, apart from known races and a deletion that the store refuses; a task that is said to run is worked on; a rule runs in its schedule, for its whole duration, and once |
| `nodes` | `CacheOpSound`, `DedupSound`, `FilesSound`, `NothingKeptForEver` | the sink behind a cache gets each item once and in order; each stretch of time is triggered with what was not sent before; files are whole and in order, apart from the cases of section 8; what a node keeps back goes out in the end |

Each property has a mutant in `PROJECT.json`: a plausible bug in a mapped definition (a dropped guard, a missing reset,
a swapped order) under which the same run finds it violated. The mutated operators stand, marked `Mutant`, in front of
the definitions they change. The other three runs, `rule_panic`, `ckpt_lost` and `window_recovery`, end in a violation;
section 8 says what they show.

## 4. Bounds

| Modules | Bounds | Why they are enough |
|---|---|---|
| `RuleState` | three callers with one call each (`rule_panic`: two callers, two calls each), one report of a node, one rule and a schedule rule; callers symmetric in the safety runs | the races need a holder of `ruleLock`, one who waits for it and one whose signal is deferred; every call starts at most one run, so that up to three runs overlap |
| `BarrierFlow` | two sources, an operator and, in the fork, a sink; two checkpoints; one event of a source (in the fork: none); channels of 8, never full, or of 2, where they overflow | two inputs are what alignment is about; two checkpoints overtake one another; each event falls before or after each barrier. The fork is about barriers alone |
| `Checkpoint` | a source and a sink; three checkpoints on a list of two, cleaning at three, in `stores`; two, the second forced, with failures of the store, on a list of one in `ckpt_live` | three checkpoints on a list of two make one give way and be cleaned; two tasks race for a map. `MaxSaved` is 3 and `CleanThreshold` 100 in the code, both constants here |
| `ClockWindow`, `EventWindow` | windows of two units, hops, gaps and delays of one, counts of two, three rows of two streams, up to time 4, one recovery | rows fall before, on and behind both ends of a window; a third row sees what two windows and a recovery left |
| `SyncCache` | pages of two items, a ring of two pages, 9 items over three starts, crashes between any two writes | pages can be partial; the ring overflows and turns round more than once; a third start sees what the second left behind |
| `CacheOp` | pages of one item, a ring of two, a channel of one, seven items, one control tuple, two starts | the channel and the disk both overflow; every order of input, tick, sink, stop and crash occurs |
| `SinkPath`, `FileSink` | three inputs, batches and channels of two; five items, files of two, an interval of one, time to 5 | a batch that is full, one that is partial, and a queue with no room; three files, of which one is rolled by time |
| `JoinOperator` | up to two rows of two streams and one of a third, some 240 queries with each type of join and ON naming both, one or neither stream | matches, misses and repeated rows on each side; every way the planner splits a predicate |
| `Expressions` | three operators out of ten of all precedences; integers of three bits; some ten thousand expressions over values of every type | a precedence error needs two operators, associativity three; every pair of types and both ends of each range meet |
| `NodeOutput`, `ConcurrentWorkers` | two outputs of two, three messages; two workers, queues of two, three items | full, half full and empty channels beside each other; a third item comes while both workers are busy |
| `DedupTrigger` | three requests out of eight stretches, two moments | stretches that meet, overlap, contain one another, and lie in the future |
| `SubTopoPool`, `ConnectionPool`, `MemoryPubSub` | two rules with two runs, three subtopologies; two clients, two fetches, two connections, one retry; a source with two runs, one sink, two tables | a run that closes while another opens, with something of the same name made in between |
| `RuleRegistry`, `RuleSchedule` | two callers, one call each, one new version, one end, temporary definitions triggered; ten schedules, time to 5, two calls of users | every pair of methods interleaves with an end by itself; ranges meet, cron fires where a duration ends |
| `LookupTables`, `PluginProcess`, `AsyncTasks` | one rule, two handlers, three instances, one restart; one rule, three processes, three uses, one deletion; two tasks, one crash | a drop beside a create beside a user; an old waiter meets a new process; a task left over beside one that runs |

The constants whose names begin with `Max`, the sets of ids, operations, rows, queries and expressions, and the switches
`CanStop`, `CanFail` and `CanCrash` bound the environment, never the program. `TickerFires` leaves the last id to a forced
save when there may be one. Deadlock is checked in the runs of `RuleState`, where `Finished` marks the end of the bounded
environment; the other systems simply stop when no input is left, and say `CHECK_DEADLOCK FALSE`.

## 5. Fairness

Weak fairness is assumed of goroutines only: the Go scheduler runs each that can run. In `RuleState` these are each
caller inside a call, the holder of `ruleLock` and each run; `ruleLock` is a `sync` mutex, which hands over to a waiter
that starves. In `BarrierFlow` (`FlowFairness`) and `Checkpoint` they are the nodes, the goroutines that trigger and save,
the coordinator, and a graceful stop that has been notified. `OutFairness` is that of a sender in the middle of a broadcast,
of the receivers that still run, and of a removal that waits for the lock; `WorkersFairness` that of the distributor, the
merger and each worker; `ConnFairness` that of each dialling goroutine and of a client that waits for one; `RegFairness`
that of each caller inside a call and of the callback of a run that ended; `DedupFairness` that of the node and its timer.
`OpFairness` is that of the node before a sink, its ticker while there is a cache, and a sink that gets its items through in
the end: without it a cache need never empty. `Close` is strongly fair: it is one of several ready cases of a `select`,
which Go picks at random, so that it is not passed over for ever. Nobody has to call, to report, to send an event, to stop
the rule or to let a timeout expire. The modules not named here state no liveness and assume no fairness.

## 6. What is proved

Every theorem holds for all values of the constants that satisfy the assumption named in the module that declares them.
The assumptions say what the code or its start-up gives: bounds are natural numbers, lengths of channels and pages
positive, null values no member of the set they are null of. Six say more. `TopologyAssumption` has finitely many tasks
and gives each node at least one input: a join of no inputs would be complete before it begins. `StoreAssumption` numbers
the checkpoints, which are milliseconds, in the order of the clock. `CacheAssumption` has rings of two pages or more, as
`NewSyncCache` sees to, and a null value that is no item. `ConnAssumption` asks for room for one connection,
because the server may begin with a stored one. `PubSubAssumption` has finitely many sources, none of them with the name
that `memory/store` gives to its tables. `PathAssumption` tells the end of a batch, the end of the stream and batches apart.

| Theorem | States |
|---|---|
| `TypeCorrect`, `StateIsTruthful`, `DeferredIsPending`, `TransientHasOwner` (`RuleStateProofs`) | `[]TypeOK`, `[]StateMatchesTopology`, `[]NoStrandedAction`, `[]TransientOwned` |
| `RunsAreSupervised`, `ClosedByOne` (`RuleStateProofs`) | `[]Supervised`, `[]ClosedOnce` |
| `FlowTypeCorrect`, `SnapshotsTakenOnce` (`CheckpointProofs`) | `[]FlowTypeOK`; a task takes at most one snapshot of a checkpoint |
| `AlignedSnapshotsAreExact` (`CheckpointProofs`) | under qos 2 `[]NothingAfterBarrier` |
| `NothingMissingWithRoom` (`CheckpointProofs`) | under qos 1 `NothingMissing`, up to the first channel without room and without a cancellation |
| `FlowImplemented`, `AlignedSnapshotsOfRule` (`CheckpointProofs`) | `Spec => ImplementsFlow`, and from it `NothingAfterBarrier` of the rule with its coordinator |
| `CheckpointTypeCorrect`, `CheckpointsAreWhole` (`CheckpointProofs`) | `[]TypeOK`, `[]CompletesWhole` |
| `CheckpointsInOrder` (`CheckpointProofs`) | `[]CheckpointsSound` while no save is forced and the store does not fail |
| `OutputIsSound` (`NodeOutputProofs`) | `OutputSound`, with its action property |
| `PathInvariant`, `PathIsSound` (`NodeOutputProofs`) | the inductive invariant of the way to a sink; from it `[]PathSound` |
| `WorkersAreSound` (`NodeOutputProofs`) | `[]WorkersSound` |
| `SharedStreamIsSound`, `ConnectionsAreSound`, `TopicsAreSound` (`SharedProofs`) | `[]SharedStreamSound`, `[]ConnectionsSound`, `[]TopicsSound` |
| `TasksAreSound`, `TablesAreSound`, `PluginIsSound` (`ServerProofs`) | `TasksSound`, with its action property; `[]TablesSound`; `[]PluginSound` |
| `RegistryIsSound`, `PatrolIsSound` (`ServerProofs`) | `RegistrySound` and `ScheduleSound`, with their action properties |
| `CacheInvariant`, `DiskCacheIsSound` (`NodesProofs`) | the inductive invariant of the disk cache, over all its starts, stops and crashes; from it `[]DiskCacheSound` |
| `CacheIsOneQueue` (`NodesProofs`) | `CacheIsQueue`: the cache implements `LossyQueue` in the first run, and a stop with room keeps everything |
| `CacheOpIsSound` (`NodesProofs`) | `[]CacheOpSound` for a rule that cleans its cache at a stop, and for one that starts once |
| `DedupIsSound` (`NodesProofs`) | `[]DedupSound` |
| `FilesAreSound` (`FileSinkProofs`) | `[]FilesSound` |

Hypotheses that a property itself carries are part of what is checked and proved. Those that exclude something the code
does are listed with it in section 8. `TablesSound` speaks of the time before an instance is overwritten, and what it says of
the store (`StoredRuns`) also excludes handlers that failed halfway (`mishap`) and those that changed the table between the two
halves of another (`crossed`). `RegistrySound` excludes states that a race has touched (`raced`) and a definition that the
store failed to delete (`undeleted`). `FilesSound` excludes, for the order of items, a write to a file just rolled
(`staleWrite`) and a name used again (`reused`), and for whole files a roll by `Close` and by the ticker at once
(`rolledTwice`). `PluginSound` speaks of the time before a waiter forgets a newer process; `StopKeepsItems` of stops that do not clean the cache and find room for both buffers on the disk. One
theorem has a hypothesis of its own: `CacheOpIsSound` assumes `OneRun`, because what a later run restores is not sent before
the sink blocks again, and later items overtake it (section 8, `CachedIsSent`). The run `nodes` checks the property under it.

None of these properties is inductive. What each proof adds:

*Rule.* The safety properties speak of the moments when `ruleLock` is free, and what the holder leaves behind depends on
how far it has got. `StateInv` says it for each program counter of the holder: `OwnedInv` who owns a transient state, also
while the lock is held; `DeferredInv` that a deferred signal has a holder on its way to `nextAction` or a caller that owes a
transition; `CallsInv` what a caller at each point has announced; `HolderInv` which caller or run the holder is; `MatchInv`
how state and topology agree at each step of `doStart` and `doStop`. `RunInv` follows the runs: `RunsInv` how far a
`runTopo` goroutine is in each state of its topology, `SupervisedInv` that a topology has one while somebody may look,
`PlannedInv` that a topology which is planned but not installed is untouched, and `ClosingInv` that whoever closes a
topology found it open and is alone in this.

*Flow.* `FlowInv` is types with the histories of what is in each channel. `OnceInv` adds that a barrier of a checkpoint is
in a channel once, that a tracker has counted no more than what it consumed, and that a node which took its snapshot has
all barriers: hence one snapshot each. `AlignInv` is about order: what an upstream sent before its barrier is before it in
the channel or consumed, and while an alignment is open, a node has consumed nothing that was sent after. It holds although
channels drop items, because a drop takes the oldest. `TrackInv` is its converse and needs room: what was sent before a
barrier has been consumed or is before it in the channel.

*Checkpoint.* `TimeInv` says that a tick which waits is older than the clock and newer than what has begun; with it every
step is a step of the flow or a stutter. `BookInv` says who has acknowledged: a task that is no longer awaited has taken its
snapshot and none of its goroutines is left. `ListInv` adds the order: what is listed is older than what is pending.

*Outputs.* `OutputInv` relates, for each output, what was received, what is in its channel and what is still to be sent:
in this order they rise, and together with what was taken out as the oldest they are everything since it was added.

*The way to a sink.* `PlacesInv` has each item at one of ten places, from what BatchOp owes to the outside, and says which
places are older than which: the two sinks go on without regard to one another, and an item that a full channel discards may
be younger than what the writer holds, which is why the relation `Before` depends on `discards`. A step moves the oldest items
of one place to another, and `MoveKeeps` shows once for all ways (`Passes`) that this keeps the order. That batches have
their size needs what is still to come: `Fills` counts, along the messages on their way to the writer, the items of the batch
that each finds there, so that an end of a batch finds a full one, unless it was sent by time or with the stream. `EofInv` says
that behind the end of the stream there is nothing but ends of batches.

*Workers.* With checkpoints a barrier takes a worker out of its turn, so that nothing holds of the order of the inputs; but
each input is with one worker or the distributor (`HandsInv`), and until the merger has had its results none of them is out
(`Pending`), after that as many as the merger has not (`SentInv`). Without checkpoints `TurnsInv` adds the order: the workers,
counted from the one whose turn it is, have the next inputs, and what went out with what the merger holds is what the inputs
before those have made. That what went out begins with whole inputs needs `Begins`, by induction over the inputs.

*Shared streams, connections and topics.* `PoolInv` and `ConnInv` say of everything ever made, in the pool or not, who refers to it
and how far it is: that a stream outside of the pool has no reference unless it failed (`SubInv`, `RefInv`); that a
connection counts its clients (`CountInv`), that it is open only while its goroutine or the pool has it (`MetaInv`), and that a
client between fetching and attaching holds the lock of the manager, so that what it fetched is still there (`ClientInv`). `PubInv` adds that
each channel was made by one run or one table (`ChannelInv`), so that there is one for whoever has made none, that only a
wildcard source subscribes to all topics (`WildInv`), and that the tables' channel is never an older one than a table's own
(`SubscribedInv`).

*Server.* `AsyncInv` says how far `InitManager` has got; `TableInv` what the handlers have
done so far while none has crossed another halfway, and that the instance has the count of its users; `PluginInv` that the process started last is the only one alive, and which
symbols it was told of. `RegInv` says what each call of the registry is in the middle of: that an upsert and a create keep
the lock of the registry where the code does, that the state which a create has made is nobody else's until it is
registered, that one caller holds a `ruleLock`, and that what is in memory is not behind the database unless one of the races
of section 8 has happened, which `raced` records and never forgets. `RewriteInv` is about a trigger that was read and is about
to be written back: it has the version that is stored, or an import is at work. `ScheduleInv` relates what the patrol has read to what the
schedule says at the time at which it acts.

*Sink cache.* `CacheInv` has three parts. `Parts`, which stops and crashes keep, in whatever store they leave: the pages and
both buffers hold distinct items, none of them taken out before and none newer than the last that arrived. It is shown of
every store in flight, so that a crash between any two writes is covered. `Ring` is about a running cache: the tail is where
the head and the size say. `Full` is about the first run: every slot between head and tail has a page, and the length counts
the contents. With these each operation is one step of `LossyQueue` on `Contents`, or a stutter: an append is at the end
however many pages lie before it, an overflow takes the oldest, and a page that is loaded changes nothing. `OpInv` puts the
node on top: who waits for whom (`OpControl`), and, in `AllOnWay`, that what the sink has, what is in the channel, the
current item and the contents of the cache rise in this order and are, with what is accounted for as lost, all that arrived.

*Deduplication.* `DedupInv` follows the histogram. Requests leave the queue in the order of their `now`, so that no later
one reaches further back than the last; as far back as one may, the histogram has just the moments that were sent
(`Covered`). Slots are disjoint and in order, and stay so when a request is cut at them: what it gets is the rest (`Rest`).

*File sink.* `FileInv` says of every writer ever made, open or not, what is in its buffer and its file. `RollInv` has who is
where: `Close` begins when `Collect` is over, and who has flushed a file finds it closed. `WholeInv` has the beginning of an
array in an open buffer, and a whole one once somebody rolls it; `NamesInv` that writers have files of their own while no name
was used again, so that a flush changes no other file.

The proofs have one lemma per action and one step per part of the invariant that the action can disturb; steps that change
nothing an invariant mentions share a frame lemma. Facts about finite sets and sequences come from the library of TLAPS.

## 7. What only TLC checks, and what is not modelled

Liveness under fairness and `ENABLED` are out of reach of the proof system, and so are definitions that are recursive, go
through `SelectSeq` or need the induction theorems of the library, which take an operator. Induction over a set of numbers is
not: `SequenceLemmas` derives it from the least number of a set (`LeastNumber`, `SetInduction`), and shows with it what
`FlattenSeq` makes of a ring of any length. These stay with TLC: all liveness properties (`EveryCallReturns`,
`EndOfRunNoticed`, `AcksArrive`, `ForcedSaveEnds`, `NodesGoOn`, `ReachesEveryTask`, `WaitEnds`, `EveryMethodReturns`,
`NothingKeptForEver`); `JoinSound` and `ExpressionsSound`, which compute over sequences and trees; the
windows (`WindowSound`, `EventWindowSound`), which filter and sort their rows; `TrackedHasAll`, of which
`NothingMissingWithRoom` is what is proved.

Abstractions inside the models:

- *Rule.* Planning succeeds or fails; what is planned is opaque. Retries of a run by the restart strategy happen inside
  the nodes' supervision and appear as further outcomes in the drain. Deleted rules keep their state as in the code.
- *Flow.* Checkpoint ids are milliseconds of the clock; two checkpoints in one are assumed away. A broadcast to all
  receivers is one step here, and many in `NodeOutput`, where the receive that makes room may block as the code's does.
- *Checkpoint.* The key last stored, which a store compares the next with (`SavedDb`), is the newest that has not been cleaned
  away. A recovery is not run: `NothingLost` and `NothingDuplicated` say of the stored states what it would find.
- *Cache.* The store returns no errors. The wait of a start for the flush before it is left out: a start follows the
  flush. A stale tick finds nothing to send.
- *Sinks.* Errors sent in place of items (`sendError`) are left out: BatchOp counts them (batch_op.go:90-108) and the writer
  passes them on by themselves, so that a batch beside one has fewer items than its size. Errors of converters and the ticker that an item which fails leaves behind (sink_node.go:126) are left out; the
  stop of a rule is a state without further steps. The file sink writes one path, JSON lines.
- *Windows.* `ClockWindow` leaves out the recovery of a session and counts time in units longer than the 50 ms that a tick may be late.
- *Expressions.* Floating point numbers are exact fractions; functions, time values, maps and wildcards are left out.
  The module is recursive and uses bit operations, so that TLC alone can check it.
- *Server.* One rule id, one table, one plugin; other ids share only locks. Status texts, counts for display and traces are left out.

Not modelled: state windows, `window_v2` and incremental aggregation; join alignment, the cache of a lookup node, rate
limiting and switching; schemas, converters, connectors other than the file sink; the analysis of statements and the
building of graphs; native plugins and services, stores, migration, REST, RPC and CLI (I/O and forwarding); metrics and
tracing. `PROJECT.json` gives the reason with each component.

## 8. Disagreements found

Three have a run whose counterexample shows them; `findings` in `PROJECT.json` quotes the lines they disagree with.

| Run | What the code does |
|---|---|
| `rule_panic` | `cleanRule` uses `s.topology` after a Stop has set it to nil (action.go:153), outside of any recover |
| `ckpt_lost` | a source may ingest between its barrier and its snapshot (responder.go:63), so that the offset saved is ahead of what the tasks behind it have saved: the event is lost at a recovery |
| `window_recovery` | what the watermark node holds back is not in its checkpoint: an event that the source will not send again is lost |

The modules state further expectations that the code does not meet, each with a comment that says so. None is among the
runs; TLC finds each violated on instances of the sizes of section 4.

**Rules and registry**

| Definition | What the code does |
|---|---|
| `NoOrphanedRun` (`RuleState`) | a Stop before `runTopo` has opened the topology closes nothing (topo.go:142) and leaves a run nobody can stop |
| `OneRunAlways` (`RuleSchedule`) | a rule with a schedule and restart attempts that failed is started by `scheduledStart`, and then, by the state read before, `RecoverRule` replaces its registry entry (rule_init.go:230-240): two runs |
| `StoredIsRegisteredAlways` (`RuleRegistry`) | `rr.delete` takes the entry out of the registry (rule_manager.go:116), and then the store may fail to delete the definition (processor/rule.go:290): it stays stored without a rule until the next boot, where the comment at rule_manager.go:125 promises a rollback. An upsert over what is left compares with memory alone, and may store an older version |
| `DismissedStaysStopped` (`RuleSchedule`) | a periodic rule that a user stopped is started again by the patrol, where overview.md:304 says it is no longer scheduled |

`nextAction` carries out a queued start without announcing `Starting` (transit.go:19), so that a Stop in between is
ignored although rules.md:147 says it is queued, and it runs a schedule rule at once although `Start` leaves those to the
patrol (state.go:121). An import takes no lock: between its check of the version and its write (processor/rule.go:60-68), or
between the reading and the writing of a trigger (110-132), another write may fall and be overwritten. An import of a running rule, and a start, restart or patrol beside a deletion, leave a run that no
registry entry knows; the end of an old run marks a new version of the rule as not triggered (action.go:138); a restart
may put back an older definition; StopRule does nothing on a rule stopped by an error, which the patrol then starts.
Cron with a duration equal to its interval is stopped at the instant it fires; ranges without a duration, or a duration
with ranges and no cron, are never started; a duration rule that is restarted while the patrol looks at it ends too early.

**Checkpoints and caches**

| Definition | What the code does |
|---|---|
| `WrittenBack` (`BarrierFlow`) | what an aligner withholds is sent to `h.output`, which nothing sets: a nil channel (barrier_handler.go:168) |
| `SavesEveryTask` (`Checkpoint`) | two tasks race for the map of a checkpoint (kv_store.go:84) and one state goes missing |
| `NothingDuplicated` (`Checkpoint`) | a later snapshot is saved under an earlier checkpoint (default.go:387) |
| `CoordinatorSurvives` (`Checkpoint`) | `Clean` with no checkpoint completed indexes an empty slice (kv_store.go:145) and ends the coordinator |
| `CompletesInOrder` with `CanStop` or `CanFail` | a tick that waits through a forced save begins a checkpoint with an older id after it, so that the list is `<<2, 1>>`; one whose write fails is listed and stays pending. The comment at kv_store.go:104 asks whether the order is promised |
| `StopKeepsNewest` (`SyncCache`) | a stop on a full disk stores the read buffer over the newest page (sync_cache.go:219) |
| `SomethingOnDisk`, `LengthIsTrue` without `FirstRun` | `initStore` starts at slot 0 when the size is 0, and a later start reads a stale head (sync_cache.go:357); the length counts whole pages where they are partial (sync_cache.go:279) |
| `CachedIsSent` with `CleanCacheAtStop` FALSE | what a start restores is not sent until the sink blocks again: a new node has `hasCache` FALSE (cache_op.go:106) |

**Sinks**

| Definition | What the code does |
|---|---|
| `EofIsLastAlways` (`SinkPath`) | with an alternative queue the rule is told of the end of the stream while the queue still holds batches (sink_node.go:186): only the first sink counts |
| `KeptAlways` (`FileSink`) | a writer looked up before the lock is taken again may have been rolled in between, and the item is lost without an error (sink.go:178-197) |
| `WholeAlways` (`FileSink`) | `Close` takes no lock (sink.go:216-225), so that it and the ticker may roll one file at once (sink.go:235-250): each writes a footer, and the file has two |

A full alternative queue drops although a disk cache stands behind it (sink_node.go:118; sinks/overview.md:147); the
writer's buffer is in no checkpoint; NewBatchOp adjusts its batch size after it was used (batch_op.go:48). Two rolls in one
millisecond, or a pattern without time, open the same file anew and lose the former; `RollingInterval` 0 rolls at every
check although file.md:53 speaks of the count alone.

**Nodes and windows**

| Definition | What the code does |
|---|---|
| `DroppingSendEnds` (`NodeOutput`) | a sender that waits for the oldest item of a channel its receiver has just emptied holds the lock of the outputs and does not see the end of the rule (node.go:212) |
| `RowsOnceAlways` (`ClockWindow`) | rows of two streams out of the order of their stamps come in two tumbling windows (window_op.go:641 takes them as sorted) |
| `CountedRowsKept` | a `continue` skips PutState (window_op.go:416), and a recovery loses rows of a count window |
| `NothingDropped`, `PartsAreWhole` | a hopping or delayed window that finds none of its rows clears those to come (window_op.go:671); sending a sliding window twice keeps the expired rows and drops the live ones (window_op.go:623) |
| `EndsAreNaturalAlways`, `DelaysSurvive` | after a recovery windows end at the trigger time plus intervals, and sliding windows that wait are forgotten |
| `NoEmptySlot`, `SlotsOnceAlways` (`DedupTrigger`) | empty slots are sent, and a moment twice when rows are not triggered in the order of their time; requests that wait are not in the saved state |

`concurrent.go` with checkpoints: a worker that takes a barrier loses its turn (112-115), and the barrier overtakes items;
`OrderPreserved` and `ResultsComeOut` are stated for rules without. Met while reading what is not modelled: in event time an event
at the last watermark is taken (time.md:18 says late), the delay of a sliding window is compared with nanoseconds
(window_op.go:748); window_v2 never removes a delayed trigger when all are due (window_v2_event_op.go:59), drops rows of a
delayed window (window_v2_op.go:288) and hands out its live status map as state; incremental windows take rows at both of
their ends; JoinAlignNode trims only what is short enough (join_align_node.go:118).

**Queries**

| Definition | What the code does |
|---|---|
| `FieldsBindFirst` (`Expressions`) | `[]`, `->` and `.` bind like `*`: `x * a[0]` is read as `(x * a)[0]` (token.go:321; json_expr.md:76) |
| `BoundsAreBounds` | what follows the upper bound of BETWEEN takes both bounds as its operand |
| `NumbersAreTheirValues` | an unsigned integer above the largest signed one becomes negative (valuer.go:1275) |
| `InAsCommented` | IN gives false where the comment promises NULL (valuer.go:710) |
| `NothingPanics` | `a[2:-2]` of three panics (valuer.go:823), and so does IN with something that is no set (valuer.go:739) |
| `OrCommutes` | `nil OR true` is false, `true OR nil` is true |
| `LeftIsKept`, `PushingIsHarmless` (`JoinOperator`) | sides are taken from the order in ON, so that LEFT and RIGHT swap when ON names the joined stream first; an ON that names one stream joins FROM with itself; predicates pushed below outer joins change results (joinPlan.go:62) |

**What rules share**

| Definition | What the code does |
|---|---|
| `LatestHandleOpen` (`MemoryPubSub`) | when a wildcard source restarts, the old Close closes the new channel and leaves it attached; a producer then panics (manager.go:163) |
| `UsedIsOpenAlways` (`LookupTables`) | creating or replacing a table in use overwrites its instance (stream.go:202): the old source is never closed, its users count down the new one |
| `StoredRunsAlways` (`LookupTables`) | the instance and the definition change one after the other, without a lock over both (stream.go:200-230, 621-643). When a drop has taken the instance out, another handler creates one and stores its definition, which the drop then deletes: an instance runs that is not stored. A drop takes out the instance that a create has just made and not stored yet, and two replacements that cross run the one and store the other. A create that fails in a replace (stream.go:204), and a drop that ends with the error of Close (table.go:109) or of the store, leave one without the other |
| `SymbolsAreUsed`, `StatusIsTrue` (`PluginProcess`) | a waiter deletes the entry of a newer process (plugin_ins_manager.go:324), so that a second is started; a replay in its own goroutine starts a symbol that was stopped; the end of an old process overwrites the status |
| `EveryTaskEnds`, `CancelIsFinal`, `StartSucceeds` (`AsyncTasks`) | cancelling a task left by a crash calls a nil function: one start of the server is lost for each (async.go:61, 112); a cancellation is overwritten by a start or an end; a task that was only registered stays for ever |

A second rule whose plan fails gives back the connection of the running stream (planner_source.go:122-143), planning one
resets the error channel of the shared connection, and who opens a stream after its failure hears nothing of it
(subtopo.go:60). `SubTopoPool` models all three, and its properties say what holds nevertheless: of the stream itself, and of
those that opened it before it failed.

Connections dropped or updated while they are dialled are not closed by it; handlers of stopped nodes stay registered, as
DeRef's key is not FetchConnection's; a connection is dialled in the context of its first user, and when that stops another
who waits gets it undialled and without an error (pool.go:398; conn.go:46). In topics a late Subscribe of a run that was
cancelled replaces the live one's channel, a new publisher of a topic that exists does not find the wildcards, the second
table of a topic starves the first, and a table given back before its goroutine can be cancelled runs for ever.

## 9. Plan

What is left, in order:

1. A model of `window_v2` and its delayed triggers, of join alignment and of state windows beside `ClockWindow`.
2. `SyncCache` with errors of the store and a disk limit that changes.
