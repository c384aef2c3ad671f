---------------------------- MODULE Checkpoint -----------------------------
(***************************************************************************)
(* Checkpointing of a rule: the coordinator (internal/topo/checkpoint),    *)
(* the snapshot a task's context keeps (internal/topo/context) and the     *)
(* checkpoint store of the rule (internal/topo/state), on top of the flow  *)
(* of barriers in BarrierFlow.tla.                                         *)
(*                                                                         *)
(* The coordinator is one goroutine.  Every snapshot a task takes is saved *)
(* by a goroutine of its own, which then acknowledges; those of different  *)
(* tasks, and of one task for several checkpoints, run side by side.       *)
(***************************************************************************)
EXTENDS BarrierFlow

CONSTANTS
    MaxSaved,       \* max of KVStore: the checkpoints it keeps in memory, 3
    CleanThreshold, \* checkpoints between two cleanings of the store, 100
    CanFail         \* bound: whether the store may return errors

\* The ids are the readings of the clock in their order.
ASSUME StoreAssumption ==
    /\ IsFiniteSet(CheckpointIds) /\ CheckpointIds = 1 .. Cardinality(CheckpointIds)
    /\ {MaxSaved, CleanThreshold} \subseteq Nat \ {0}
    /\ CanFail \in BOOLEAN
    /\ None \notin {"saving", "saved", "timedOut", "cancelled"}

VARIABLES
    clock,      \* the last millisecond a checkpoint was due
    tick,       \* ticker.C: the time of a tick that waits, 0 if none does
    snapshot,   \* DefaultContext.snapshot
    savers,     \* goroutines that save a snapshot: [task, id, pc, snap, found]
    mapStore,   \* KVStore.mapStore: who made the map of an id, and the map
    checkpoints,\* KVStore.checkpoints
    db,         \* KVStore.db: the states under each key
    signal,     \* Coordinator.signal
    coord,      \* the coordinator's goroutine
    pending,    \* pendingCheckpoints: notYetAckTasks of each id
    toBeClean,  \* Coordinator.toBeClean
    inForceSaveState,
    notify,     \* how many values forceSaveStateNotify holds
    stop        \* Topo.GracefulStop

time   == <<clock, tick>>
saving == <<snapshot, savers, mapStore>>
stored == <<checkpoints, db>>
coordination == <<coord, pending, toBeClean, inForceSaveState>>
client == <<notify, stop>>
vars   == <<flowVars, time, saving, stored, signal, coordination, client>>

NoStore == [owner |-> None, states |-> Empty]

Init ==
    /\ FlowInit
    /\ clock = 0 /\ tick = 0
    /\ snapshot = [t \in Tasks |-> None] /\ savers = {}
    /\ mapStore = [id \in CheckpointIds |-> NoStore]
    /\ checkpoints = << >> /\ db = Empty
    /\ signal = << >> /\ coord = "running" /\ pending = Empty
    /\ toBeClean = 0 /\ inForceSaveState = FALSE
    /\ notify = 0 /\ stop = None

-----------------------------------------------------------------------------
(* Taking a snapshot: DefaultContext.Snapshot, and the goroutine of        *)
(* TriggerCheckpoint that saves it.                                        *)

Saver(t, id) == [task |-> t, id |-> id, pc |-> "take", snap |-> None,
                 found |-> None]

\* The context keeps one snapshot: a second one replaces the first.
TookSnapshot(t, id) ==
    /\ snapshot' = [snapshot EXCEPT ![t] = state[t]]
    /\ savers' = savers \cup {Saver(t, id)}
    /\ UNCHANGED mapStore

\* What a task does that only concerns the flow of events and barriers.
TaskStep ==
    /\ \/ \E s \in Sources  : SourceStep(s)
       \/ \E g \in triggers : SendBarrier(g)
       \/ \E n \in Nodes    : Withhold(n) \/ Process(n) \/ CountBarrier(n)
    /\ UNCHANGED <<time, saving, stored, signal, coordination, client>>

\* A task takes its snapshot of a checkpoint.
SnapshotStep ==
    /\ \/ \E g \in triggers : TakeSnapshot(g) /\ TookSnapshot(g.task, g.id)
       \/ \E n \in Nodes : TriggerNode(n) /\ TookSnapshot(n, Head(input[n]).id)
    /\ UNCHANGED <<time, stored, signal, coordination, client>>

-----------------------------------------------------------------------------
(* Saving a snapshot: DefaultContext.SaveState and KVStore.SaveState.      *)

Ack(g) == [message |-> "ACK", id |-> g.id, task |-> g.task]
Dec(g) == [message |-> "DEC", id |-> g.id, task |-> g.task]

\* Mutant: without a snapshot to save there is no acknowledgement.
TakeWithoutAck(g) ==
    /\ g \in savers /\ g.pc = "take"
    /\ snapshot' = [snapshot EXCEPT ![g.task] = None]
    /\ savers' = (savers \ {g}) \cup
           (IF snapshot[g.task] = None THEN {}
            ELSE {[g EXCEPT !.pc = "load", !.snap = snapshot[g.task]]})
    /\ UNCHANGED <<flowVars, time, signal, mapStore, stored, coordination, client>>

\* The goroutine takes whatever snapshot the context holds.  If another saver
\* has taken it already nothing is saved, and the checkpoint is acknowledged.
TakeFromContext(g) ==
    /\ g \in savers /\ g.pc = "take"
    /\ snapshot' = [snapshot EXCEPT ![g.task] = None]
    /\ IF snapshot[g.task] = None
       THEN savers' = savers \ {g} /\ signal' = Append(signal, Ack(g))
       ELSE /\ savers' = (savers \ {g}) \cup
                   {[g EXCEPT !.pc = "load", !.snap = snapshot[g.task]]}
            /\ UNCHANGED signal
    /\ UNCHANGED <<flowVars, time, mapStore, stored, coordination, client>>

\* mapStore.Load.
LoadMap(g) ==
    /\ g \in savers /\ g.pc = "load"
    /\ savers' = (savers \ {g}) \cup
           {[g EXCEPT !.pc = "store", !.found = mapStore[g.id].owner]}
    /\ UNCHANGED <<flowVars, time, snapshot, mapStore, stored, signal,
                   coordination, client>>

\* The snapshot goes to the map found, or to a new one that replaces the map
\* of the id.  A map that has been replaced is out of everyone's reach.
Stored(g) ==
    LET held == mapStore[g.id]
    IN  IF g.found = None
        THEN [owner |-> g.task, states |-> With(Empty, g.task, g.snap)]
        ELSE IF g.found = held.owner
        THEN [held EXCEPT !.states = With(@, g.task, g.snap)]
        ELSE held

StoreState(g) ==
    /\ g \in savers /\ g.pc = "store"
    /\ savers' = savers \ {g}
    /\ \/ mapStore' = [mapStore EXCEPT ![g.id] = Stored(g)]
          /\ signal' = Append(signal, Ack(g))
       \/ CanFail /\ signal' = Append(signal, Dec(g)) /\ UNCHANGED mapStore
    /\ UNCHANGED <<flowVars, time, snapshot, stored, coordination, client>>

-----------------------------------------------------------------------------
(* The coordinator: one goroutine that selects among its ticker, its       *)
(* signals and the end of the rule's context.                              *)

\* The ticker's channel holds one tick.  (Bound: the last id is left to the
\* forced save, when there may be one.)
TickerFires ==
    /\ tick = 0 /\ clock + (IF CanStop THEN 2 ELSE 1) \in CheckpointIds
    /\ clock' = clock + 1 /\ tick' = clock + 1
    /\ UNCHANGED <<flowVars, saving, stored, signal, coordination, client>>

\* store.Clean deletes what is older than the oldest checkpoint it keeps.
CleanedDb == Restrict(db, {id \in DOMAIN db : id >= Head(checkpoints)})

\* saveState: every task is awaited, every source triggered.  The store is
\* cleaned now and then; without any checkpoint in it Clean indexes an empty
\* slice, and the goroutine ends.
SaveState(id) ==
    /\ pending' = With(pending, id, Tasks)
    /\ Begin(id)
    /\ IF toBeClean + 1 < CleanThreshold
       THEN toBeClean' = toBeClean + 1 /\ UNCHANGED <<db, coord>>
       ELSE IF checkpoints = << >>
       THEN coord' = "panicked" /\ toBeClean' = toBeClean + 1 /\ UNCHANGED db
       ELSE db' = CleanedDb /\ toBeClean' = 0 /\ UNCHANGED coord
    /\ UNCHANGED <<saving, checkpoints, client>>

\* A tick during a forced save is skipped.
OnTick ==
    /\ coord = "running" /\ tick # 0
    /\ tick' = 0 /\ UNCHANGED <<clock, signal, inForceSaveState>>
    /\ IF inForceSaveState
       THEN UNCHANGED <<flowVars, saving, stored, coord, pending, toBeClean, client>>
       ELSE SaveState(tick)

\* The next signal is s.
Receive(s) ==
    /\ coord = "running" /\ signal # << >> /\ Head(signal) = s
    /\ signal' = Tail(signal)

\* Mutant: the forced checkpoint reuses the id of the last one.
ForceWithLastId(s) ==
    /\ Receive(s) /\ s.message = "ForceSaveState" /\ clock > 0
    /\ inForceSaveState' = TRUE /\ UNCHANGED time
    /\ SaveState(clock)

OnForceSaveState(s) ==
    /\ Receive(s) /\ s.message = "ForceSaveState"
    /\ clock + 1 \in CheckpointIds
    /\ clock' = clock + 1 /\ UNCHANGED tick
    /\ inForceSaveState' = TRUE
    /\ SaveState(clock + 1)

\* Mutant: whoever waits for the forced save is not told.
FinishSilently == inForceSaveState' = FALSE /\ UNCHANGED notify

\* Any end of a checkpoint ends a forced save.
FinishForceSaveState ==
    /\ inForceSaveState' = FALSE
    /\ notify' = IF inForceSaveState THEN notify + 1 ELSE notify

\* Mutant: one acknowledgement is enough.
AckOfOne(s) == [pending EXCEPT ![s.id] = {}]

Acked(s) == [pending EXCEPT ![s.id] = @ \ {s.task}]

\* What remains pending when checkpoint id has completed.
Remaining(id) == {i \in DOMAIN pending : i > id}

\* KVStore.SaveCheckpoint: the oldest checkpoint gives way to the new one.
SavedCheckpoints(id) ==
    LET all == Append(checkpoints, id)
    IN  IF Len(all) > MaxSaved THEN Tail(all) ELSE all

\* The map of the checkpoint that gives way is deleted.
SavedMaps == IF Len(checkpoints) = MaxSaved
             THEN [mapStore EXCEPT ![Head(checkpoints)] = NoStore]
             ELSE mapStore

\* ts.Set: a key that is not newer than the last one is silently not stored.
SavedDb(id) == IF \E last \in DOMAIN db : last >= id THEN db
               ELSE With(db, id, mapStore[id].states)

\* complete: older checkpoints are dropped; a checkpoint whose states cannot
\* be saved stays pending, though KVStore has listed it by then if it is the
\* database that fails.
Complete(id) ==
    \/ /\ mapStore[id].owner # None
       /\ checkpoints' = SavedCheckpoints(id) /\ mapStore' = SavedMaps
       /\ \/ /\ db' = SavedDb(id)
             /\ pending' = Restrict(pending, Remaining(id))
          \/ CanFail /\ pending' = [pending EXCEPT ![id] = {}] /\ UNCHANGED db
    \/ /\ mapStore[id].owner = None
       /\ pending' = [pending EXCEPT ![id] = {}]
       /\ UNCHANGED <<checkpoints, db, mapStore>>

OnAck(s) ==
    /\ Receive(s) /\ s.message = "ACK"
    /\ IF s.id \in DOMAIN pending /\ Acked(s)[s.id] = {}
       THEN Complete(s.id) /\ FinishForceSaveState
       ELSE /\ pending' = IF s.id \in DOMAIN pending THEN Acked(s) ELSE pending
            /\ UNCHANGED <<stored, mapStore, inForceSaveState, notify>>
    /\ UNCHANGED <<flowVars, time, snapshot, savers, coord, toBeClean, stop>>

\* cancel, for a checkpoint that is still pending.
OnDec(s) ==
    /\ Receive(s) /\ s.message = "DEC"
    /\ pending' = Restrict(pending, DOMAIN pending \ {s.id})
    /\ FinishForceSaveState
    /\ UNCHANGED <<flowVars, time, saving, stored, coord, toBeClean, stop>>

OnDone ==
    /\ coord = "running" /\ cancelled
    /\ coord' = "stopped"
    /\ UNCHANGED <<flowVars, time, saving, stored, signal, pending, toBeClean,
                   inForceSaveState, client>>

-----------------------------------------------------------------------------
(* Topo.GracefulStop with enableSaveStateBeforeStop, called once.          *)

ForceSaveState ==
    /\ CanStop /\ stop = None
    /\ stop' = "saving"
    /\ signal' = Append(signal, [message |-> "ForceSaveState", id |-> 0, task |-> None])
    /\ UNCHANGED <<flowVars, time, saving, stored, coordination, notify>>

Notified ==
    /\ stop = "saving" /\ notify > 0
    /\ stop' = "saved" /\ notify' = notify - 1 /\ CancelContext
    /\ UNCHANGED <<time, saving, stored, signal, coordination>>

TimedOut ==
    /\ stop = "saving"
    /\ stop' = "timedOut" /\ CancelContext
    /\ UNCHANGED <<time, saving, stored, signal, coordination, notify>>

\* Topo.Cancel, and GracefulStop without the option.
Cancel ==
    /\ CanStop /\ stop = None
    /\ stop' = "cancelled" /\ CancelContext
    /\ UNCHANGED <<time, saving, stored, signal, coordination, notify>>

-----------------------------------------------------------------------------

SaverStep(g) == TakeFromContext(g) \/ LoadMap(g) \/ StoreState(g)

SignalStep == \E s \in Range(signal) :
                 OnForceSaveState(s) \/ OnAck(s) \/ OnDec(s)

Next ==
    \/ TaskStep \/ SnapshotStep
    \/ \E g \in savers : SaverStep(g)
    \/ TickerFires \/ OnTick \/ SignalStep \/ OnDone
    \/ ForceSaveState \/ Notified \/ TimedOut \/ Cancel

Spec == Init /\ [][Next]_vars

\* Every goroutine of the rule goes on.  Nothing is assumed of the outside
\* world: events, ticks, the user's stop and the timeout need not come.
Fairness ==
    /\ WF_vars(\E s \in Sources : UpdateState(s) /\ TaskStep)
    /\ WF_vars(\E g \in triggers : SendBarrier(g) /\ TaskStep)
    /\ WF_vars(\E n \in Nodes : (Withhold(n) \/ Process(n) \/ CountBarrier(n))
                                /\ TaskStep)
    /\ WF_vars(SnapshotStep)
    /\ WF_vars(\E g \in savers : SaverStep(g))
    /\ WF_vars(OnTick \/ SignalStep \/ OnDone)
    /\ WF_vars(Notified)

FairSpec == Spec /\ Fairness

-----------------------------------------------------------------------------
(* Properties.                                                             *)

Message == [message : {"ACK", "DEC"}, id : CheckpointIds, task : Tasks]
              \cup {[message |-> "ForceSaveState", id |-> 0, task |-> None]}

\* Every variable has the values its counterpart in the code can have.
TypeOK ==
    /\ {clock, tick} \subseteq CheckpointIds \cup {0} /\ tick <= clock
    /\ \A t \in Tasks : snapshot[t] = None \/ snapshot[t] \subseteq Events
    /\ \A g \in savers : g.task \in Tasks /\ g.pc \in {"take", "load", "store"}
    /\ \A id \in CheckpointIds : DOMAIN mapStore[id].states \subseteq Tasks
    /\ Range(checkpoints) \cup DOMAIN db \cup DOMAIN pending \subseteq CheckpointIds
    /\ Len(checkpoints) <= MaxSaved
    /\ Range(signal) \subseteq Message
    /\ coord \in {"running", "stopped", "panicked"}
    /\ \A id \in DOMAIN pending : pending[id] \subseteq Tasks
    /\ toBeClean \in 0 .. CleanThreshold /\ notify \in 0 .. 2
    /\ inForceSaveState \in BOOLEAN
    /\ stop \in {None, "saving", "saved", "timedOut", "cancelled"}

\* A checkpoint completes only when it is whole: every task has taken its
\* snapshot for it and no goroutine of it is left, whatever acknowledgements
\* of other checkpoints arrive in between.
CompletesWhole ==
    \A id \in Range(checkpoints) :
       /\ DOMAIN tookAt[id] = Tasks
       /\ \A g \in triggers \cup savers : g.id # id

\* The coordinator, the contexts and the store leave the flow of events and
\* barriers as BarrierFlow specifies it; they only decide when a checkpoint
\* begins and when the context is done.
ImplementsFlow == FlowSpec

\* KVStore trusts that checkpoints complete in the order they began: the last
\* of its list is the newest, the first is the oldest.  ("TODO is the order
\* promised?", kv_store.go:104.  It is not once a save is forced, when a tick
\* may wait until the save has ended, nor when the store fails: README, section 8.)
CompletesInOrder ==
    \A i, j \in DOMAIN checkpoints : i < j => checkpoints[i] < checkpoints[j]

\* Until the rule ends the coordinator does not wait for a task for ever:
\* every task of a checkpoint acknowledges it, or the checkpoint is given up
\* for a newer one or a task that failed.
AcksArrive ==
    \A id \in CheckpointIds :
       id \in DOMAIN pending ~>
          (id \in DOMAIN pending => pending[id] = {}) \/ cancelled

\* GracefulStop is notified of the end of its forced save and does not have to
\* wait for its timeout, whether the save succeeds or fails and whatever other
\* checkpoints are under way.
ForcedSaveEnds == stop = "saving" ~> stop \notin {None, "saving"}

-----------------------------------------------------------------------------
(* What documentation and comments say, and the code does not do.          *)

\* "At-least-once(1): Nothing is lost": the offset a source is rewound to is
\* not ahead of the states its events have reached.
NothingLost ==
    \A id \in DOMAIN db : \A s \in Sources \cap DOMAIN db[id] :
       \A n \in Downstream(s) \cap DOMAIN db[id] : db[id][s] \subseteq db[id][n]

\* "checkpoint the state into persistent storage which will allow a recovery":
\* a checkpoint that is saved has the state of every task.
\* (The code does not satisfy this: README, section 8.)
SavesEveryTask == \A id \in DOMAIN db : DOMAIN db[id] = Tasks

\* "Exactly-once(2): Nothing is lost or duplicated": the state saved for an
\* operator has nothing that its sources will send again.
\* (The code does not satisfy this: README, section 8.)
NothingDuplicated ==
    \A id \in DOMAIN db : \A n \in Ops \cap DOMAIN db[id] :
       db[id][n] \subseteq UNION {sentAt[id][u] : u \in Upstream[n]}

\* "the checkpoint mechanism will be activated to save states periodically":
\* the coordinator ends only with the rule.
\* (The code does not satisfy this: README, section 8.)
CoordinatorSurvives == coord # "panicked"

\* What is in the list of completed checkpoints is whole and in the order of its
\* beginning, and every variable has the values its counterpart can have
\* (coordinator.go:330-360, kv_store.go:97-160).
CheckpointsSound == TypeOK /\ CompletesWhole /\ CompletesInOrder
=============================================================================
