---------------------------- MODULE RuleRegistry ----------------------------
(***************************************************************************)
(* The registry of rules: internal/server/rule_manager.go, the patrol of   *)
(* rule_init.go, the import of rulesets (rest.go) and the database that    *)
(* internal/processor/rule.go keeps.                                       *)
(*                                                                         *)
(* The module follows one rule id; other ids share nothing but the lock of *)
(* the registry.  REST handlers and the patrol run concurrently.  Each of  *)
(* their methods is a sequence of critical sections, under the lock of the *)
(* registry (rlock) or under ruleLock of a rule.State (busy), and between  *)
(* them the registry, the database and the state may change.  What a       *)
(* rule.State does inside is the subject of RuleState; here it has a       *)
(* topology or not.                                                        *)
(***************************************************************************)
EXTENDS Naturals, Sequences, FiniteSets

CONSTANTS
    Callers,      \* REST handlers and the patrol
    Methods,      \* the methods that the callers of this instance use
    MaxCalls,     \* bound: calls each caller makes
    MaxVersion,   \* bound: versions of the rule; 0 is the empty version
    MaxEnds,      \* bound: runs that end by themselves
    None          \* nobody, or no entry

AllMethods == {"create", "upsert", "delete", "start", "stop", "restart",
               "import", "patrol"}

ASSUME CallersAssumption == None \notin Callers
ASSUME MethodsAssumption == Methods \subseteq AllMethods
ASSUME BoundsAssumption  == {MaxCalls, MaxVersion, MaxEnds} \subseteq Nat

RuleDef == [ver : 0..MaxVersion, triggered : BOOLEAN, temp : BOOLEAN]

ASSUME NoEntryAssumption == None \notin RuleDef

VARIABLES
    rlock,    \* who holds RuleRegistry.RWMutex beyond one critical section
    mem,      \* rr.internal[id]: an index of states, 0 if there is no entry
    db,       \* the definition in the store, or None
    states,   \* every rule.State made for this id
    pc,       \* what each caller does
    calls,    \* calls each caller has left
    ends,     \* the runs that have ended by themselves
    raced,    \* history: the states that a known race has touched
    rewrite,  \* what updateTrigger has read and will write, or None
    undeleted \* history: db is what a deletion could not take out of the store

regVars == <<rlock, mem, db, states, pc, calls, ends, raced, rewrite, undeleted>>

State == [rule   : RuleDef,
          tp     : Nat,                              \* topology, 0 is nil
          status : {"stopped", "running", "failed"}, \* sm.currentState
          busy   : BOOLEAN]                          \* ruleLock is held

NewState(r) == [rule |-> r, tp |-> 0, status |-> "stopped", busy |-> FALSE]

Locations == {"idle", "load", "trigger", "rewrite", "signal", "lock", "work", "save",
              "check", "compare", "persist", "remove", "undo", "reload", "put", "begin",
              "write", "store", "register"}

Caller == [at : Locations, op : AllMethods, st : Nat, new : RuleDef]
End    == [at : {"trigger", "rewrite", "close", "lock", "clean", "done"},
           st : Nat, tp : Nat, eof : BOOLEAN]

\* Who executes under ruleLock of a state.
Holders(s) == {c \in Callers : pc[c].at = "work" /\ pc[c].st = s} \cup
              {e \in DOMAIN ends : ends[e].at = "clean" /\ ends[e].st = s}

\* The values of the variables; ruleLock of a state has at most one holder, a
\* call or the goroutine of a run that has ended.
RegTypeOK ==
    /\ rlock \in Callers \cup {None}
    /\ mem \in 0..Len(states)
    /\ db = None \/ db \in RuleDef
    /\ states \in Seq(State)
    /\ pc \in [Callers -> Caller]
    /\ \A c \in Callers : pc[c].st \in 0..Len(states)
    /\ calls \in [Callers -> 0..MaxCalls]
    /\ ends \in Seq(End)
    /\ raced \subseteq DOMAIN states
    /\ rewrite = None \/ rewrite \in RuleDef
    /\ undeleted \in BOOLEAN
    /\ \A s \in DOMAIN states :
           Cardinality(Holders(s)) = IF states[s].busy THEN 1 ELSE 0
-----------------------------------------------------------------------------
(* Helpers                                                                 *)

\* processor.CanReplace
CanReplace(old, new) == (old = 0 /\ new = 0) \/ new > old

\* Nobody is in a critical section of the registry.
RegFree == rlock = None /\ rewrite = None

At(c, at) == pc[c].at = at
IdleCaller == [at |-> "idle", op |-> "stop", st |-> 0,
               new |-> [ver |-> 0, triggered |-> TRUE, temp |-> FALSE]]

GoWith(c, at, s) ==
    pc' = [pc EXCEPT ![c] = IF at = "idle" THEN IdleCaller
                            ELSE [at |-> at, op |-> @.op, st |-> s, new |-> @.new]]
Go(c, at) == GoWith(c, at, pc[c].st)

\* The states that calls will start without looking at the registry again.
WillStart == {pc[c].st : c \in {d \in Callers :
                 pc[d].op \in {"start", "restart", "import", "patrol"}}}

\* The entry leaves the registry while somebody is about to start it.
LeavesWhileHeld == ({mem} \cap WillStart) \ {0}

\* A number for a new topology.
UsedTps == {states[s].tp : s \in DOMAIN states} \cup {ends[e].tp : e \in DOMAIN ends}
NewTp   == CHOOSE n \in 1..Len(states) + MaxEnds + 1 : n \notin UsedTps

\* planner.Plan fails, or the rule runs with a new topology.
Started(s, tp, ok) ==
    [rule |-> s.rule, tp |-> IF ok THEN tp ELSE s.tp,
     status |-> IF ok THEN "running" ELSE "failed", busy |-> FALSE]

Stopped(s) == NewState(s.rule)

\* The state has the definition r, and ruleLock is given back.
WithRule(s, r) == [rule |-> r, tp |-> s.tp, status |-> s.status, busy |-> FALSE]

\* processor.ExecReplaceRuleState: what it reads, with Triggered replaced, is what it
\* writes.  updateTrigger keeps the lock of the registry meanwhile, which an import
\* does not take.
TriggerSet(b) == IF db = None \/ db.temp THEN db ELSE [db EXCEPT !.triggered = b]

\* The store may fail.
StoreTrigger ==
    /\ rewrite # None
    /\ db' \in {db, rewrite}
    /\ rewrite' = None

AfterTrigger(op) == IF op = "start" THEN "lock" ELSE "signal"

\* RecoverRule of the stored rule when the server boots, before any handler is
\* served: its state is registered and, if the rule is triggered, started.  The
\* database may hold any definition, so that a crash leads back to RegInit.
Recovered(stored) ==
    IF stored = None THEN {<< >>}
    ELSE IF stored.triggered
    THEN {<<Started(NewState(stored), 1, ok)>> : ok \in BOOLEAN}
    ELSE {<<NewState(stored)>>}

RegInit ==
    /\ rlock = None
    /\ db \in {None} \cup {r \in RuleDef : ~r.temp}
    /\ mem = IF db = None THEN 0 ELSE 1
    /\ states \in Recovered(db)
    /\ pc = [c \in Callers |-> IdleCaller]
    /\ calls = [c \in Callers |-> MaxCalls]
    /\ ends = << >> /\ raced = {}
    /\ rewrite = None /\ undeleted = FALSE
-----------------------------------------------------------------------------
(* Entering and loading                                                    *)

FirstStep(op) ==
    CASE op = "upsert" -> "check"
      [] op = "delete" -> "remove"
      [] op = "import" -> "write"
      [] op \in {"create", "start", "stop", "restart", "patrol"} -> "load"

\* A handler has parsed its request.  Only create, upsert and import have a
\* definition with them.
Request(c, op) ==
    /\ At(c, "idle") /\ calls[c] > 0
    /\ calls' = [calls EXCEPT ![c] = @ - 1]
    /\ \E new \in IF op \in {"create", "upsert", "import"} THEN RuleDef
                                                            ELSE {pc[c].new} :
         pc' = [pc EXCEPT ![c] = [at |-> FirstStep(op), op |-> op, st |-> 0,
                                  new |-> new]]
    /\ UNCHANGED <<rlock, mem, db, states, ends, raced, rewrite, undeleted>>

\* CreateRule: the id must be free; the new state is known to this call only.
LoadForCreate(c) ==
    /\ At(c, "load") /\ pc[c].op = "create" /\ RegFree
    /\ IF mem # 0
       THEN Go(c, "idle") /\ UNCHANGED states
       ELSE /\ states' = Append(states, NewState(pc[c].new))
            /\ GoWith(c, "lock", Len(states) + 1)
    /\ UNCHANGED <<rlock, mem, db, calls, ends, raced, rewrite, undeleted>>

\* StartRule, StopRule and RestartRule load the state of the rule.
Load(c) ==
    /\ At(c, "load") /\ pc[c].op \in {"start", "stop", "restart"} /\ RegFree
    /\ IF mem = 0 THEN Go(c, "idle") ELSE GoWith(c, "trigger", mem)
    /\ UNCHANGED <<rlock, mem, db, states, calls, ends, raced, rewrite, undeleted>>

\* updateTrigger of StartRule, StopRule and RestartRule.
SetTrigger(c) ==
    /\ At(c, "trigger") /\ RegFree
    /\ rewrite' = TriggerSet(pc[c].op # "stop")
    /\ Go(c, IF db = None THEN AfterTrigger(pc[c].op) ELSE "rewrite")
    /\ UNCHANGED <<rlock, mem, db, states, calls, ends, raced, undeleted>>

WriteTrigger(c) ==
    /\ At(c, "rewrite") /\ StoreTrigger
    /\ Go(c, AfterTrigger(pc[c].op))
    /\ UNCHANGED <<rlock, mem, states, calls, ends, raced, undeleted>>

\* State.Stop is ignored unless the rule runs.
SignalStop(c) ==
    /\ At(c, "signal")
    /\ Go(c, IF states[pc[c].st].status = "running" THEN "lock"
             ELSE IF pc[c].op = "restart" THEN "reload" ELSE "idle")
    /\ UNCHANGED <<rlock, mem, db, states, calls, ends, raced, rewrite, undeleted>>
-----------------------------------------------------------------------------
(* Under ruleLock                                                          *)

LockRule(c) ==
    /\ At(c, "lock") /\ ~states[pc[c].st].busy
    /\ states' = [states EXCEPT ![pc[c].st].busy = TRUE]
    /\ Go(c, "work")
    /\ UNCHANGED <<rlock, mem, db, calls, ends, raced, rewrite, undeleted>>

\* State.ValidateAndRun, and Bootstrap of StartRule: if the plan fails nothing
\* has changed; otherwise the old run is stopped and the rule runs again if it
\* is triggered.
ValidateAndRun(c) ==
    LET s == pc[c].st
        r == IF pc[c].op = "start" THEN [states[s].rule EXCEPT !.triggered = TRUE]
                                   ELSE pc[c].new
        stopped == IF states[s].tp # 0 THEN Stopped(states[s]) ELSE states[s]
    IN
    /\ At(c, "work") /\ pc[c].op \in {"create", "upsert", "start"}
    /\ \/ /\ states' = [states EXCEPT ![s] =
                            WithRule(@, IF pc[c].op = "start" THEN r ELSE @.rule)]
          /\ rlock' = IF rlock = c THEN None ELSE rlock
          /\ Go(c, "idle")
       \/ /\ states' = [states EXCEPT ![s] =
                            WithRule(IF r.triggered THEN Started(stopped, NewTp, TRUE)
                                                    ELSE stopped, r)]
          /\ Go(c, CASE pc[c].op = "create" -> "save"
                     [] pc[c].op = "upsert" -> "persist"
                     [] pc[c].op = "start"  -> "idle")
          /\ UNCHANGED rlock
    /\ UNCHANGED <<mem, db, calls, ends, raced, rewrite, undeleted>>

\* State.StopWithLastWill.
StopState(c) ==
    /\ At(c, "work") /\ pc[c].op \in {"stop", "restart"}
    /\ states' = [states EXCEPT ![pc[c].st] = Stopped(@)]
    /\ Go(c, IF pc[c].op = "restart" THEN "reload" ELSE "idle")
    /\ UNCHANGED <<rlock, mem, db, calls, ends, raced, rewrite, undeleted>>

\* State.Delete, of DeleteRule or to roll back; it leaves the status as it is.
\* UpsertRule still holds the lock of the registry.
DeleteState(c) ==
    /\ At(c, "undo") /\ ~states[pc[c].st].busy
    /\ states' = [states EXCEPT ![pc[c].st].tp = 0]
    /\ rlock' = IF rlock = c THEN None ELSE rlock
    /\ Go(c, "idle")
    /\ UNCHANGED <<mem, db, calls, ends, raced, rewrite, undeleted>>

\* State.Start of RestartRule and RecoverRule is ignored when the rule runs.
Start(c) ==
    LET s == pc[c].st IN
    /\ At(c, "begin") /\ ~states[s].busy
    /\ IF states[s].status = "running"
       THEN UNCHANGED states
       ELSE \E ok \in BOOLEAN :
              states' = [states EXCEPT ![s] = Started(@, NewTp, ok)]
    /\ Go(c, "idle")
    /\ UNCHANGED <<rlock, mem, db, calls, ends, raced, rewrite, undeleted>>
-----------------------------------------------------------------------------
(* CreateRule and UpsertRule                                               *)

\* save: the store takes a definition that is new to it, unless it fails; only then is
\* the state registered.  A temporary rule is never stored, and replaces whatever
\* another call has registered.
Save(c) ==
    /\ At(c, "save") /\ RegFree
    /\ \/ /\ pc[c].new.temp \/ db = None
          /\ db' = IF pc[c].new.temp THEN db ELSE pc[c].new
          /\ undeleted' = (undeleted /\ pc[c].new.temp)
          /\ mem' = pc[c].st
          /\ raced' = raced \cup (IF mem = 0 THEN {} ELSE {mem, pc[c].st})
          /\ Go(c, "idle")
       \/ /\ ~pc[c].new.temp
          /\ Go(c, "undo")
          /\ UNCHANGED <<db, mem, raced, undeleted>>
    /\ UNCHANGED <<rlock, states, calls, ends, rewrite>>

\* UpsertRule takes the lock of the registry for the whole operation.
LockRegistry(c) ==
    /\ At(c, "check") /\ RegFree
    /\ rlock' = c
    /\ Go(c, "compare")
    /\ UNCHANGED <<mem, db, states, calls, ends, raced, rewrite, undeleted>>

\* Mutant: the lock is given back when the versions have been compared.
CompareAndUnlock(c) ==
    /\ At(c, "compare")
    /\ \/ mem = 0 /\ GoWith(c, "lock", Len(states) + 1)
          /\ states' = Append(states, NewState(pc[c].new))
       \/ /\ mem # 0 /\ ~states[mem].busy /\ UNCHANGED states
          /\ IF CanReplace(states[mem].rule.ver, pc[c].new.ver)
             THEN GoWith(c, "lock", mem) ELSE Go(c, "idle")
    /\ rlock' = None
    /\ UNCHANGED <<mem, db, calls, ends, raced, rewrite, undeleted>>

\* A new state for an unknown id; otherwise UpsertRule waits for ruleLock to
\* read the definition in memory, which must be replaceable by the new one.
Compare(c) ==
    /\ At(c, "compare")
    /\ \/ /\ mem = 0
          /\ states' = Append(states, NewState(pc[c].new))
          /\ GoWith(c, "lock", Len(states) + 1)
          /\ UNCHANGED rlock
       \/ /\ mem # 0 /\ ~states[mem].busy
          /\ CanReplace(states[mem].rule.ver, pc[c].new.ver)
          /\ GoWith(c, "lock", mem)
          /\ UNCHANGED <<rlock, states>>
       \/ /\ mem # 0 /\ ~states[mem].busy
          /\ ~CanReplace(states[mem].rule.ver, pc[c].new.ver)
          /\ rlock' = None
          /\ Go(c, "idle")
          /\ UNCHANGED states
    /\ UNCHANGED <<mem, db, calls, ends, raced, rewrite, undeleted>>

\* The rest of UpsertRule: store the definition and register the state, or roll
\* back when the database fails.  A temporary rule is registered only.
Persist(c) ==
    /\ At(c, "persist")
    /\ \/ /\ db' = IF pc[c].new.temp THEN db ELSE pc[c].new
          /\ undeleted' = (undeleted /\ pc[c].new.temp)
          /\ mem' = pc[c].st
          /\ rlock' = None
          /\ Go(c, "idle")
       \/ /\ ~pc[c].new.temp
          /\ Go(c, "undo")
          /\ UNCHANGED <<rlock, mem, db, undeleted>>
    /\ UNCHANGED <<states, calls, ends, raced, rewrite>>
-----------------------------------------------------------------------------
(* DeleteRule and RestartRule                                              *)

\* rr.delete takes the entry out of the registry, and then the definition out of the
\* store, which may fail: the entry is gone all the same.
Remove(c) ==
    /\ At(c, "remove") /\ RegFree
    /\ IF mem = 0
       THEN Go(c, "idle") /\ UNCHANGED <<mem, db, raced, undeleted>>
       ELSE /\ mem' = 0
            /\ db' \in {db, None}
            /\ undeleted' = (db' # None)
            /\ GoWith(c, "undo", mem)
            /\ raced' = raced \cup LeavesWhileHeld
    /\ UNCHANGED <<rlock, states, calls, ends, rewrite>>

\* ruleProcessor.GetRuleById, of RestartRule and of an import: a temporary rule
\* is not in the database.
GetRuleById(c) ==
    /\ At(c, "reload")
    /\ IF db = None
       THEN Go(c, "idle")
       ELSE pc' = [pc EXCEPT ![c] =
                     [at |-> IF pc[c].op = "restart" THEN "put" ELSE "register",
                      op |-> @.op, st |-> @.st, new |-> db]]
    /\ UNCHANGED <<rlock, mem, db, states, calls, ends, raced, rewrite, undeleted>>

\* SetRule of RestartRule.  The definition may be older than the one that an
\* upsert installs or stores meanwhile.
PutRule(c) ==
    /\ At(c, "put") /\ ~states[pc[c].st].busy
    /\ states' = [states EXCEPT ![pc[c].st].rule = pc[c].new]
    /\ raced' = IF db = pc[c].new /\ states[pc[c].st].rule.ver <= pc[c].new.ver
                THEN raced ELSE raced \cup {pc[c].st}
    /\ Go(c, "begin")
    /\ UNCHANGED <<rlock, mem, db, calls, ends, rewrite, undeleted>>
-----------------------------------------------------------------------------
(* Import and patrol                                                       *)

\* ExecCreateWithValidation, without the lock of the registry: the version must be
\* higher than the one stored, and a temporary rule is not stored.
CheckImport(c) ==
    /\ At(c, "write")
    /\ Go(c, IF db # None /\ ~CanReplace(db.ver, pc[c].new.ver) THEN "idle"
             ELSE IF pc[c].new.temp THEN "reload" ELSE "store")
    /\ UNCHANGED <<rlock, mem, db, states, calls, ends, raced, rewrite, undeleted>>

\* Whatever is stored by then is overwritten, unless the store fails.
StoreImport(c) ==
    /\ At(c, "store")
    /\ \/ /\ db' = pc[c].new
          /\ undeleted' = FALSE
          /\ raced' = raced \cup ({mem} \ {0})
          /\ Go(c, "reload")
       \/ Go(c, "idle") /\ UNCHANGED <<db, undeleted, raced>>
    /\ UNCHANGED <<rlock, mem, states, calls, ends, rewrite>>

\* getAllRulesWithState: a stored rule that has failed is recovered.
Inspect(c) ==
    /\ At(c, "load") /\ pc[c].op = "patrol" /\ RegFree
    /\ IF db # None /\ mem # 0 /\ states[mem].status = "failed"
       THEN pc' = [pc EXCEPT ![c] = [at |-> "register", op |-> @.op, st |-> @.st,
                                     new |-> states[mem].rule]]
       ELSE Go(c, "idle")
    /\ UNCHANGED <<rlock, mem, db, states, calls, ends, raced, rewrite, undeleted>>

\* RecoverRule registers a new state whatever is in the registry by then.
Register(c) ==
    LET new == Len(states) + 1 IN
    /\ At(c, "register") /\ RegFree
    /\ states' = Append(states, NewState(pc[c].new))
    /\ mem' = new
    /\ raced' = raced \cup ({mem} \ {0})
                       \cup (IF db = pc[c].new THEN {} ELSE {new})
    /\ GoWith(c, IF pc[c].new.triggered THEN "begin" ELSE "idle", new)
    /\ UNCHANGED <<rlock, db, calls, ends, rewrite, undeleted>>
-----------------------------------------------------------------------------
(* Runs that end by themselves                                             *)

\* The nodes report an error or the end of the stream to runTopo.
RunEnds(s, eof) ==
    /\ states[s].tp # 0 /\ Len(ends) < MaxEnds
    /\ \A e \in DOMAIN ends : ends[e].tp # states[s].tp
    /\ ends' = Append(ends, [at |-> IF eof THEN "trigger" ELSE "close", st |-> s,
                             tp |-> states[s].tp, eof |-> eof])
    /\ UNCHANGED <<rlock, mem, db, states, pc, calls, raced, rewrite, undeleted>>

GoEnd(e, at) == ends' = [ends EXCEPT ![e].at = at]

\* The callback of the state is updateTrigger: after the end of a stream the rule is
\* not triggered any more, whichever definition is stored by then.
EndTrigger(e) ==
    /\ ends[e].at = "trigger" /\ RegFree
    /\ rewrite' = TriggerSet(FALSE)
    /\ GoEnd(e, IF db = None THEN "close" ELSE "rewrite")
    /\ UNCHANGED <<rlock, mem, db, states, pc, calls, raced, undeleted>>

EndWrite(e) ==
    /\ ends[e].at = "rewrite" /\ StoreTrigger
    /\ GoEnd(e, "close")
    /\ UNCHANGED <<rlock, mem, states, pc, calls, raced, undeleted>>

\* Nothing is left to do if somebody else has closed the topology.
EndClose(e) ==
    /\ ends[e].at = "close"
    /\ GoEnd(e, IF states[ends[e].st].tp = ends[e].tp THEN "lock" ELSE "done")
    /\ UNCHANGED <<rlock, mem, db, states, pc, calls, raced, rewrite, undeleted>>

EndLock(e) ==
    /\ ends[e].at = "lock" /\ ~states[ends[e].st].busy
    /\ states' = [states EXCEPT ![ends[e].st].busy = TRUE]
    /\ GoEnd(e, "clean")
    /\ UNCHANGED <<rlock, mem, db, pc, calls, raced, rewrite, undeleted>>

\* Mutant: the trigger is reset by cleanRule, under ruleLock.
CleanRuleTriggers(e) ==
    LET s == ends[e].st IN
    /\ ends[e].at = "clean" /\ RegFree
    /\ db' = TriggerSet(FALSE)
    /\ states' = [states EXCEPT ![s].busy = FALSE, ![s].tp = 0,
                                ![s].status = "stopped"]
    /\ GoEnd(e, "done")
    /\ UNCHANGED <<rlock, mem, pc, calls, raced, rewrite, undeleted>>

\* cleanRule: the state forgets the topology unless it has another one.
CleanRule(e) ==
    LET s == ends[e].st IN
    /\ ends[e].at = "clean"
    /\ states' = [states EXCEPT ![s] =
           IF @.tp = ends[e].tp
           THEN [Stopped(@) EXCEPT !.status = IF ends[e].eof THEN "stopped"
                                                             ELSE "failed"]
           ELSE WithRule(@, @.rule)]
    /\ GoEnd(e, "done")
    /\ UNCHANGED <<rlock, mem, db, pc, calls, raced, rewrite, undeleted>>
-----------------------------------------------------------------------------
(* Specification                                                           *)

CallerStep(c) ==
    \/ LoadForCreate(c) \/ Load(c) \/ SetTrigger(c) \/ WriteTrigger(c) \/ SignalStop(c)
    \/ LockRule(c) \/ ValidateAndRun(c) \/ StopState(c) \/ DeleteState(c)
    \/ Start(c) \/ Save(c) \/ LockRegistry(c) \/ Compare(c) \/ Persist(c)
    \/ Remove(c) \/ GetRuleById(c) \/ PutRule(c) \/ CheckImport(c) \/ StoreImport(c)
    \/ Inspect(c) \/ Register(c)

EndStep(e) ==
    EndTrigger(e) \/ EndWrite(e) \/ EndClose(e) \/ EndLock(e) \/ CleanRule(e)

RegNext ==
    \/ \E c \in Callers : CallerStep(c) \/ \E op \in Methods : Request(c, op)
    \/ \E e \in DOMAIN ends : EndStep(e)
    \/ \E s \in DOMAIN states, eof \in BOOLEAN : RunEnds(s, eof)

RegSpec == RegInit /\ [][RegNext]_regVars

\* Every goroutine is scheduled.  A caller makes finitely many calls, so that
\* weak fairness is enough for those who wait for a lock.
RegFairness ==
    /\ \A c \in Callers : WF_regVars(CallerStep(c))
    /\ \A e \in 1..MaxEnds : WF_regVars(e \in DOMAIN ends /\ EndStep(e))
-----------------------------------------------------------------------------
(* Properties                                                              *)

Quiet == \A c \in Callers : At(c, "idle")

\* A rule in the database is in the registry once the calls are over, so that it can be
\* listed, started and deleted: no sequence of creations, deletions, starts, imports and
\* patrols leaves a definition behind that only the next boot would find, unless the
\* store has failed to delete it.
StoredIsRegistered == Quiet /\ db # None => mem # 0 \/ undeleted

\* "Keep consistent by DB. Rollback when db errors happen" (rule_manager.go:125): a
\* deletion is not rolled back (README, section 8).
StoredIsRegisteredAlways == Quiet /\ db # None => mem # 0

\* A rule runs only under the state in the registry, which is the only one that
\* can be stopped, once the calls are over.  The states that one of the known
\* races has touched are excepted: one that was removed between its load and
\* its start, or replaced by an import, a recovery or a temporary creation.
RunsOnlyRegistered ==
    Quiet => \A s \in DOMAIN states :
                 states[s].tp # 0 => s = mem \/ s \in raced

\* The version in the database never falls while the rule exists, although it
\* is the version in memory that UpsertRule compares with: memory is not behind
\* the database, except while an import writes it without the lock, after a race of
\* a restart, an import or a recovery, and where a deletion has left the definition.
VersionNeverFalls ==
    [][(db # None /\ db' # None /\ db'.ver < db.ver) =>
           \/ mem \in raced \/ undeleted
           \/ \E c \in Callers : pc[c].op = "import"]_regVars

\* Every call comes to its end: the lock of the registry is held by UpsertRule
\* while it waits for ruleLock, and the run that ends waits for both.
EveryMethodReturns == \A c \in Callers : ~At(c, "idle") ~> At(c, "idle")

\* Database, registry and running rules agree once the calls are over, and the version
\* of a rule does not fall, apart from the known races and from a definition that the
\* store has failed to delete (rule_manager.go:100-330).
RegistrySound ==
    /\ [](RegTypeOK /\ StoredIsRegistered /\ RunsOnlyRegistered)
    /\ VersionNeverFalls
=============================================================================
