----------------------------- MODULE RuleState -----------------------------
(***************************************************************************)
(* The lifecycle of one rule: internal/topo/rule (state.go, action.go,     *)
(* transit.go) together with the parts of a topology that it drives        *)
(* (internal/topo/topo.go: Open, Cancel, GracefulStop).                    *)
(*                                                                         *)
(* Concurrent callers (REST handlers, the schedule patrol, shutdown) send  *)
(* operations to one rule.State.  An operation first offers its signal to  *)
(* the state machine, which is protected by a lock of its own, and only    *)
(* then takes ruleLock; the goroutine runTopo of every run supervises its  *)
(* topology and competes for ruleLock when the run ends by itself.  The    *)
(* code that holds ruleLock is modelled by the record cs (its program      *)
(* counter and continuation), so that signals of other callers and the     *)
(* steps of topologies interleave with it as they do in the code.          *)
(***************************************************************************)
EXTENDS RuleMachine, Naturals, FiniteSets

CONSTANTS
    Callers,        \* goroutines that call the methods of rule.State
    Rules,          \* rule definitions a caller may install
    ScheduleRules,  \* those for which IsScheduleRule() holds
    Operations,     \* the methods that the callers of this instance use
    MaxCalls,       \* bound: calls each caller makes
    MaxReports      \* bound: errors and ends of stream that nodes report

ASSUME RulesAssumption == Rules # {} /\ ScheduleRules \subseteq Rules

Methods == ActionSignal \cup {"bootstrap", "upsert", "upsertStopped",
                              "setRule", "delete"}

ASSUME OperationsAssumption == Operations \subseteq Methods
ASSUME BoundsAssumption == MaxCalls \in Nat /\ MaxReports \in Nat

VARIABLES
    st,        \* sm.currentState
    q,         \* sm.actionQ
    rule,      \* State.Rule
    topology,  \* State.topology: an index of topos, 0 is nil
    cs,        \* what the holder of ruleLock executes
    topos,     \* every Topo that was planned, in order of runId
    runs,      \* every goroutine runTopo, in the order they were spawned
    pc,        \* what each caller does
    calls,     \* calls each caller has left
    reports,   \* reports the nodes have left
    crashed    \* a panic outside SafeRun has ended the process

vars == <<st, q, rule, topology, cs, topos, runs, pc, calls, reports,
          crashed>>

\* What the callers have called and the nodes have reported.
envVars == <<pc, calls, reports>>
-----------------------------------------------------------------------------
(* Types                                                                   *)

DrainCap == 2          \* s.drain = make(chan error, 2)
Outcome  == {"nil", "err", "eof"}
Drains   == {d \in Seq(Outcome) : Len(d) <= DrainCap}

Topo == [state : {"Initialized", "Opened", "Closed"},
         ops   : {"none", "up", "down"},      \* none until spawnDone is closed
         done  : BOOLEAN,                     \* the context is cancelled
         drain : Drains]

NewTopo == [state |-> "Initialized", ops |-> "none", done |-> FALSE,
            drain |-> << >>]

RunPc == {"open", "spawn", "recv", "check", "close", "clean", "lock", "locked",
          "done"}
Run   == [tp : Nat, pc : RunPc, err : Outcome]

CallerPc == {"idle", "trigger", "lock", "locked"}

CsPc == {"free", "start", "stop", "clean", "transit", "pop", "install",
         "cancel"}
Cs   == [pc   : CsPc,
         to   : AtRest \cup {"Running"},  \* argument of doStop, transitState
         then : {"release", "install", "discard"},  \* what doStop returns to
         tp   : Nat]                  \* topology planned by validate()

FreeCs == [pc |-> "free", to |-> "Stopped", then |-> "release", tp |-> 0]

TypeOK ==
    /\ st \in RunState
    /\ q \in Seq(ActionSignal)
    /\ rule \in Rules
    /\ topology \in Nat
    /\ cs \in Cs
    /\ topos \in Seq(Topo)
    /\ runs \in Seq(Run)
    /\ pc \in [Callers -> [at : CallerPc, op : Methods]]
    /\ calls \in [Callers -> 0..MaxCalls]
    /\ reports \in 0..MaxReports
    /\ crashed \in BOOLEAN
    /\ \A c \in Callers : pc[c].at = "trigger" => pc[c].op \in ActionSignal
    /\ topology \in 0..Len(topos)
    /\ cs.tp \in 0..Len(topos)
    /\ \A r \in DOMAIN runs : runs[r].tp \in DOMAIN topos
-----------------------------------------------------------------------------
(* Helpers                                                                 *)

LockFree == cs.pc = "free"

\* Mutant: the channel has no capacity.
DrainUnbounded(drain, e) == Append(drain, e)

\* DrainError: a send that is dropped when the channel is full.
DrainError(drain, e) == IF Len(drain) < DrainCap THEN Append(drain, e) ELSE drain

\* doClean: inform the receiver of Open, then cancel the context.
Cleaned(tp) == [tp EXCEPT !.drain = DrainError(@, "nil"), !.done = TRUE]

SpawnRun(tp) == runs' = Append(runs, [tp |-> tp, pc |-> "open", err |-> "nil"])

GotoRun(r, at) == runs' = [runs EXCEPT ![r].pc = at]

GotoCs(at) == cs' = [cs EXCEPT !.pc = at]

Transit(to) == cs' = [cs EXCEPT !.pc = "transit", !.to = to]

\* The deferred ruleLock.Unlock(): whoever held the lock has returned.
Unlock ==
    /\ cs' = FreeCs
    /\ pc' = [c \in Callers |-> IF pc[c].at = "locked"
                                THEN [pc[c] EXCEPT !.at = "idle"] ELSE pc[c]]
    /\ runs' = [r \in DOMAIN runs |-> IF runs[r].pc = "locked"
                                      THEN [runs[r] EXCEPT !.pc = "done"]
                                      ELSE runs[r]]
-----------------------------------------------------------------------------
(* Callers                                                                 *)

Init ==
    /\ st = "Stopped" /\ q = << >>
    /\ rule \in Rules
    /\ topology = 0
    /\ cs = FreeCs
    /\ topos = << >> /\ runs = << >>
    /\ pc \in [Callers -> [at : {"idle"}, op : {"start"}]]
    /\ calls = [c \in Callers |-> MaxCalls]
    /\ reports = MaxReports
    /\ crashed = FALSE

\* A caller enters a method of rule.State.
Call(c, op) ==
    /\ pc[c].at = "idle" /\ calls[c] > 0
    /\ calls' = [calls EXCEPT ![c] = @ - 1]
    /\ pc' = [pc EXCEPT ![c] = [op |-> op,
                  at |-> IF op \in ActionSignal THEN "trigger" ELSE "lock"]]
    /\ UNCHANGED <<st, q, rule, topology, cs, topos, runs, reports, crashed>>

\* sm.TriggerAction: the signal is ignored, deferred, or the caller acts on it.
TriggerAction(c) ==
    LET a == pc[c].op IN
    /\ pc[c].at = "trigger"
    /\ st' = TriggeredState(st, q, a)
    /\ q' = TriggeredQueue(st, q, a)
    /\ pc' = [pc EXCEPT ![c].at = IF MustAct(st, q, a) THEN "lock" ELSE "idle"]
    /\ UNCHANGED <<rule, topology, cs, topos, runs, calls, reports, crashed>>

Lock(c, ops) == LockFree /\ pc[c].at = "lock" /\ pc[c].op \in ops
Locked(c) == pc' = [pc EXCEPT ![c].at = "locked"]
Return(c) == pc' = [pc EXCEPT ![c].at = "idle"]

\* Start and ScheduleStart once they hold ruleLock.  Another operation may
\* have completed the start meanwhile; the start of a schedule rule is left
\* to the patrol.
LockedStart(c) ==
    /\ Lock(c, {"start", "scheduledStart"})
    /\ IF st # "Starting"
       THEN Return(c) /\ UNCHANGED cs
       ELSE /\ Locked(c)
            /\ IF pc[c].op = "start" /\ rule \in ScheduleRules
               THEN Transit("ScheduledStop")
               ELSE GotoCs("start")
    /\ UNCHANGED <<st, q, rule, topology, topos, runs, calls, reports, crashed>>

\* StopWithLastWill and ScheduleStop once they hold ruleLock.
LockedStop(c) ==
    /\ Lock(c, {"stop", "scheduledStop"})
    /\ Locked(c)
    /\ cs' = [cs EXCEPT !.pc = "stop",
                 !.to = IF pc[c].op = "stop" THEN "Stopped" ELSE "ScheduledStop"]
    /\ UNCHANGED <<st, q, rule, topology, topos, runs, calls, reports, crashed>>

\* Bootstrap and ValidateAndRun: plan the rule first.  If planning fails the
\* call returns and nothing else has changed; otherwise the old run is stopped
\* and the new topology is installed, or discarded if it is not triggered.
LockedValidateAndRun(c) ==
    /\ Lock(c, {"bootstrap", "upsert", "upsertStopped"})
    /\ \/ /\ Return(c)
          /\ UNCHANGED <<rule, cs, topos>>
       \/ LET next == IF pc[c].op = "upsertStopped" THEN "discard" ELSE "install"
          IN /\ Locked(c)
             /\ \E newRule \in IF pc[c].op = "bootstrap" THEN {rule} ELSE Rules :
                    rule' = newRule
             /\ topos' = Append(topos, NewTopo)
             /\ cs' = [pc   |-> IF topology # 0 THEN "stop" ELSE "install",
                       to   |-> "Stopped",
                       then |-> next,
                       tp   |-> Len(topos) + 1]
    /\ UNCHANGED <<st, q, topology, runs, calls, reports, crashed>>

\* SetRule, used when a rule is restarted from the definition in the store.
LockedSetRule(c) ==
    /\ Lock(c, {"setRule"})
    /\ Return(c)
    /\ rule' \in Rules
    /\ UNCHANGED <<st, q, topology, cs, topos, runs, calls, reports, crashed>>

\* Delete cancels the topology and leaves the state machine as it is.
LockedDelete(c) ==
    /\ Lock(c, {"delete"})
    /\ IF topology = 0 THEN Return(c) /\ UNCHANGED cs
                       ELSE Locked(c) /\ GotoCs("cancel")
    /\ UNCHANGED <<st, q, rule, topology, topos, runs, calls, reports, crashed>>
-----------------------------------------------------------------------------
(* The holder of ruleLock                                                  *)

\* Mutant: a failure to plan is returned without a transition.
DoStartReturns ==
    /\ cs.pc = "start"
    /\ \/ topology = 0 /\ Unlock /\ UNCHANGED <<topology, topos>>
       \/ /\ topos' = Append(topos, NewTopo) /\ topology' = Len(topos) + 1
          /\ SpawnRun(Len(topos) + 1) /\ Transit("Running") /\ UNCHANGED pc
    /\ UNCHANGED <<st, q, rule, calls, reports, crashed>>

\* doStart: plan unless there is a topology, spawn runTopo, become Running.
DoStart ==
    /\ cs.pc = "start"
    /\ \/ /\ topology = 0
          /\ Transit("StoppedByErr")
          /\ UNCHANGED <<topology, topos, runs>>
       \/ /\ topology = 0
          /\ topos' = Append(topos, NewTopo)
          /\ topology' = Len(topos) + 1
          /\ SpawnRun(Len(topos) + 1)
          /\ Transit("Running")
       \/ /\ topology # 0
          /\ SpawnRun(topology)
          /\ Transit("Running")
          /\ UNCHANGED <<topology, topos>>
    /\ UNCHANGED <<st, q, rule, envVars, crashed>>

\* doStop up to the compare-and-swap in doClose: a topology that is not open
\* is just forgotten.
DoStop ==
    /\ cs.pc = "stop"
    /\ IF topology # 0 /\ topos[topology].state = "Opened"
       THEN /\ topos' = [topos EXCEPT ![topology].state = "Closed"]
            /\ GotoCs("clean")
            /\ UNCHANGED topology
       ELSE /\ topology' = 0
            /\ Transit(cs.to)
            /\ UNCHANGED topos
    /\ UNCHANGED <<st, q, rule, runs, envVars, crashed>>

\* Mutant: s.topology is not reset.
DoCleanKeeps ==
    /\ cs.pc = "clean"
    /\ topos' = [topos EXCEPT ![topology] = Cleaned(@)]
    /\ Transit(cs.to)
    /\ UNCHANGED <<st, q, rule, topology, runs, envVars, crashed>>

\* The rest of GracefulStop, which returns when the operators have closed or
\* after the timeout, and of doStop.
DoClean ==
    /\ cs.pc = "clean"
    /\ topos' = [topos EXCEPT ![topology] = Cleaned(@)]
    /\ topology' = 0
    /\ Transit(cs.to)
    /\ UNCHANGED <<st, q, rule, runs, envVars, crashed>>

\* Topo.Cancel called by Delete.
DoCancel ==
    /\ cs.pc = "cancel"
    /\ topos' = IF topos[topology].state = "Opened"
                THEN [topos EXCEPT ![topology] =
                          Cleaned([@ EXCEPT !.state = "Closed"])]
                ELSE topos
    /\ topology' = 0
    /\ Unlock
    /\ UNCHANGED <<st, q, rule, calls, reports, crashed>>

\* sm.Transit, called by transitState.
DoTransit ==
    /\ cs.pc = "transit"
    /\ st' = cs.to
    /\ GotoCs("pop")
    /\ UNCHANGED <<q, rule, topology, topos, runs, envVars, crashed>>

\* Mutant: the signal is not removed from the queue.
NextActionPeeks ==
    /\ cs.pc = "pop" /\ q # << >>
    /\ GotoCs(IF Head(q) \in {"start", "scheduledStart"} THEN "start" ELSE "stop")
    /\ UNCHANGED <<st, q, rule, topology, topos, runs, envVars, crashed>>

\* nextAction: carry out the oldest deferred signal, if any; otherwise return
\* to the caller of transitState.
NextAction ==
    /\ cs.pc = "pop"
    /\ q # << >>
    /\ q' = Tail(q)
    /\ cs' = CASE Head(q) \in {"start", "scheduledStart"} ->
                    [cs EXCEPT !.pc = "start"]
               [] Head(q) = "stop" ->
                    [cs EXCEPT !.pc = "stop", !.to = "Stopped"]
               [] Head(q) = "scheduledStop" ->
                    [cs EXCEPT !.pc = "stop", !.to = "ScheduledStop"]
    /\ UNCHANGED <<st, rule, topology, topos, runs, envVars, crashed>>

NoNextAction ==
    /\ cs.pc = "pop"
    /\ q = << >>
    /\ IF cs.then = "release"
       THEN Unlock
       ELSE GotoCs("install") /\ UNCHANGED <<pc, runs>>
    /\ UNCHANGED <<st, q, rule, topology, topos, calls, reports, crashed>>

\* The end of doValidateAndRun: start the planned topology, or discard it (the
\* Cancel of a topology that was never opened changes nothing).
Install ==
    /\ cs.pc = "install"
    /\ IF cs.then = "install"
       THEN /\ topology' = cs.tp
            /\ SpawnRun(cs.tp)
            /\ cs' = [cs EXCEPT !.pc = "transit", !.to = "Running",
                                !.then = "release"]
            /\ UNCHANGED pc
       ELSE Unlock /\ UNCHANGED topology
    /\ UNCHANGED <<st, q, rule, topos, calls, reports, crashed>>
-----------------------------------------------------------------------------
(* runTopo: the goroutine that supervises one run                          *)

\* Open: only the first call opens the topology, the others share its channel.
Open(r) ==
    LET tp == runs[r].tp IN
    /\ runs[r].pc = "open"
    /\ IF topos[tp].state = "Initialized"
       THEN /\ topos' = [topos EXCEPT ![tp].state = "Opened"]
            /\ GotoRun(r, "spawn")
       ELSE /\ UNCHANGED topos
            /\ GotoRun(r, "recv")
    /\ UNCHANGED <<st, q, rule, topology, cs, envVars, crashed>>

\* Open creates the store, starts the nodes and activates the checkpoints; an
\* error on the way goes to the drain.  Nodes that find the context cancelled
\* exit at once.
Spawn(r) ==
    LET tp == runs[r].tp IN
    /\ runs[r].pc = "spawn"
    /\ \E failed \in BOOLEAN, ops \in {"up", "down"} :
         /\ IF topos[tp].done THEN ops = "down" ELSE failed \/ ops = "up"
         /\ topos' = [topos EXCEPT ![tp].ops = ops,
                                ![tp].drain = IF failed THEN DrainError(@, "err")
                                                        ELSE @]
    /\ GotoRun(r, "recv")
    /\ UNCHANGED <<st, q, rule, topology, cs, envVars, crashed>>

\* runTopo receives the outcome of the run.
Receive(r) ==
    LET tp == runs[r].tp IN
    /\ runs[r].pc = "recv"
    /\ topos[tp].drain # << >>
    /\ topos' = [topos EXCEPT ![tp].drain = Tail(@)]
    /\ runs' = [runs EXCEPT ![r].err = Head(topos[tp].drain), ![r].pc = "check"]
    /\ UNCHANGED <<st, q, rule, topology, cs, envVars, crashed>>

\* Mutant: the run is over whoever ended it.
CheckClosedExits(r) ==
    /\ runs[r].pc = "check"
    /\ GotoRun(r, "done")
    /\ UNCHANGED <<st, q, rule, topology, cs, topos, envVars, crashed>>

\* If somebody else has closed the topology there is nothing left to do.
CheckClosed(r) ==
    /\ runs[r].pc = "check"
    /\ GotoRun(r, IF topos[runs[r].tp].state = "Closed" THEN "done" ELSE "close")
    /\ UNCHANGED <<st, q, rule, topology, cs, topos, envVars, crashed>>

\* Mutant: the state of the topology is set without comparing it.
CloseRunAnyway(r) ==
    /\ runs[r].pc = "close"
    /\ topos' = [topos EXCEPT ![runs[r].tp].state = "Closed"]
    /\ GotoRun(r, "clean")
    /\ UNCHANGED <<st, q, rule, topology, cs, envVars, crashed>>

\* The run ended by itself: GracefulStop, which somebody else may win.
CloseRun(r) ==
    LET tp == runs[r].tp IN
    /\ runs[r].pc = "close"
    /\ IF topos[tp].state = "Opened"
       THEN /\ topos' = [topos EXCEPT ![tp].state = "Closed"]
            /\ GotoRun(r, "clean")
       ELSE /\ UNCHANGED topos
            /\ GotoRun(r, "lock")
    /\ UNCHANGED <<st, q, rule, topology, cs, envVars, crashed>>

CleanRun(r) ==
    /\ runs[r].pc = "clean"
    /\ topos' = [topos EXCEPT ![runs[r].tp] = Cleaned(@)]
    /\ GotoRun(r, "lock")
    /\ UNCHANGED <<st, q, rule, topology, cs, envVars, crashed>>

\* cleanRule: when the topology of the rule is not the one of this run its
\* runId is logged, which dereferences nil if there is none.
CleanRule(r) ==
    /\ LockFree /\ runs[r].pc = "lock"
    /\ IF topology = runs[r].tp
       THEN /\ topology' = 0
            /\ Transit(IF runs[r].err = "err" THEN "StoppedByErr" ELSE "Stopped")
            /\ GotoRun(r, "locked")
            /\ UNCHANGED crashed
       ELSE /\ crashed' = (topology = 0)
            /\ GotoRun(r, "done")
            /\ UNCHANGED <<topology, cs>>
    /\ UNCHANGED <<st, q, rule, topos, envVars>>
-----------------------------------------------------------------------------
(* The nodes of a topology                                                 *)

\* A node reports the end of the stream or an error.
Report(i) ==
    /\ topos[i].ops = "up" /\ reports > 0
    /\ reports' = reports - 1
    /\ \E e \in {"err", "eof"} :
         topos' = [topos EXCEPT ![i].drain = DrainError(@, e)]
    /\ UNCHANGED <<st, q, rule, topology, cs, runs, pc, calls, crashed>>

\* The nodes have seen the cancelled context and left the wait group.
NodesExit(i) ==
    /\ topos[i].ops = "up" /\ topos[i].done
    /\ topos' = [topos EXCEPT ![i].ops = "down"]
    /\ UNCHANGED <<st, q, rule, topology, cs, runs, envVars, crashed>>
-----------------------------------------------------------------------------
\* The callers of this bounded instance have made all their calls, or the
\* process is gone.
Finished ==
    /\ crashed \/ (LockFree /\ \A c \in Callers : pc[c].at = "idle" /\ calls[c] = 0)
    /\ UNCHANGED vars

CallerStep(c) ==
    \/ TriggerAction(c) \/ LockedStart(c) \/ LockedStop(c)
    \/ LockedValidateAndRun(c) \/ LockedSetRule(c) \/ LockedDelete(c)

HolderStep ==
    \/ DoStart \/ DoStop \/ DoClean \/ DoCancel \/ DoTransit
    \/ NextAction \/ NoNextAction \/ Install

RunStep(r) ==
    \/ Open(r) \/ Spawn(r) \/ Receive(r) \/ CheckClosed(r) \/ CloseRun(r)
    \/ CleanRun(r) \/ CleanRule(r)

Next ==
    \/ \E c \in Callers, op \in Operations : ~crashed /\ Call(c, op)
    \/ \E c \in Callers : ~crashed /\ CallerStep(c)
    \/ ~crashed /\ HolderStep
    \/ \E r \in DOMAIN runs : ~crashed /\ RunStep(r)
    \/ \E i \in DOMAIN topos : ~crashed /\ (Report(i) \/ NodesExit(i))
    \/ Finished

Spec == Init /\ [][Next]_vars

\* A run is started by a call, so that there are no more than calls.
MaxRuns == MaxCalls * Cardinality(Callers)

\* The scheduler runs every goroutine, and ruleLock is granted to its waiters
\* in turn.  Nothing obliges a node to report, or a caller to call.
Fairness ==
    /\ \A c \in Callers : WF_vars(~crashed /\ CallerStep(c))
    /\ WF_vars(~crashed /\ HolderStep)
    /\ \A r \in 1..MaxRuns :
          WF_vars(~crashed /\ r \in DOMAIN runs /\ RunStep(r))

FairSpec == Spec /\ Fairness
-----------------------------------------------------------------------------
(* Properties                                                              *)

Idle(c) == pc[c].at = "idle"

\* A caller that has been told to act on its signal and has not done so yet.
Owes(c, ops) == pc[c].at \in {"lock", "locked"} /\ pc[c].op \in ops

\* What GetState reports matches what the rule owns whenever ruleLock is free:
\* a rule at rest, or about to be started, has no topology, and a rule that is
\* running has one unless Delete has taken it away.
StateMatchesTopology ==
    LockFree => /\ st \in AtRest \cup {"Starting"} => topology = 0
                /\ st = "Running" /\ "delete" \notin Operations => topology # 0

\* A signal that TriggerAction has deferred is never forgotten: while the
\* queue is not empty somebody is still going to call transitState, which
\* pops it.
NoStrandedAction ==
    q # << >> => ~LockFree \/ \E c \in Callers : Owes(c, ActionSignal)

\* The transient states are left by those who announced them: a rule does not
\* stay "starting" or "stopping" when nobody is starting or stopping it.
TransientOwned ==
    LockFree =>
        /\ st = "Starting" => \E c \in Callers : Owes(c, {"start", "scheduledStart"})
        /\ st = "Stopping" => \E c \in Callers : Owes(c, {"stop", "scheduledStop"})

\* The topology of a rule always has a runTopo goroutine behind it that will
\* act when the run fails, and so has every topology that is open.
Supervised ==
    \A i \in DOMAIN topos :
        topos[i].state = "Opened" \/ (LockFree /\ topology = i) =>
            \E r \in DOMAIN runs : runs[r].tp = i /\ runs[r].pc # "done"

\* A topology is closed, and its nodes cancelled, by one party only, although
\* Stop, Delete, an update and runTopo may all try.
ClosedOnce ==
    \A i \in DOMAIN topos :
        LET closers == {r \in DOMAIN runs : runs[r].tp = i /\ runs[r].pc = "clean"}
        IN /\ \A r, s \in closers : r = s
           /\ cs.pc = "clean" /\ topology = i => closers = {}
           /\ closers # {} => topos[i].state = "Closed" /\ ~topos[i].done

\* Every call returns: no order of signals, updates and failing runs leaves a
\* caller waiting for ruleLock for ever.
EveryCallReturns ==
    \A c \in Callers : ~Idle(c) ~> Idle(c) \/ crashed

\* A run that fails or ends is noticed: its topology does not stay the one of
\* the rule.
EndOfRunNoticed ==
    \A i \in 1..MaxRuns :
        topology = i /\ topos[i].drain # << >> ~> topology # i \/ crashed

-----------------------------------------------------------------------------
(* What makes the safety properties above inductive                        *)

\* A caller that was told to act and waits for ruleLock.
Waiting(c, ops) == pc[c].at = "lock" /\ pc[c].op \in ops

\* Where the holder of ruleLock is not on its way to a transition, a transient
\* state has an owner among those who wait.
OwnedInv ==
    cs.pc \in {"free", "pop", "install", "cancel"} =>
        /\ st = "Starting" => \E c \in Callers : Waiting(c, {"start", "scheduledStart"})
        /\ st = "Stopping" => \E c \in Callers : Waiting(c, {"stop", "scheduledStop"})

\* Outside of a transition signals are queued in a transient state only.
DeferredInv ==
    cs.pc \in {"free", "install", "cancel"} /\ q # << >> =>
        st \in {"Starting", "Stopping"}

\* Every operation is one that this instance allows.
CallsInv == \A c \in Callers : pc[c].at # "idle" => pc[c].op \in Operations

\* What the holder of ruleLock knows at each point.
HolderInv ==
    /\ cs.pc \in {"stop", "clean"} => cs.to \in AtRest
    /\ cs.pc \in {"clean", "cancel"} => topology # 0
    /\ cs.pc = "cancel" => "delete" \in Operations
    /\ cs.pc = "install" => cs.then # "release"
    /\ cs.then # "release" => cs.tp # 0

MatchInv ==
    /\ cs.pc = "transit" => (cs.to = "Running" <=> topology # 0)
    /\ cs.pc \in {"free", "pop", "install"} =>
          /\ st \in AtRest \cup {"Starting"} => topology = 0
          /\ st = "Running" /\ "delete" \notin Operations => topology # 0

StateInv == OwnedInv /\ DeferredInv /\ CallsInv /\ HolderInv /\ MatchInv

\* The runs of a topology follow its state ...
RunsInv ==
    \A r \in DOMAIN runs :
        LET state == topos[runs[r].tp].state IN
        /\ runs[r].pc # "open" => state # "Initialized"
        /\ runs[r].pc \in {"clean", "lock"} => state = "Closed"

\* ... and each topology that matters has a run at the right place.
Supervises(r, i) ==
    /\ runs[r].tp = i
    /\ \/ topos[i].state = "Initialized" /\ runs[r].pc = "open"
       \/ topos[i].state = "Opened" /\ runs[r].pc \in {"spawn", "recv", "check", "close"}
       \/ topos[i].state = "Closed" /\ runs[r].pc \in {"clean", "lock"}

SupervisedInv ==
    \A i \in DOMAIN topos :
        topos[i].state = "Opened" \/ (topology = i /\ cs.pc # "clean") =>
            \E r \in DOMAIN runs : Supervises(r, i)

\* The topology planned by validate() is untouched until it is installed.
PlannedInv ==
    cs.then # "release" =>
        /\ cs.tp \in DOMAIN topos /\ topology # cs.tp
        /\ topos[cs.tp].state = "Initialized"
        /\ \A r \in DOMAIN runs : runs[r].tp # cs.tp

\* Who closes a topology found it open, and nobody finds it open again.
ClosingInv ==
    /\ cs.pc = "clean" => topology \in DOMAIN topos /\ topos[topology].state = "Closed"
    /\ \A i \in DOMAIN topos : topos[i].done => topos[i].state = "Closed"
    /\ \A r \in DOMAIN runs : runs[r].pc = "clean" =>
          /\ ~topos[runs[r].tp].done
          /\ ~(cs.pc = "clean" /\ topology = runs[r].tp)
          /\ \A s \in DOMAIN runs :
                runs[s].pc = "clean" /\ runs[s].tp = runs[r].tp => s = r

RunInv == RunsInv /\ SupervisedInv /\ PlannedInv /\ ClosingInv
-----------------------------------------------------------------------------
(* What the code does not guarantee                                        *)

\* No panic escapes from runTopo (pkg/infra/saferun.go: "the whole rule must be
\* in this mode").
NoPanic == ~crashed

\* A topology that is open is the one of the rule, or is being closed; in
\* particular a rule that is stopped does not process data.
\* (The code does not satisfy this: README, section 8.)
NoOrphanedRun ==
    LockFree => \A i \in DOMAIN topos : topos[i].state = "Opened" => topology = i
=============================================================================
