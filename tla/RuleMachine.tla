---------------------------- MODULE RuleMachine ----------------------------
(***************************************************************************)
(* The run-state machine of a rule: internal/topo/rule/machine.            *)
(*                                                                         *)
(* StateMachine guards its fields (currentState, actionQ) by its own lock, *)
(* so each of its methods is one atomic step of the callers.  The methods  *)
(* are given here as operators on a state st and a queue q of deferred     *)
(* signals; RuleState.tla turns them into steps.                           *)
(***************************************************************************)
EXTENDS Sequences

ActionSignal == {"start", "stop", "scheduledStart", "scheduledStop"}

RunState == {"Stopped", "Starting", "Running", "Stopping", "ScheduledStop",
             "StoppedByErr"}

\* The states a rule rests in when no operation is under way.
AtRest == {"Stopped", "ScheduledStop", "StoppedByErr"}

\* The states in which TriggerAction tells the caller to carry out action a.
Proceeds(a) ==
    CASE a = "start"          -> {"Stopped", "StoppedByErr"}
      [] a = "stop"           -> {"Running", "ScheduledStop"}
      [] a = "scheduledStart" -> {"ScheduledStop", "Stopped", "StoppedByErr"}
      [] a = "scheduledStop"  -> {"Running"}

\* Mutant: a stop is deferred although the rule is stopped already.
DefersWhenStopped(a) ==
    IF a \in {"start", "scheduledStart"} THEN {"Stopping"}
                                         ELSE {"Starting", "Stopping", "Stopped"}

\* The states in which TriggerAction defers action a to the queue.
Defers(a) ==
    IF a \in {"start", "scheduledStart"} THEN {"Stopping"}
                                         ELSE {"Starting", "Stopping"}

\* The transient state that a caller which carries out action a announces.
Announced(a) ==
    IF a \in {"start", "scheduledStart"} THEN "Starting" ELSE "Stopping"

\* Whether the caller of TriggerAction has to carry out the action itself.
MustAct(st, q, a) == q = << >> /\ st \in Proceeds(a)

\* currentState after TriggerAction(a).
TriggeredState(st, q, a) == IF MustAct(st, q, a) THEN Announced(a) ELSE st

\* actionQ after TriggerAction(a): once signals are queued every later one
\* queues up behind them, except that a repetition of the last is dropped.
TriggeredQueue(st, q, a) ==
    IF q # << >>
    THEN IF q[Len(q)] = a THEN q ELSE Append(q, a)
    ELSE IF st \in Defers(a) THEN <<a>> ELSE q
=============================================================================
