---------------------------- MODULE RuleSchedule ----------------------------
(***************************************************************************)
(* The patrol of rules: runScheduleRuleCheckerByInterval of                *)
(* internal/server/rule_init.go, with internal/pkg/schedule, for one rule. *)
(*                                                                         *)
(* At every tick the patrol reads the state of every rule and the time,    *)
(* and then goes through the rules: it starts or stops each as its         *)
(* schedule says, and recovers it if it had stopped by an error.  Users,   *)
(* and the rule itself, act between its steps.  Here the operations of     *)
(* rule.State are single steps; RuleState.tla has what is inside them.     *)
(***************************************************************************)
EXTENDS Integers, FiniteSets, RuleMachine

CONSTANTS
    RuleOptions,   \* the options of a rule, see OptionsOK
    MaxNow,        \* bound: the time
    MaxUserCalls   \* bound: calls of users and ends of runs

\* ranges: cronDatetimeRange as pairs of times; fires: the times at which cron
\* fires; duration; attempts: of the restart strategy.
OptionsOK ==
    RuleOptions \subseteq [ranges : SUBSET ((0..MaxNow) \X (0..MaxNow)),
                           fires : SUBSET (0..MaxNow), duration : Nat, attempts : Nat]

ASSUME ScheduleAssumption == {MaxNow, MaxUserCalls} \subseteq Nat /\ OptionsOK

VARIABLES
    options,     \* the options of the rule
    now,
    scheduled,   \* the registered rule.State: its state, the time of its last
                 \* start, and Triggered of the definition it holds
    orphans,     \* runs of states that are not registered any more
    patrol,      \* where the patrol is, and what it read
    userCalls,
    lookedAt,    \* history: the time by which the patrol decided last
    touched,     \* history: the rule changed since, other than by the patrol
    stale,       \* history: it did so since the patrol read its state
    dismissed    \* history: a user has stopped the rule, and not started it again

schedVars == <<options, now, scheduled, orphans, patrol, userCalls, lookedAt, touched, stale, dismissed>>

ScheduledRule == [state : RunState, start : 0..MaxNow, triggered : BOOLEAN]

ScheduleTypeOK ==
    /\ options \in RuleOptions
    /\ now \in 0..MaxNow
    /\ scheduled \in ScheduledRule
    /\ orphans \in Nat
    /\ patrol \in [at : {"idle", "schedule", "restart"}, state : RunState,
                   start : 0..MaxNow, now : 0..MaxNow]
    /\ userCalls \in 0..MaxUserCalls /\ lookedAt \in 0..MaxNow
    /\ {touched, stale, dismissed} \subseteq BOOLEAN
    /\ scheduled.state \in AtRest \cup {"Running"}
-----------------------------------------------------------------------------
(* When a rule is to run.                                                  *)

IsScheduleRule == options.ranges # {} \/ (options.fires # {} /\ options.duration > 0)
IsDurationRule == options.duration > 0

\* Begin and end are not in a range.
IsInScheduleRanges(t) ==
    options.ranges = {} \/ \E r \in options.ranges : r[1] < t /\ t < r[2]

\* What fires next, seen from a duration ago, has fired.
IsInRunningSchedule(t) ==
    \E f \in options.fires :
        /\ f > t - options.duration
        /\ \A g \in options.fires : g > t - options.duration => f <= g
        /\ f < t /\ t < f + options.duration

\* Mutant: the start of the rule is not looked at.
EndsByTheClock(seen) == seen.state = "Running" /\ seen.now >= options.duration

\* A rule with a duration only has run for that long.
HasRunItsTime(seen) == seen.state = "Running" /\ seen.now - seen.start >= options.duration

\* What the patrol does with a rule, by what it read.
ScheduleAction(seen) ==
    IF ~IsInScheduleRanges(seen.now) THEN "stop"
    ELSE IF options.duration = 0 THEN IF options.fires = {} THEN "start" ELSE "nothing"
    ELSE IF options.fires # {} THEN IF IsInRunningSchedule(seen.now) THEN "start" ELSE "stop"
    ELSE IF HasRunItsTime(seen) THEN "end" ELSE "nothing"
-----------------------------------------------------------------------------
(* The rule.                                                               *)

Run(r) == [r EXCEPT !.state = "Running", !.start = now]

\* A new rule.State, which starts the rule if it is triggered: a rule with a
\* schedule is left to the patrol.
RecoveredRule(triggered) ==
    LET r == [state |-> "Stopped", start |-> 0, triggered |-> triggered]
    IN  IF ~triggered THEN r
        ELSE IF IsScheduleRule THEN [r EXCEPT !.state = "ScheduledStop"]
        ELSE Run(r)

Carried(action, r) ==
    CASE action = "start" /\ r.state \in Proceeds("scheduledStart") -> Run(r)
      [] action = "stop" /\ r.state \in Proceeds("scheduledStop") ->
             [r EXCEPT !.state = "ScheduledStop"]
      [] action = "end" /\ r.state \in Proceeds("stop") -> [r EXCEPT !.state = "Stopped"]
      [] OTHER -> r

Idle == [at |-> "idle", state |-> "Stopped", start |-> 0, now |-> 0]

ScheduleInit ==
    /\ options \in RuleOptions
    /\ now = 0
    /\ \E triggered \in BOOLEAN :
           scheduled = RecoveredRule(triggered) /\ dismissed = ~triggered
    /\ orphans = 0 /\ patrol = Idle /\ userCalls = 0
    /\ lookedAt = 0 /\ touched = TRUE /\ stale = FALSE
-----------------------------------------------------------------------------
(* The patrol.                                                             *)

Tick ==
    /\ now < MaxNow
    /\ now' = now + 1
    /\ UNCHANGED <<options, scheduled, orphans, patrol, userCalls, lookedAt, touched, stale, dismissed>>

GetAllRulesWithState ==
    /\ patrol.at = "idle"
    /\ patrol' = [at |-> IF IsScheduleRule \/ IsDurationRule THEN "schedule" ELSE "restart",
                  state |-> scheduled.state, start |-> scheduled.start, now |-> now]
    /\ stale' = FALSE
    /\ UNCHANGED <<options, now, scheduled, orphans, userCalls, lookedAt, touched, dismissed>>

HandleScheduleRuleState ==
    /\ patrol.at = "schedule"
    /\ patrol' = [patrol EXCEPT !.at = "restart"]
    /\ scheduled' = Carried(ScheduleAction(patrol), scheduled)
    /\ touched' = FALSE /\ lookedAt' = patrol.now
    /\ UNCHANGED <<options, now, orphans, userCalls, stale, dismissed>>

\* RecoverRule registers a new state in the place of the one there is, by the
\* state that the patrol read.
RestartByStrategy ==
    /\ patrol.at = "restart"
    /\ patrol' = [patrol EXCEPT !.at = "idle"]
    /\ IF options.attempts > 0 /\ patrol.state = "StoppedByErr"
       THEN /\ scheduled' = RecoveredRule(scheduled.triggered)
            /\ orphans' = IF scheduled.state = "Running" THEN orphans + 1 ELSE orphans
       ELSE UNCHANGED <<scheduled, orphans>>
    /\ UNCHANGED <<options, now, userCalls, lookedAt, touched, stale, dismissed>>
-----------------------------------------------------------------------------
(* Users, and the run.                                                     *)

Happens ==
    /\ userCalls < MaxUserCalls
    /\ userCalls' = userCalls + 1
    /\ touched' = TRUE
    /\ stale' = TRUE
    /\ UNCHANGED <<options, now, orphans, patrol, lookedAt>>

\* StartRule runs the rule at once, whatever its schedule.
StartByUser ==
    /\ Happens
    /\ scheduled' = [Run(scheduled) EXCEPT !.triggered = TRUE]
    /\ dismissed' = FALSE

\* StopRule.
StopByUser ==
    /\ Happens
    /\ scheduled' = IF scheduled.state \in Proceeds("stop")
                    THEN [scheduled EXCEPT !.state = "Stopped"] ELSE scheduled
    /\ dismissed' = TRUE

\* The run fails, or ends by itself.
RunFinishes ==
    /\ Happens
    /\ scheduled.state = "Running"
    /\ \E state \in {"StoppedByErr", "Stopped"} : scheduled' = [scheduled EXCEPT !.state = state]
    /\ UNCHANGED dismissed

ScheduleNext ==
    \/ Tick
    \/ GetAllRulesWithState \/ HandleScheduleRuleState \/ RestartByStrategy
    \/ StartByUser \/ StopByUser \/ RunFinishes

ScheduleSpec == ScheduleInit /\ [][ScheduleNext]_schedVars
-----------------------------------------------------------------------------
(* Properties.                                                             *)

\* The schedule as docs/en_US/guide/rules/overview.md:297-337 defines it: the
\* rule runs for the duration after each time at which cron fires, if there is
\* cron, and in the ranges, if there are any.
InSchedule(t) ==
    /\ options.ranges # {} => \E r \in options.ranges : t \in (r[1] + 1)..(r[2] - 1)
    /\ options.fires # {} =>
           \E f \in options.fires : t \in (f + 1)..(f + options.duration - 1)

\* Cron and duration go together.
IsPeriodic == IsScheduleRule /\ (options.fires # {} <=> options.duration > 0)

\* A periodic rule runs just when its schedule said so at the last look of the
\* patrol, until a user or the run itself changes it.  A rule with a restart
\* strategy is left out: see OneRunAlways
\* (rule_init.go:228-318, schedule.go:32-133).
RunsInSchedule ==
    IsPeriodic /\ options.attempts = 0 /\ ~touched
        => (scheduled.state = "Running" <=> InSchedule(lookedAt))

\* A rule with a duration only is not stopped before it has run that long, if
\* it is not started again while the patrol looks at it (rule_init.go:310-314).
DurationIsFull ==
    [][HandleScheduleRuleState /\ ~IsScheduleRule /\ ~stale
       /\ scheduled.state = "Running" /\ scheduled'.state # "Running"
        => now - scheduled.start >= options.duration]_schedVars

\* The patrol does not start a second run of a rule that has no schedule, if the
\* rule does not change while the patrol looks at it (rule_init.go:235-240).
OneRunOfRule ==
    [][RestartByStrategy /\ ~IsScheduleRule /\ ~stale => orphans' = orphans]_schedVars

\* The same of every rule: the patrol has just started a rule with a schedule
\* itself when it recovers it, by the state it had read (rule_init.go:230-240).
\* (The code does not satisfy this: README, section 8.)
OneRunAlways == [][RestartByStrategy /\ ~stale => orphans' = orphans]_schedVars

\* A periodic rule that a user has stopped is "no longer scheduled to run"
\* (docs/en_US/guide/rules/overview.md:304-305, state_machine.go).
\* (The code does not satisfy this: README, section 8.)
DismissedStaysStopped == dismissed => scheduled.state # "Running"

\* The patrol runs a rule when its schedule says so, for its whole duration and once,
\* unless the rule changes while it is looked at (rule_init.go:228-318, schedule.go:32-133).
ScheduleSound ==
    /\ [](ScheduleTypeOK /\ RunsInSchedule)
    /\ DurationIsFull /\ OneRunOfRule
=============================================================================
