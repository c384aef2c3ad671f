------------------------------ MODULE MCServer ------------------------------
(***************************************************************************)
(* Small instances of what the server manages: the registry of rules, the  *)
(* process of a plugin, a lookup table, the imports in the background and  *)
(* the patrol of rules with a schedule.  A behaviour follows one of them,  *)
(* and the others rest.                                                    *)
(***************************************************************************)
EXTENDS RuleRegistry, PluginProcess, LookupTables, AsyncTasks, RuleSchedule

\* Rules with nothing but a restart strategy, with a duration, with ranges that
\* meet, with cron that fires when it ends, and with cron in a range.
SomeOptions ==
    LET Opts(r, f, d) == [ranges : {r}, fires : {f}, duration : {d}, attempts : {0, 1}]
    IN  Opts({}, {}, 0) \cup Opts({}, {}, 2) \cup Opts({<<0, 2>>, <<2, 5>>}, {}, 0)
        \cup Opts({}, {0, 2, 4}, 2) \cup Opts({<<0, 4>>}, {0, 3}, 3)

VARIABLE part   \* the one that is followed

ServerInit ==
    /\ part \in {"rules", "plugin", "table", "imports", "schedule"}
    /\ RegInit /\ PluginInit /\ TableInit /\ AsyncInit /\ ScheduleInit
    /\ part # "rules" => db = None
    /\ part # "schedule" => options = CHOOSE o \in SomeOptions : TRUE
    /\ part # "schedule" => dismissed

\* Bound: a temporary rule that comes with a request is triggered.
TemporaryRuns == \A c \in Callers : pc[c].new.temp => pc[c].new.triggered

RulesStep   == part = "rules"   /\ RegNext /\ TemporaryRuns'
               /\ UNCHANGED <<part, pluginVars, tableVars, asyncVars, schedVars>>
PluginStep  == part = "plugin"  /\ PluginNext
               /\ UNCHANGED <<part, regVars, tableVars, asyncVars, schedVars>>
TableDone   == part = "table"   /\ TableNext
               /\ UNCHANGED <<part, regVars, pluginVars, asyncVars, schedVars>>
ImportsStep == part = "imports" /\ AsyncNext
               /\ UNCHANGED <<part, regVars, pluginVars, tableVars, schedVars>>
ScheduleStep == part = "schedule" /\ ScheduleNext
               /\ UNCHANGED <<part, regVars, pluginVars, tableVars, asyncVars>>

ServerNext == RulesStep \/ PluginStep \/ TableDone \/ ImportsStep \/ ScheduleStep

ServerSpec ==
    /\ ServerInit
    /\ [][ServerNext]_<<part, regVars, pluginVars, tableVars, asyncVars, schedVars>>
    /\ RegFairness
=============================================================================
