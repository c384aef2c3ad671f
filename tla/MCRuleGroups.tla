---------------------------- MODULE MCRuleGroups ---------------------------
(***************************************************************************)
(* An instance of RuleState whose callers all send signals, or all update  *)
(* and delete the rule; the two groups of methods are not mixed.           *)
(***************************************************************************)
EXTENDS MCRuleState

VARIABLE group   \* the methods that the callers of this behaviour use

Either == Signals \cup Updates

GroupInit ==
    /\ Init
    /\ \/ group = Signals
       \/ group = Updates /\ rule \notin ScheduleRules

GroupNext ==
    /\ Next
    /\ \A c \in Callers : pc'[c].at # "idle" => pc'[c].op \in group
    /\ group = Updates => rule' = rule
    /\ group' = group

\* Three callers that send signals, or that update and delete the rule.
GroupSpec == GroupInit /\ [][GroupNext]_<<vars, group>>
=============================================================================
