---------------------------- MODULE LookupTables ----------------------------
(***************************************************************************)
(* The running instance of one lookup table: lookup/table.go, as the       *)
(* lookup nodes of rules (node/lookup_node.go) and the processor of        *)
(* streams (processor/stream.go) use it.                                   *)
(*                                                                         *)
(* A table that is created, or replaced, connects a source, which every    *)
(* rule that joins with it shares and counts.  A table in use cannot be    *)
(* dropped.  The definition is in the database, from which the tables are  *)
(* created again when the server starts.                                   *)
(***************************************************************************)
EXTENDS Integers, Sequences, FiniteSets

CONSTANTS
    TableRules,     \* the rules that join with the table
    TableCallers,   \* REST handlers that create, replace and drop it
    MaxLookups,     \* bound: sources connected
    MaxRestarts     \* bound: crashes of the server

ASSUME TableAssumption ==
    /\ IsFiniteSet(TableRules) /\ IsFiniteSet(TableCallers)
    /\ {MaxLookups, MaxRestarts} \subseteq Nat

VARIABLES
    lookups,     \* every source connected
    instance,    \* instances[name]: an index in lookups, 0 if there is none
    stored,      \* the definition in the database: that of a source, 0 if none
    attached,    \* the source that the lookup node of each rule uses, 0 if it does not run
    tableCalls,  \* what each REST handler does
    restarts,
    overwritten, \* history: a new instance took the place of one not dropped
    mishap,      \* history: a call failed halfway
    crossed      \* history: a call changed the instance or what is stored while
                 \* another was between its step on the one and that on the other

tableVars == <<lookups, instance, stored, attached, tableCalls, restarts,
               overwritten, mishap, crossed>>

LookupSource == [open : BOOLEAN, count : Int]  \* open until Close is called
TableOps     == {"create", "replace", "drop"}
TableCall    == [op : TableOps, at : {"idle", "drop", "connect", "save", "delete"}, made : Nat]

TableTypeOK ==
    /\ lookups \in Seq(LookupSource) /\ Len(lookups) <= MaxLookups
    /\ {instance, stored} \subseteq 0..Len(lookups)
    /\ instance # 0 => lookups[instance].open
    /\ attached \in [TableRules -> 0..Len(lookups)]
    /\ tableCalls \in [TableCallers -> TableCall]
    /\ restarts \in 0..MaxRestarts
    /\ overwritten \in BOOLEAN /\ mishap \in BOOLEAN /\ crossed \in BOOLEAN

IdleCall == [op |-> "create", at |-> "idle", made |-> 0]

TableInit ==
    /\ lookups = << >> /\ instance = 0 /\ stored = 0
    /\ attached = [r \in TableRules |-> 0]
    /\ tableCalls = [c \in TableCallers |-> IdleCall]
    /\ restarts = 0 /\ overwritten = FALSE /\ mishap = FALSE /\ crossed = FALSE

TableStep(c, at) == tableCalls' = [tableCalls EXCEPT ![c].at = at]
EndTableCall(c)  == tableCalls' = [tableCalls EXCEPT ![c] = IdleCall]
TableInUse       == instance # 0 /\ lookups[instance].count > 0

\* The call has changed one half of the table, and not yet the other.
Halfway(c) == tableCalls[c].at \in {"save", "delete"}

\* The step of c is noted if it falls between the two halves of another call.
NoteCrossing(c) ==
    crossed' = \/ crossed
               \/ /\ <<instance, stored>>' # <<instance, stored>>
                  /\ \E d \in TableCallers \ {c} : Halfway(d)
-----------------------------------------------------------------------------
(* REST handlers                                                           *)

\* ExecStmt or ExecReplaceStream: the statement is parsed and checked.
CallTable(c, op) ==
    /\ tableCalls[c].at = "idle"
    /\ tableCalls' = [tableCalls EXCEPT ![c] = [op |-> op, at |-> "drop", made |-> 0]]
    /\ UNCHANGED <<lookups, instance, stored, attached, restarts, overwritten, mishap, crossed>>

\* The instance is in use and stays, which is an error for a drop and nothing
\* for the others.
KeepInstance(c) ==
    /\ tableCalls[c].at = "drop"
    /\ IF tableCalls[c].op = "drop" THEN EndTableCall(c) ELSE TableStep(c, "connect")
    /\ UNCHANGED <<lookups, instance, stored, attached, restarts, overwritten, mishap, crossed>>

\* The instance is taken out and its source closed.  The error of Close ends a
\* drop before the definition is deleted, and is nothing for the others.
TakeInstance(c) ==
    /\ tableCalls[c].at = "drop"
    /\ instance' = 0
    /\ lookups' = IF instance = 0 THEN lookups
                  ELSE [lookups EXCEPT ![instance].open = FALSE]
    /\ IF tableCalls[c].op = "drop"
       THEN \/ TableStep(c, "delete") /\ UNCHANGED mishap
            \/ instance # 0 /\ EndTableCall(c) /\ mishap' = TRUE
       ELSE TableStep(c, "connect") /\ UNCHANGED mishap
    /\ UNCHANGED <<stored, attached, restarts, overwritten>>
    /\ NoteCrossing(c)

\* Mutant: a count of one does not keep the instance.
DropInstanceOne(c) ==
    IF instance # 0 /\ lookups[instance].count > 1 THEN KeepInstance(c) ELSE TakeInstance(c)

\* DropInstance.
DropInstance(c) == IF TableInUse THEN KeepInstance(c) ELSE TakeInstance(c)

\* CreateInstance: the new source is the instance, whatever was there.
NewInstance ==
    /\ Len(lookups) < MaxLookups
    /\ lookups' = Append(lookups, [open |-> TRUE, count |-> 0])
    /\ instance' = Len(lookups')

CreateInstance(c) ==
    /\ tableCalls[c].at = "connect"
    /\ NewInstance
    /\ overwritten' = (overwritten \/ instance # 0)
    /\ tableCalls' = [tableCalls EXCEPT ![c].at = "save", ![c].made = Len(lookups')]
    /\ UNCHANGED <<stored, attached, restarts, mishap>>
    /\ NoteCrossing(c)

\* Its source cannot be connected: the call ends.
CreateInstanceFails(c) ==
    /\ tableCalls[c].at = "connect"
    /\ EndTableCall(c)
    /\ mishap' = TRUE
    /\ UNCHANGED <<lookups, instance, stored, attached, restarts, overwritten, crossed>>

\* Setnx of a new table, which must not be there, or Set of one that is
\* replaced; the store may fail.
SaveTable(c) ==
    /\ tableCalls[c].at = "save"
    /\ \/ /\ tableCalls[c].op = "create" => stored = 0
          /\ stored' = tableCalls[c].made
          /\ UNCHANGED mishap
       \/ /\ mishap' = TRUE
          /\ UNCHANGED stored
    /\ EndTableCall(c)
    /\ UNCHANGED <<lookups, instance, attached, restarts, overwritten>>
    /\ NoteCrossing(c)

\* The end of DropStream: the definition is deleted, or the store fails.
DeleteTable(c) ==
    /\ tableCalls[c].at = "delete"
    /\ \/ stored' = 0 /\ UNCHANGED mishap
       \/ stored # 0 /\ mishap' = TRUE /\ UNCHANGED stored
    /\ EndTableCall(c)
    /\ UNCHANGED <<lookups, instance, attached, restarts, overwritten>>
    /\ NoteCrossing(c)
-----------------------------------------------------------------------------
(* Lookup nodes                                                            *)

\* The node of a rule that was planned with the table runs: Attach.  It looks at
\* the instance only; the definition may be gone since.
Attach(r) ==
    /\ attached[r] = 0 /\ instance # 0
    /\ attached' = [attached EXCEPT ![r] = instance]
    /\ lookups' = [lookups EXCEPT ![instance].count = @ + 1]
    /\ UNCHANGED <<instance, stored, tableCalls, restarts, overwritten, mishap, crossed>>

\* The node ends: Detach, from the instance there is then.
Detach(r) ==
    /\ attached[r] # 0
    /\ attached' = [attached EXCEPT ![r] = 0]
    /\ lookups' = IF instance = 0 THEN lookups
                  ELSE [lookups EXCEPT ![instance].count = @ - 1]
    /\ UNCHANGED <<instance, stored, tableCalls, restarts, overwritten, mishap, crossed>>
-----------------------------------------------------------------------------
\* The server crashes, and RecoverLookupTable creates the instance again.
RestartServer ==
    /\ restarts < MaxRestarts
    /\ restarts' = restarts + 1
    /\ attached' = [r \in TableRules |-> 0]
    /\ tableCalls' = [c \in TableCallers |-> IdleCall]
    /\ overwritten' = FALSE /\ crossed' = FALSE
    /\ LET gone == [i \in DOMAIN lookups |-> [lookups[i] EXCEPT !.open = FALSE]] IN
       \/ /\ stored # 0 /\ Len(lookups) < MaxLookups
          /\ lookups' = Append(gone, [open |-> TRUE, count |-> 0])
          /\ instance' = Len(lookups')
          /\ stored' = instance'
          /\ mishap' = FALSE
       \/ /\ lookups' = gone /\ instance' = 0
          /\ mishap' = (stored # 0)
          /\ UNCHANGED stored

TableHandler(c) ==
    \/ DropInstance(c) \/ CreateInstance(c) \/ CreateInstanceFails(c)
    \/ SaveTable(c) \/ DeleteTable(c)

TableNext ==
    \/ \E c \in TableCallers : TableHandler(c) \/ \E op \in TableOps : CallTable(c, op)
    \/ \E r \in TableRules : Attach(r) \/ Detach(r)
    \/ RestartServer

TableSpec == TableInit /\ [][TableNext]_tableVars
-----------------------------------------------------------------------------
(* Properties                                                              *)

\* The count of the instance is the number of nodes that use it (table.go:42-62),
\* unless one was overwritten.
CountIsUsers ==
    ~overwritten /\ instance # 0 =>
        lookups[instance].count = Cardinality({r \in TableRules : attached[r] = instance})

\* The source that a lookup node uses is not closed under it (table.go:100-117).
UsedIsOpen ==
    ~overwritten => \A r \in TableRules : attached[r] # 0 => lookups[attached[r]].open

\* At most the source of the instance is open (table.go:112, stream.go:202): what
\* was dropped, or replaced, is closed.
OthersAreClosed ==
    ~overwritten => \A i \in DOMAIN lookups : lookups[i].open => i = instance

\* When no handler is at work, what is stored is what runs (stream.go:200-230,
\* 610-650), unless a call failed halfway, or one changed the table between the
\* instance's step and the store's step of another.
StoredRuns ==
    ~overwritten /\ ~mishap /\ ~crossed /\ (\A c \in TableCallers : tableCalls[c].at = "idle")
        => instance = stored

\* A source that a lookup node uses is open, whoever replaces the table.
\* (The code does not satisfy this: README, section 8.)
UsedIsOpenAlways == \A r \in TableRules : attached[r] # 0 => lookups[attached[r]].open

\* What is stored is what runs, also after calls that crossed or failed.
\* (The code does not satisfy this: README, section 8.)
StoredRunsAlways ==
    (\A c \in TableCallers : tableCalls[c].at = "idle") => instance = stored

\* The instance of a lookup table counts its users and is open for them, and the other
\* sources are closed, apart from an instance in use that is overwritten; what is stored
\* is what runs once the handlers are done, unless one of them failed halfway or changed
\* the table between the two halves of another (table.go:31-117, stream.go:200-230, 610-650).
TablesSound == TableTypeOK /\ CountIsUsers /\ UsedIsOpen /\ OthersAreClosed /\ StoredRuns
=============================================================================
