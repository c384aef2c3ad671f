---------------------------- MODULE PluginProcess ---------------------------
(***************************************************************************)
(* The process of a portable plugin: pluginInsManager and PluginIns of     *)
(* plugin/portable/runtime/plugin_ins_manager.go, as the sources and sinks *)
(* of rules (source.go, sink.go) and the plugin manager use them.          *)
(*                                                                         *)
(* Whoever needs the plugin starts its process, when there is none, while  *)
(* it holds the lock of the manager, and tells it over a control channel   *)
(* to start a symbol.  The process may end at any time.  A goroutine waits *)
(* for that and forgets it; the next start replays the symbols in use.     *)
(***************************************************************************)
EXTENDS Naturals, Sequences, FiniteSets

CONSTANTS
    PluginRules,    \* each uses one symbol of the plugin, by its source or sink
    PluginApi,      \* the REST handler that creates and deletes the plugin
    Nobody,
    MaxProcesses,   \* bound: processes started
    MaxUses,        \* bound: times that somebody starts to use the plugin
    MaxKills        \* bound: times the plugin is deleted

ASSUME PluginAssumption ==
    /\ PluginApi \notin PluginRules /\ Nobody \notin PluginRules \cup {PluginApi}
    /\ {MaxProcesses, MaxUses, MaxKills} \subseteq Nat

Starters == PluginRules \cup {PluginApi}

VARIABLES
    process,      \* PluginIns.process: an index in processes, 0 is nil
    processes,    \* every process that was started
    pluginStatus, \* PluginIns.Status
    commands,     \* PluginIns.commands: the rules whose symbols are recorded
    restores,     \* the goroutines that replay a symbol, by its rule
    pmHolder,     \* who holds the lock of the manager between two steps
    users,        \* where each user of the plugin is
    uses, kills,
    overtaken     \* history: the plugin was deleted between the two steps of a waiter

pluginVars == <<process, processes, pluginStatus, commands, restores,
                pmHolder, users, uses, kills, overtaken>>

PluginProc == [alive   : BOOLEAN,
            shook   : BOOLEAN,               \* it is connected to the control channel
            symbols : SUBSET PluginRules,    \* those it was told to start
            waiter  : {"wait", "seen", "clear", "done"}]

User == [pc   : {"idle", "start", "shake", "shaken", "has", "sent", "runs", "stopped"},
         late : BOOLEAN]   \* history: another process came between sending and recording

PluginTypeOK ==
    /\ processes \in Seq(PluginProc) /\ Len(processes) <= MaxProcesses
    /\ process \in 0..Len(processes)
    /\ pluginStatus \in {"initializing", "running", "error", "stop"}
    /\ commands \in SUBSET PluginRules
    /\ restores \in SUBSET PluginRules
    /\ pmHolder \in Starters \cup {Nobody}
    \* The lock is held by whoever shakes hands, and by nobody else.
    /\ \A u \in Starters : (pmHolder = u) = (users[u].pc \in {"shake", "shaken"})
    /\ users \in [Starters -> User]
    /\ uses \in 0..MaxUses /\ kills \in 0..MaxKills /\ overtaken \in BOOLEAN

PluginInit ==
    /\ processes = << >> /\ process = 0 /\ pluginStatus = "initializing"
    /\ commands = {} /\ restores = {}
    /\ pmHolder = Nobody
    /\ users = [u \in Starters |-> [pc |-> "idle", late |-> FALSE]]
    /\ uses = 0 /\ kills = 0 /\ overtaken = FALSE

Latest == Len(processes)
GoOn(u, pc) == users' = [users EXCEPT ![u].pc = pc]
-----------------------------------------------------------------------------
(* GetOrStartProcess                                                       *)

\* Connect of a source or a sink, or the creation of the plugin.
Use(u) ==
    /\ users[u].pc = "idle" /\ uses < MaxUses
    /\ uses' = uses + 1
    /\ users' = [users EXCEPT ![u] = [pc |-> "start", late |-> FALSE]]
    /\ UNCHANGED <<process, processes, pluginStatus, commands, restores,
                   pmHolder, kills, overtaken>>

\* Where a user goes who has got the instance: a rule starts its symbol.
HasInstance(u) == GoOn(u, IF u = PluginApi THEN "idle" ELSE "has")

\* The lock is taken, and there is a process already.
FindProcess(u) ==
    /\ users[u].pc = "start" /\ pmHolder = Nobody /\ process # 0
    /\ HasInstance(u)
    /\ UNCHANGED <<process, processes, pluginStatus, commands, restores,
                   pmHolder, uses, kills, overtaken>>

\* cmd.Start, and the goroutine that waits for the end of the process.
StartProcess(u) ==
    /\ users[u].pc = "start" /\ pmHolder = Nobody /\ process = 0
    /\ Latest < MaxProcesses
    /\ processes' = Append(processes,
            [alive |-> TRUE, shook |-> FALSE, symbols |-> {}, waiter |-> "wait"])
    /\ pmHolder' = u
    /\ GoOn(u, "shake")
    /\ UNCHANGED <<process, pluginStatus, commands, restores, uses, kills, overtaken>>

\* Something on the way fails, such as cmd.Start.
StartFails(u) ==
    /\ users[u].pc = "start" /\ pmHolder = Nobody /\ process = 0
    /\ pluginStatus' = "error"
    /\ GoOn(u, "idle")
    /\ UNCHANGED <<process, processes, commands, restores, pmHolder, uses, kills, overtaken>>

\* Handshake returns.
Handshake(u) ==
    /\ users[u].pc = "shake" /\ processes[Latest].alive
    /\ processes' = [processes EXCEPT ![Latest].shook = TRUE]
    /\ GoOn(u, "shaken")
    /\ UNCHANGED <<process, pluginStatus, commands, restores, pmHolder, uses, kills, overtaken>>

\* Handshake returns the error of its timeout: the process is killed.
HandshakeFails(u) ==
    /\ users[u].pc = "shake"
    /\ pluginStatus' = "error"
    /\ processes' = [processes EXCEPT ![Latest].alive = FALSE]
    /\ pmHolder' = Nobody
    /\ GoOn(u, "idle")
    /\ UNCHANGED <<process, commands, restores, uses, kills, overtaken>>

\* The process is that of the instance now, and the commands are replayed to it.
InstallProcess(u) ==
    /\ users[u].pc = "shaken"
    /\ process' = Latest
    /\ pluginStatus' = "running"
    /\ restores' = restores \cup commands
    /\ pmHolder' = Nobody
    /\ users' = [v \in Starters |->
         IF v = u THEN [users[v] EXCEPT !.pc = IF u = PluginApi THEN "idle" ELSE "has"]
         ELSE [users[v] EXCEPT !.late = @ \/ users[v].pc = "sent"]]
    /\ UNCHANGED <<processes, commands, uses, kills, overtaken>>
-----------------------------------------------------------------------------
(* Commands to the process                                                 *)

\* The process at the other end of the control channel, if there is one.
Connected == {p \in 1..Latest : processes[p].alive /\ processes[p].shook}

\* SendCmd: the process starts, or stops, the symbol and answers.
Tell(r, start) ==
    \E p \in Connected :
        processes' = [processes EXCEPT ![p].symbols = IF start THEN @ \cup {r} ELSE @ \ {r}]

\* StartSymbol sends the command ...
SendStart(r) ==
    /\ users[r].pc = "has"
    /\ Tell(r, TRUE)
    /\ GoOn(r, "sent")
    /\ UNCHANGED <<process, pluginStatus, commands, restores, pmHolder, uses, kills, overtaken>>

\* ... or fails, and Connect with it ...
SendStartFails(r) ==
    /\ users[r].pc = "has" /\ Connected = {}
    /\ GoOn(r, "idle")
    /\ UNCHANGED <<process, processes, pluginStatus, commands, restores,
                   pmHolder, uses, kills, overtaken>>

\* ... and records it.
RecordStart(r) ==
    /\ users[r].pc = "sent"
    /\ commands' = commands \cup {r}
    /\ GoOn(r, "runs")
    /\ UNCHANGED <<process, processes, pluginStatus, restores, pmHolder, uses, kills, overtaken>>

\* StopSymbol, when the source or the sink is closed, and the process answers ...
SendStop(r) ==
    /\ users[r].pc = "runs"
    /\ Tell(r, FALSE)
    /\ GoOn(r, "stopped")
    /\ UNCHANGED <<process, pluginStatus, commands, restores, pmHolder, uses, kills, overtaken>>

\* ... or does not: nothing is forgotten.
SendStopFails(r) ==
    /\ users[r].pc = "runs" /\ Connected = {}
    /\ GoOn(r, "idle")
    /\ UNCHANGED <<process, processes, pluginStatus, commands, restores,
                   pmHolder, uses, kills, overtaken>>

RecordStop(r) ==
    /\ users[r].pc = "stopped"
    /\ commands' = commands \ {r}
    /\ GoOn(r, "idle")
    /\ UNCHANGED <<process, processes, pluginStatus, restores, pmHolder, uses, kills, overtaken>>

\* A goroutine that replays a command.
Restore(r) ==
    /\ r \in restores
    /\ restores' = restores \ {r}
    /\ \/ Tell(r, TRUE) /\ UNCHANGED pluginStatus
       \/ Connected = {} /\ pluginStatus' = "error" /\ UNCHANGED processes
    /\ UNCHANGED <<process, commands, pmHolder, users, uses, kills, overtaken>>
-----------------------------------------------------------------------------
(* The end of a process                                                    *)

\* It ends by itself.
Exit(p) ==
    /\ processes[p].alive
    /\ processes' = [processes EXCEPT ![p].alive = FALSE]
    /\ UNCHANGED <<process, pluginStatus, commands, restores, pmHolder,
                   users, uses, kills, overtaken>>

\* Kill: the plugin is deleted.
Kill ==
    /\ pmHolder = Nobody /\ kills < MaxKills
    /\ kills' = kills + 1
    /\ pluginStatus' = "stop"
    /\ process' = 0
    /\ processes' = IF process = 0 THEN processes
                    ELSE [processes EXCEPT ![process].alive = FALSE]
    /\ overtaken' = (overtaken \/ \E p \in 1..Latest : processes[p].waiter = "clear")
    /\ UNCHANGED <<commands, restores, pmHolder, users, uses>>

\* cmd.Wait returns: the status says so, unless the process ended well.
WaitReturns(p) ==
    /\ processes[p].waiter = "wait" /\ ~processes[p].alive
    /\ processes' = [processes EXCEPT ![p].waiter = "seen"]
    /\ pluginStatus' \in {"error", pluginStatus}
    /\ UNCHANGED <<process, commands, restores, pmHolder, users, uses, kills, overtaken>>

\* Mutant: the instance is looked up without the lock of the manager.
IsStillItsUnlocked(p) ==
    /\ processes[p].waiter = "seen"
    /\ processes' = [processes EXCEPT ![p].waiter = IF process = p THEN "clear" ELSE "done"]
    /\ UNCHANGED <<process, pluginStatus, commands, restores, pmHolder,
                   users, uses, kills, overtaken>>

\* The instance is looked up under the lock of the manager, so not before the
\* process was installed; whether it still has this process is asked ...
IsStillIts(p) ==
    /\ processes[p].waiter = "seen" /\ pmHolder = Nobody
    /\ processes' = [processes EXCEPT ![p].waiter = IF process = p THEN "clear" ELSE "done"]
    /\ UNCHANGED <<process, pluginStatus, commands, restores, pmHolder,
                   users, uses, kills, overtaken>>

\* ... and then it is forgotten, without that lock.
ForgetProcess(p) ==
    /\ processes[p].waiter = "clear"
    /\ process' = 0
    /\ processes' = [processes EXCEPT ![p].waiter = "done"]
    /\ UNCHANGED <<pluginStatus, commands, restores, pmHolder, users, uses, kills, overtaken>>

Wait(p) == WaitReturns(p) \/ IsStillIts(p) \/ ForgetProcess(p)

Acquire(u) == FindProcess(u) \/ StartProcess(u) \/ StartFails(u)
Shake(u)   == Handshake(u) \/ HandshakeFails(u) \/ InstallProcess(u)
Command(r) == SendStart(r) \/ SendStartFails(r) \/ RecordStart(r) \/ RecordStop(r)
Close(r)   == SendStop(r) \/ SendStopFails(r)

PluginNext ==
    \/ \E u \in Starters : Use(u) \/ Acquire(u) \/ Shake(u)
    \/ \E r \in PluginRules : Command(r) \/ Close(r) \/ Restore(r)
    \/ \E p \in 1..Latest : Exit(p) \/ Wait(p)
    \/ Kill

PluginSpec == PluginInit /\ [][PluginNext]_pluginVars
-----------------------------------------------------------------------------
(* Properties                                                              *)

\* There are never two processes of the plugin (plugin_ins_manager.go:238-243,
\* 316-335): whoever starts one has the lock, and the one before has ended, even
\* where its end is noticed late, unless a waiter forgot the wrong one.
OneProcess ==
    ~overtaken =>
    \A p, q \in 1..Latest : processes[p].alive /\ processes[q].alive => p = q

\* A rule that runs has its symbol started in the process of the instance, also
\* when it is another than the rule started it in (plugin_ins_manager.go:349-358),
\* unless that one took over just before the rule was recorded.
SymbolsRestored ==
    \A r \in PluginRules :
        ~overtaken /\ users[r].pc = "runs" /\ ~users[r].late /\ r \notin restores
        /\ process # 0 /\ process = Latest /\ processes[process].alive
            => r \in processes[process].symbols

\* While the process of the instance has ended, its waiter is still to forget it
\* (plugin_ins_manager.go:322-334), so that the next use starts another.
EndedIsForgotten ==
    process # 0 /\ ~processes[process].alive => processes[process].waiter # "done"

\* A symbol that is started belongs to a rule that uses it.
\* (The code does not satisfy this: README, section 8.)
SymbolsAreUsed ==
    \A r \in PluginRules : \A p \in Connected :
        r \in processes[p].symbols => users[r].pc # "idle"

\* The status says running while the process of the instance is alive.
\* (The code does not satisfy this: README, section 8.)
StatusIsTrue ==
    process # 0 /\ processes[process].alive => pluginStatus = "running"

\* There is one process of a plugin, which is forgotten when it has ended, and a new one
\* gets the symbols of the rules that run (plugin_ins_manager.go:230-360).
PluginSound == PluginTypeOK /\ OneProcess /\ SymbolsRestored /\ EndedIsForgotten
=============================================================================
