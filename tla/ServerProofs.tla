----------------------------- MODULE ServerProofs ----------------------------
(***************************************************************************)
(* Proofs about what the server keeps for its REST handlers and its rules: *)
(* imports in the background, lookup tables, the process of a portable     *)
(* plugin, the patrol of rules and their registry, for any number of       *)
(* tasks, rules, handlers, calls, crashes, processes, options and versions *)
(***************************************************************************)
EXTENDS AsyncTasks, LookupTables, PluginProcess, RuleSchedule, RuleRegistry,
        SequenceTheorems, FiniteSetTheorems, TLAPS

-----------------------------------------------------------------------------
(* Imports in the background                                               *)

\* While the server starts nothing is worked on, and what InitManager has
\* passed does not run.
StartInv ==
    ~serverUp => \A t \in Tasks :
        /\ workers[t] = "none"
        /\ t \notin toCheck => taskStatus[t] # "running"

AsyncInv == AsyncTypeOK /\ RunningIsWorkedOn /\ CancelIsHeard /\ StartInv

LEMMA AsyncInvInit == AsyncInit => AsyncInv
  BY TasksAssumption DEF AsyncInit, AsyncInv, AsyncTypeOK, Statuses, RunningIsWorkedOn,
     CancelIsHeard, StartInv

LEMMA AsyncInvNext == AsyncInv /\ [AsyncNext]_asyncVars => AsyncInv'
  <1> SUFFICES ASSUME AsyncInv, [AsyncNext]_asyncVars
               PROVE  AsyncInv'
    OBVIOUS
  <1> USE DEF AsyncInv, AsyncTypeOK, Statuses, RunningIsWorkedOn, CancelIsHeard, StartInv
  <1>1. CASE UNCHANGED asyncVars
    BY <1>1 DEF asyncVars
  <1>2. ASSUME NEW t \in Tasks, RegisterTask(t)
        PROVE  AsyncInv'
    BY <1>2 DEF RegisterTask
  <1>3. ASSUME NEW t \in Tasks, StartTask(t)
        PROVE  AsyncInv'
    BY <1>3 DEF StartTask
  <1>4. ASSUME NEW t \in Tasks, EndTask(t)
        PROVE  AsyncInv'
    BY <1>4 DEF EndTask
  <1>5. ASSUME NEW t \in Tasks, CancelTask(t)
        PROVE  AsyncInv'
    BY <1>5 DEF CancelTask
  <1>6. CASE CrashServer
    <2>1. crashes' \in 0..MaxCrashes
      BY <1>6, TasksAssumption DEF CrashServer
    <2>2. /\ serverUp' = FALSE /\ toCheck' = Tasks /\ cancels' = {} /\ ctxDone' = {}
          /\ taskStatus' = taskStatus /\ workers' = [t \in Tasks |-> "none"]
      BY <1>6 DEF CrashServer, GoDown
    <2> QED
      BY <2>1, <2>2
  <1>7. ASSUME NEW t \in Tasks, PassTask(t)
        PROVE  AsyncInv'
    BY <1>7 DEF PassTask
  <1>8. ASSUME NEW t \in Tasks, CancelLeftover(t)
        PROVE  AsyncInv'
    BY <1>8 DEF CancelLeftover, GoDown
  <1>9. CASE EndInit
    BY <1>9 DEF EndInit
  <1> QED
    BY <1>1, <1>2, <1>3, <1>4, <1>5, <1>6, <1>7, <1>8, <1>9
       DEF AsyncNext, Work, InitManager

\* A start that is taken down has stored that its leftover task is cancelled.
LEMMA StartTakenDown ==
    ASSUME AsyncInv, AsyncNext,
           ~serverUp, toCheck # Tasks, toCheck' = Tasks, crashes' = crashes
    PROVE  Leftovers' \subseteq Leftovers /\ Leftovers' # Leftovers
  <1>1. PICK t \in Tasks : CancelLeftover(t)
    <2>1. crashes \in Nat /\ serverUp \in BOOLEAN
      BY TasksAssumption DEF AsyncInv, AsyncTypeOK
    <2>2. ASSUME NEW t \in Tasks, RegisterTask(t) \/ StartTask(t) \/ EndTask(t) \/ CancelTask(t)
          PROVE  toCheck' = toCheck
      BY <2>2 DEF RegisterTask, StartTask, EndTask, CancelTask
    <2>3. ~CrashServer
      BY <2>1 DEF CrashServer
    <2>4. ~EndInit
      BY DEF EndInit
    <2>5. ASSUME NEW t \in Tasks, PassTask(t)
          PROVE  FALSE
      <3>1. t \in toCheck /\ toCheck' = toCheck \ {t}
        BY <2>5 DEF PassTask
      <3> QED
        BY <3>1
    <2> QED
      BY <2>2, <2>3, <2>4, <2>5 DEF AsyncNext, Work, InitManager
  <1>2. t \in Leftovers /\ t \notin Leftovers' /\ Leftovers' \subseteq Leftovers
    BY <1>1 DEF CancelLeftover, GoDown, Leftovers, AsyncInv, AsyncTypeOK
  <1> QED
    BY <1>2

\* What is stored of a task agrees with what works on it, over crashes and
\* cancellations, and each start of the server that a leftover task takes down
\* leaves one of them less, whatever the number of tasks (async.go:38-125).
THEOREM TasksAreSound == AsyncSpec => TasksSound
  <1>1. AsyncSpec => []AsyncInv
    BY AsyncInvInit, AsyncInvNext, PTL DEF AsyncSpec
  <1>2. AsyncInv => AsyncTypeOK /\ RunningIsWorkedOn /\ CancelIsHeard
    BY DEF AsyncInv
  <1>3. AsyncInv /\ [AsyncNext]_asyncVars =>
           [~serverUp /\ toCheck # Tasks /\ toCheck' = Tasks /\ crashes' = crashes
              => Leftovers' \subseteq Leftovers /\ Leftovers' # Leftovers]_asyncVars
    BY StartTakenDown
  <1>4. AsyncSpec => FewerEachStart
    BY <1>1, <1>3, PTL DEF AsyncSpec, FewerEachStart
  <1> QED
    BY <1>1, <1>2, <1>4, PTL DEF TasksSound
-----------------------------------------------------------------------------
(* Lookup tables                                                           *)

UsersOf(i) == {r \in TableRules : attached[r] = i}

\* Only the instance is used and open, and its count is that of its users.
InstanceInv ==
    ~overwritten =>
        /\ \A r \in TableRules : attached[r] # 0 => attached[r] = instance
        /\ \A i \in DOMAIN lookups : lookups[i].open => i = instance
        /\ instance # 0 => lookups[instance].count = Cardinality(UsersOf(instance))

\* What a handler between its two steps has done, and what is there while none is.
HandlerInv ==
    ~mishap /\ ~overwritten /\ ~crossed =>
        /\ (\A c \in TableCallers : ~Halfway(c)) =>
              \/ instance = stored
              \/ instance = 0 /\ \E c \in TableCallers : tableCalls[c].at = "connect"
        /\ \A c \in TableCallers :
              /\ tableCalls[c].at = "save" => instance = tableCalls[c].made /\ instance # 0
              /\ tableCalls[c].at = "delete" => instance = 0

TableInv ==
    /\ TableTypeOK
    /\ \A c \in TableCallers : tableCalls[c].made <= Len(lookups)
    /\ InstanceInv /\ HandlerInv

LEMMA TableInvInit == TableInit => TableInv
  <1> SUFFICES ASSUME TableInit
               PROVE  TableInv
    OBVIOUS
  <1>1. /\ lookups = << >> /\ lookups \in Seq(LookupSource) /\ Len(lookups) = 0
        /\ DOMAIN lookups = {} /\ instance = 0 /\ stored = 0
    BY DEF TableInit
  <1>2. \A c \in TableCallers : tableCalls[c] = IdleCall
    BY DEF TableInit
  <1>3. IdleCall.at = "idle" /\ IdleCall.made = 0 /\ IdleCall \in TableCall
    BY DEF IdleCall, TableCall, TableOps
  <1>4. TableTypeOK
    <2>1. attached \in [TableRules -> 0..Len(lookups)]
      BY <1>1 DEF TableInit
    <2>2. restarts \in 0..MaxRestarts /\ Len(lookups) <= MaxLookups
      BY <1>1, TableAssumption DEF TableInit
    <2>3. tableCalls \in [TableCallers -> TableCall]
      BY <1>3 DEF TableInit
    <2>4. {instance, stored} \subseteq 0..Len(lookups) /\ (instance # 0 => lookups[instance].open)
      BY <1>1
    <2>5. overwritten \in BOOLEAN /\ mishap \in BOOLEAN /\ crossed \in BOOLEAN
      BY DEF TableInit
    <2> QED
      BY <1>1, <2>1, <2>2, <2>3, <2>4, <2>5 DEF TableTypeOK
  <1>5. \A c \in TableCallers : tableCalls[c].made <= Len(lookups)
    BY <1>1, <1>2, <1>3
  <1>6. InstanceInv
    BY <1>1 DEF InstanceInv, TableInit
  <1>7. HandlerInv
    BY <1>1, <1>2, <1>3 DEF HandlerInv, Halfway
  <1> QED
    BY <1>4, <1>5, <1>6, <1>7 DEF TableInv

\* A handler's own step: the others stay as they are.
LEMMA CallStepFields ==
    ASSUME tableCalls \in [TableCallers -> TableCall], NEW c \in TableCallers,
           NEW to \in TableCall, tableCalls' = [tableCalls EXCEPT ![c] = to]
    PROVE  /\ tableCalls' \in [TableCallers -> TableCall]
           /\ tableCalls'[c] = to
           /\ \A d \in TableCallers : d # c => tableCalls'[d] = tableCalls[d]
  OBVIOUS

\* The handler goes on, or is done.
LEMMA GoingCall ==
    ASSUME tableCalls \in [TableCallers -> TableCall], NEW c \in TableCallers,
           NEW at \in {"idle", "drop", "connect", "save", "delete"},
           TableStep(c, at)
    PROVE  /\ tableCalls' \in [TableCallers -> TableCall]
           /\ tableCalls'[c].at = at /\ tableCalls'[c].made = tableCalls[c].made
           /\ \A d \in TableCallers : d # c => tableCalls'[d] = tableCalls[d]
  <1> DEFINE to == [tableCalls[c] EXCEPT !.at = at]
  <1>1. to \in TableCall /\ to.at = at /\ to.made = tableCalls[c].made
    <2>1. tableCalls[c] \in TableCall
      OBVIOUS
    <2> QED
      BY <2>1 DEF TableCall
  <1>2. tableCalls' = [tableCalls EXCEPT ![c] = to]
    BY DEF TableStep
  <1> HIDE DEF to
  <1> QED
    BY <1>1, <1>2

LEMMA EndedCall ==
    ASSUME tableCalls \in [TableCallers -> TableCall], NEW c \in TableCallers,
           EndTableCall(c)
    PROVE  /\ tableCalls' \in [TableCallers -> TableCall]
           /\ tableCalls'[c].at = "idle" /\ tableCalls'[c].made = 0
           /\ \A d \in TableCallers : d # c => tableCalls'[d] = tableCalls[d]
  <1>1. IdleCall \in TableCall /\ IdleCall.at = "idle" /\ IdleCall.made = 0
    BY DEF IdleCall, TableCall, TableOps
  <1>2. tableCalls' = [tableCalls EXCEPT ![c] = IdleCall]
    BY DEF EndTableCall
  <1> QED
    BY <1>1, <1>2

\* The invariant of the handlers over the step of one, which the others see only
\* if none of them is between its two steps.
LEMMA HandlersStep ==
    ASSUME TableInv, NEW c \in TableCallers,
           \A d \in TableCallers : d # c => tableCalls'[d] = tableCalls[d],
           NoteCrossing(c), ~mishap' => ~mishap, ~overwritten' => ~overwritten,
           ~mishap /\ ~overwritten /\ ~crossed /\ ~mishap' /\ ~overwritten' =>
               /\ tableCalls'[c].at = "save" => instance' = tableCalls'[c].made /\ instance' # 0
               /\ tableCalls'[c].at = "delete" => instance' = 0
               /\ (\A d \in TableCallers \ {c} : ~Halfway(d)) /\ ~Halfway(c)' =>
                     \/ instance' = stored'
                     \/ instance' = 0 /\ \E d \in TableCallers : tableCalls'[d].at = "connect"
    PROVE  HandlerInv'
  <1> SUFFICES ASSUME ~mishap', ~overwritten', ~crossed'
               PROVE  /\ (\A a \in TableCallers : ~Halfway(a)') =>
                            \/ instance' = stored'
                            \/ instance' = 0 /\ \E a \in TableCallers : tableCalls'[a].at = "connect"
                      /\ \A a \in TableCallers :
                            /\ tableCalls'[a].at = "save" => instance' = tableCalls'[a].made /\ instance' # 0
                            /\ tableCalls'[a].at = "delete" => instance' = 0
    BY DEF HandlerInv
  <1>1. ~mishap /\ ~overwritten /\ ~crossed /\ HandlerInv
    BY DEF NoteCrossing, TableInv
  <1>2. \A d \in TableCallers \ {c} : Halfway(d)' <=> Halfway(d)
    BY DEF Halfway
  <1>3. ASSUME NEW d \in TableCallers \ {c}, Halfway(d)
        PROVE  instance' = instance
    BY <1>3 DEF NoteCrossing
  <1>4. ASSUME NEW a \in TableCallers
        PROVE  /\ tableCalls'[a].at = "save" => instance' = tableCalls'[a].made /\ instance' # 0
               /\ tableCalls'[a].at = "delete" => instance' = 0
    <2>1. CASE a = c
      BY <1>1, <2>1
    <2>2. CASE a # c /\ Halfway(a)
      <3>1. instance' = instance /\ tableCalls'[a] = tableCalls[a]
        BY <1>3, <2>2
      <3>2. /\ tableCalls[a].at = "save" => instance = tableCalls[a].made /\ instance # 0
            /\ tableCalls[a].at = "delete" => instance = 0
        BY <1>1 DEF HandlerInv
      <3> QED
        BY <3>1, <3>2
    <2>3. CASE a # c /\ ~Halfway(a)
      BY <2>3 DEF Halfway
    <2> QED
      BY <2>1, <2>2, <2>3
  <1>5. ASSUME \A a \in TableCallers : ~Halfway(a)'
        PROVE  \/ instance' = stored'
               \/ instance' = 0 /\ \E a \in TableCallers : tableCalls'[a].at = "connect"
    <2>1. (\A d \in TableCallers \ {c} : ~Halfway(d)) /\ ~Halfway(c)'
      BY <1>2, <1>5
    <2> QED
      BY <1>1, <2>1
  <1> QED
    BY <1>4, <1>5

\* A step that leaves the instance and what is stored, before the first half of
\* a call or at its end without one.
LEMMA QuietHandler ==
    ASSUME TableInv, NEW c \in TableCallers, tableCalls[c].at \in {"idle", "drop"},
           \A d \in TableCallers : d # c => tableCalls'[d] = tableCalls[d],
           tableCalls'[c].at \in {"idle", "drop", "connect"},
           UNCHANGED <<instance, stored, overwritten, mishap, crossed>>
    PROVE  HandlerInv'
  <1>1. NoteCrossing(c)
    BY DEF NoteCrossing, TableInv, TableTypeOK
  <1>2. ASSUME ~mishap, ~overwritten, ~crossed, \A d \in TableCallers \ {c} : ~Halfway(d)
        PROVE  \/ instance' = stored'
               \/ instance' = 0 /\ \E d \in TableCallers : tableCalls'[d].at = "connect"
    <2>1. \A d \in TableCallers : ~Halfway(d)
      BY <1>2 DEF Halfway
    <2>2. \/ instance = stored
          \/ instance = 0 /\ \E d \in TableCallers : tableCalls[d].at = "connect"
      BY <1>2, <2>1 DEF TableInv, HandlerInv
    <2> QED
      BY <2>2
  <1> QED
    BY <1>1, <1>2, HandlersStep

\* One source is replaced by another with the same or a changed field.
LEMMA SourceStep ==
    ASSUME lookups \in Seq(LookupSource), NEW i \in DOMAIN lookups, NEW ent \in LookupSource,
           lookups' = [lookups EXCEPT ![i] = ent]
    PROVE  /\ lookups' \in Seq(LookupSource) /\ Len(lookups') = Len(lookups)
           /\ DOMAIN lookups' = DOMAIN lookups
           /\ lookups'[i] = ent
           /\ \A j \in DOMAIN lookups : j # i => lookups'[j] = lookups[j]
  OBVIOUS

LEMMA CallTableStep ==
    ASSUME TableInv, NEW c \in TableCallers, NEW op \in TableOps, CallTable(c, op)
    PROVE  TableInv'
  <1> DEFINE to == [op |-> op, at |-> "drop", made |-> 0]
  <1>1. to \in TableCall /\ to.at = "drop" /\ to.made = 0
    BY DEF TableCall
  <1>2. tableCalls \in [TableCallers -> TableCall] /\ Len(lookups) \in Nat
    BY DEF TableInv, TableTypeOK
  <1>3. /\ tableCalls[c].at = "idle"
        /\ tableCalls' = [tableCalls EXCEPT ![c] = to]
        /\ UNCHANGED <<lookups, instance, stored, attached, restarts, overwritten, mishap, crossed>>
    BY DEF CallTable
  <1> HIDE DEF to
  <1>4. /\ tableCalls' \in [TableCallers -> TableCall] /\ tableCalls'[c] = to
        /\ \A d \in TableCallers : d # c => tableCalls'[d] = tableCalls[d]
    BY <1>1, <1>2, <1>3
  <1>6. TableTypeOK'
    BY <1>3, <1>4 DEF TableInv, TableTypeOK
  <1>7. \A d \in TableCallers : tableCalls'[d].made <= Len(lookups')
    <2> SUFFICES ASSUME NEW d \in TableCallers
                 PROVE  tableCalls'[d].made <= Len(lookups')
      OBVIOUS
    <2> QED
      BY <1>1, <1>2, <1>3, <1>4 DEF TableInv
  <1>8. InstanceInv'
    BY <1>3 DEF TableInv, InstanceInv, UsersOf
  <1>9. HandlerInv'
    BY <1>1, <1>3, <1>4, QuietHandler
  <1> QED
    BY <1>6, <1>7, <1>8, <1>9 DEF TableInv

LEMMA KeepInstanceStep ==
    ASSUME TableInv, NEW c \in TableCallers, KeepInstance(c)
    PROVE  TableInv'
  <1>1. /\ tableCalls \in [TableCallers -> TableCall] /\ Len(lookups) \in Nat
        /\ \A d \in TableCallers : tableCalls[d].made <= Len(lookups)
        /\ tableCalls[c].at = "drop"
        /\ EndTableCall(c) \/ TableStep(c, "connect")
        /\ UNCHANGED <<lookups, instance, stored, attached, restarts, overwritten, mishap, crossed>>
    BY DEF TableInv, TableTypeOK, KeepInstance
  <1>2. /\ tableCalls' \in [TableCallers -> TableCall]
        /\ \A d \in TableCallers : d # c => tableCalls'[d] = tableCalls[d]
        /\ tableCalls'[c].made \in {0, tableCalls[c].made}
        /\ tableCalls'[c].at \in {"idle", "connect"}
    BY <1>1, EndedCall, GoingCall
  <1>3. \A d \in TableCallers : tableCalls'[d].made <= Len(lookups')
    <2> SUFFICES ASSUME NEW d \in TableCallers
                 PROVE  tableCalls'[d].made <= Len(lookups')
      OBVIOUS
    <2> QED
      BY <1>1, <1>2
  <1>4. TableTypeOK'
    BY <1>1, <1>2 DEF TableInv, TableTypeOK
  <1>5. InstanceInv'
    BY <1>1 DEF TableInv, InstanceInv, UsersOf
  <1>6. HandlerInv'
    BY <1>1, <1>2, QuietHandler
  <1> QED
    BY <1>3, <1>4, <1>5, <1>6 DEF TableInv

LEMMA TakeInstanceStep ==
    ASSUME TableInv, NEW c \in TableCallers, ~TableInUse, TakeInstance(c)
    PROVE  TableInv'
  <1>1. /\ tableCalls \in [TableCallers -> TableCall] /\ lookups \in Seq(LookupSource)
        /\ Len(lookups) \in Nat /\ instance \in 0..Len(lookups)
        /\ attached \in [TableRules -> 0..Len(lookups)]
        /\ \A d \in TableCallers : tableCalls[d].made <= Len(lookups)
        /\ tableCalls[c].at = "drop"
    BY DEF TableInv, TableTypeOK, TakeInstance
  <1>2. /\ UNCHANGED <<stored, attached, restarts, overwritten>>
        /\ mishap' \in BOOLEAN /\ crossed' \in BOOLEAN
        /\ NoteCrossing(c)
    BY DEF TableInv, TableTypeOK, TakeInstance, NoteCrossing
  <1>3. PICK at \in {"delete", "connect", "idle"} :
           /\ IF at = "idle" THEN EndTableCall(c) ELSE TableStep(c, at)
           /\ IF at = "idle" THEN mishap' = TRUE ELSE mishap' = mishap
    BY DEF TakeInstance
  <1>4. /\ tableCalls' \in [TableCallers -> TableCall]
        /\ \A d \in TableCallers : d # c => tableCalls'[d] = tableCalls[d]
        /\ tableCalls'[c].made \in {0, tableCalls[c].made}
        /\ tableCalls'[c].at = at
    BY <1>1, <1>3, EndedCall, GoingCall
  <1>5. \A d \in TableCallers : tableCalls'[d].made <= Len(lookups)
    <2> SUFFICES ASSUME NEW d \in TableCallers
                 PROVE  tableCalls'[d].made <= Len(lookups)
      OBVIOUS
    <2> QED
      BY <1>1, <1>4
  <1> QED
    <2> DEFINE ent == [lookups[instance] EXCEPT !.open = FALSE]
    <2>1. /\ instance' = 0
          /\ lookups' = IF instance = 0 THEN lookups ELSE [lookups EXCEPT ![instance] = ent]
      BY DEF TakeInstance
    <2>2. instance # 0 => ent \in LookupSource /\ ent.open = FALSE
      <3> SUFFICES ASSUME instance # 0
                   PROVE  ent \in LookupSource /\ ent.open = FALSE
        OBVIOUS
      <3>1. lookups[instance] \in LookupSource
        BY <1>1
      <3> QED
        BY <3>1 DEF LookupSource
    <2> HIDE DEF ent
    <2>3. /\ lookups' \in Seq(LookupSource) /\ Len(lookups') = Len(lookups)
          /\ DOMAIN lookups' = DOMAIN lookups
          /\ \A i \in DOMAIN lookups : i # instance => lookups'[i] = lookups[i]
          /\ instance # 0 => ~lookups'[instance].open
      BY <1>1, <2>1, <2>2
    <2>4. ~overwritten => \A r \in TableRules : attached[r] = 0
      <3> SUFFICES ASSUME ~overwritten, NEW r \in TableRules, attached[r] # 0
                   PROVE  FALSE
        OBVIOUS
      <3>1. attached[r] = instance /\ instance # 0
        BY DEF TableInv, InstanceInv
      <3>2. lookups[instance].count = Cardinality(UsersOf(instance))
        BY <3>1 DEF TableInv, InstanceInv
      <3>3. IsFiniteSet(UsersOf(instance))
        BY TableAssumption, FS_Subset DEF UsersOf
      <3>4. Cardinality(UsersOf(instance)) \in Nat
        BY <3>3, FS_CardinalityType
      <3>5. Cardinality(UsersOf(instance)) = 0
        BY <3>1, <3>2, <3>4 DEF TableInUse
      <3>6. UsersOf(instance) = {}
        BY <3>3, <3>5, FS_EmptySet
      <3> QED
        BY <3>1, <3>6 DEF UsersOf
    <2>5. InstanceInv'
      <3> SUFFICES ASSUME ~overwritten
                   PROVE  /\ \A r \in TableRules : attached'[r] = 0
                          /\ \A i \in DOMAIN lookups' : ~lookups'[i].open
        BY <1>2, <2>1 DEF InstanceInv
      <3>1. ASSUME NEW i \in DOMAIN lookups', lookups'[i].open
            PROVE  FALSE
        <4>1. i \in DOMAIN lookups /\ i # 0
          BY <1>1, <2>3
        <4>2. i # instance
          BY <2>3, <3>1, <4>1
        <4>3. lookups[i].open
          BY <2>3, <3>1, <4>1, <4>2
        <4> QED
          BY <4>1, <4>2, <4>3 DEF TableInv, InstanceInv
      <3> QED
        BY <1>2, <2>4, <3>1
    <2>6. TableTypeOK'
      BY <1>1, <1>2, <1>4, <2>1, <2>3 DEF TableInv, TableTypeOK
    <2>7. HandlerInv'
      <3>1. ~mishap' => ~mishap /\ at \in {"delete", "connect"}
        BY <1>3
      <3>2. instance' = 0 /\ ~(at = "delete" /\ ~Halfway(c)')
        BY <1>4, <2>1 DEF Halfway
      <3> QED
        BY <1>2, <1>4, <3>1, <3>2, HandlersStep
    <2> QED
      BY <1>5, <2>3, <2>5, <2>6, <2>7 DEF TableInv

LEMMA CreateInstanceStep ==
    ASSUME TableInv, NEW c \in TableCallers, CreateInstance(c)
    PROVE  TableInv'
  <1> DEFINE n == Len(lookups)
             fresh == [open |-> TRUE, count |-> 0]
             to == [tableCalls[c] EXCEPT !.at = "save", !.made = n + 1]
  <1>1. /\ tableCalls \in [TableCallers -> TableCall] /\ lookups \in Seq(LookupSource)
        /\ n \in Nat /\ instance \in 0..n /\ stored \in 0..n
        /\ attached \in [TableRules -> 0..n]
        /\ \A d \in TableCallers : tableCalls[d].made <= n
        /\ tableCalls[c].at = "connect" /\ n < MaxLookups
    BY DEF TableInv, TableTypeOK, CreateInstance, NewInstance
  <1>2. /\ lookups' = Append(lookups, fresh) /\ instance' = Len(lookups')
        /\ overwritten' = (overwritten \/ instance # 0)
        /\ tableCalls' = [tableCalls EXCEPT ![c] = [@ EXCEPT !.at = "save", !.made = Len(lookups')]]
        /\ UNCHANGED <<stored, attached, restarts, mishap>>
        /\ NoteCrossing(c) /\ crossed' \in BOOLEAN
    BY DEF CreateInstance, NewInstance, NoteCrossing, TableInv, TableTypeOK
  <1>3. fresh \in LookupSource /\ fresh.open /\ fresh.count = 0
    BY DEF LookupSource
  <1> HIDE DEF fresh
  <1>4. /\ lookups' \in Seq(LookupSource) /\ Len(lookups') = n + 1
        /\ DOMAIN lookups' = 1..(n + 1) /\ DOMAIN lookups = 1..n
        /\ lookups'[n + 1] = fresh
        /\ \A i \in DOMAIN lookups : lookups'[i] = lookups[i]
    BY <1>1, <1>2, <1>3
  <1>5. to \in TableCall /\ to.at = "save" /\ to.made = n + 1
    <2>1. tableCalls[c] \in TableCall /\ n + 1 \in Nat
      BY <1>1
    <2> HIDE DEF n
    <2> QED
      BY <2>1 DEF TableCall
  <1>6. tableCalls' = [tableCalls EXCEPT ![c] = to]
    BY <1>2, <1>4
  <1> HIDE DEF to, n
  <1>7. /\ tableCalls' \in [TableCallers -> TableCall] /\ tableCalls'[c] = to
        /\ \A d \in TableCallers : d # c => tableCalls'[d] = tableCalls[d]
    BY <1>1, <1>5, <1>6
  <1>8. \A d \in TableCallers : tableCalls'[d].made <= Len(lookups')
    <2> SUFFICES ASSUME NEW d \in TableCallers
                 PROVE  tableCalls'[d].made <= Len(lookups')
      OBVIOUS
    <2>1. CASE d = c
      BY <2>1, <1>1, <1>4, <1>5, <1>7
    <2>2. CASE d # c
      <3>1. tableCalls'[d].made <= n /\ tableCalls'[d].made \in Nat
        BY <2>2, <1>1, <1>7 DEF TableCall
      <3> QED
        BY <3>1, <1>1, <1>4
    <2> QED
      BY <2>1, <2>2
  <1>9. instance' = n + 1 /\ overwritten' \in BOOLEAN
    BY <1>2, <1>4 DEF TableInv, TableTypeOK
  <1>10. TableTypeOK'
    <2>1. stored' \in 0..Len(lookups') /\ instance' \in 0..Len(lookups')
      BY <1>1, <1>2, <1>4, <1>9
    <2>2. attached' \in [TableRules -> 0..Len(lookups')]
      <3>1. \A r \in TableRules : attached[r] \in 0..(n + 1)
        BY <1>1
      <3> QED
        BY <1>1, <1>2, <1>4, <3>1
    <2>3. lookups'[instance'].open
      BY <1>3, <1>4, <1>9
    <2>4. Len(lookups') <= MaxLookups
      BY <1>1, <1>4, TableAssumption
    <2>5. restarts' \in 0..MaxRestarts /\ mishap' \in BOOLEAN /\ crossed' \in BOOLEAN
      BY <1>2 DEF TableInv, TableTypeOK
    <2> QED
      BY <1>4, <1>7, <1>9, <2>1, <2>2, <2>3, <2>4, <2>5 DEF TableTypeOK
  <1>11. InstanceInv'
    <2> SUFFICES ASSUME ~overwritten'
                 PROVE  InstanceInv'
      BY DEF InstanceInv
    <2>1. ~overwritten /\ instance = 0
      BY <1>2
    <2>2. \A r \in TableRules : attached'[r] = 0
      BY <1>2, <2>1 DEF TableInv, InstanceInv
    <2>3. ASSUME NEW i \in DOMAIN lookups', lookups'[i].open
          PROVE  i = instance'
      <3>1. CASE i \in DOMAIN lookups
        <4>1. lookups[i].open /\ i # 0
          BY <1>1, <1>4, <2>3, <3>1
        <4> QED
          BY <2>1, <3>1, <4>1 DEF TableInv, InstanceInv
      <3>2. CASE i \notin DOMAIN lookups
        BY <1>1, <1>4, <1>9, <3>2
      <3> QED
        BY <3>1, <3>2
    <2>4. lookups'[instance'].count = 0
      BY <1>3, <1>4, <1>9
    <2>5. Cardinality(UsersOf(instance)') = 0
      <3>1. UsersOf(instance)' = {}
        BY <1>1, <1>9, <2>2 DEF UsersOf
      <3> QED
        BY <3>1, FS_EmptySet
    <2> QED
      BY <2>2, <2>3, <2>4, <2>5 DEF InstanceInv
  <1>12. HandlerInv'
    <2>1. (~mishap' => ~mishap) /\ (~overwritten' => ~overwritten)
      BY <1>2
    <2>2. /\ tableCalls'[c].at = "save" /\ tableCalls'[c].made = instance'
          /\ instance' # 0 /\ Halfway(c)'
      BY <1>1, <1>5, <1>7, <1>9 DEF Halfway
    <2> QED
      BY <1>2, <1>7, <2>1, <2>2, HandlersStep
  <1> QED
    BY <1>8, <1>10, <1>11, <1>12 DEF TableInv

\* The end of a call that leaves the sources and the instance alone.
LEMMA CallEndsStep ==
    ASSUME TableInv, NEW c \in TableCallers, EndTableCall(c), NoteCrossing(c),
           UNCHANGED <<lookups, instance, attached, restarts, overwritten>>,
           stored' \in 0..Len(lookups), mishap' \in BOOLEAN, ~mishap' => ~mishap,
           ~mishap /\ ~overwritten /\ ~crossed /\ ~mishap' => instance = stored'
    PROVE  TableInv'
  <1>1. /\ tableCalls \in [TableCallers -> TableCall] /\ Len(lookups) \in Nat
        /\ \A d \in TableCallers : tableCalls[d].made <= Len(lookups)
    BY DEF TableInv, TableTypeOK
  <1>2. /\ tableCalls' \in [TableCallers -> TableCall]
        /\ tableCalls'[c].at = "idle" /\ tableCalls'[c].made = 0
        /\ \A d \in TableCallers : d # c => tableCalls'[d] = tableCalls[d]
    BY <1>1, EndedCall
  <1>3. \A d \in TableCallers : tableCalls'[d].made <= Len(lookups')
    <2> SUFFICES ASSUME NEW d \in TableCallers
                 PROVE  tableCalls'[d].made <= Len(lookups')
      OBVIOUS
    <2> QED
      BY <1>1, <1>2
  <1>4. TableTypeOK'
    <2>1. crossed' \in BOOLEAN
      BY DEF NoteCrossing, TableInv, TableTypeOK
    <2> QED
      BY <1>2, <2>1 DEF TableInv, TableTypeOK
  <1>5. InstanceInv'
    BY DEF TableInv, InstanceInv, UsersOf
  <1>6. HandlerInv'
    BY <1>2, HandlersStep
  <1> QED
    BY <1>3, <1>4, <1>5, <1>6 DEF TableInv

\* The step of a call on the store, which may fail.
LEMMA StoreStep ==
    ASSUME TableInv, NEW c \in TableCallers, EndTableCall(c), NoteCrossing(c),
           UNCHANGED <<lookups, instance, attached, restarts, overwritten>>,
           NEW to \in 0..Len(lookups),
           ~mishap /\ ~overwritten /\ ~crossed => instance = to,
           \/ mishap' = TRUE /\ stored' = stored
           \/ mishap' = mishap /\ stored' = to
    PROVE  TableInv'
  <1>1. CASE mishap' = TRUE /\ stored' = stored
    <2>1. stored' \in 0..Len(lookups)
      BY <1>1 DEF TableInv, TableTypeOK
    <2> QED
      BY <1>1, <2>1, CallEndsStep
  <1>2. CASE mishap' = mishap /\ stored' = to
    <2>1. mishap' \in BOOLEAN /\ stored' \in 0..Len(lookups)
      BY <1>2 DEF TableInv, TableTypeOK
    <2> QED
      BY <1>2, <2>1, CallEndsStep
  <1> QED
    BY <1>1, <1>2

LEMMA OtherHandlerSteps ==
    ASSUME TableInv, NEW c \in TableCallers,
           CreateInstanceFails(c) \/ SaveTable(c) \/ DeleteTable(c)
    PROVE  TableInv'
  <1>1. /\ stored \in 0..Len(lookups) /\ tableCalls[c] \in TableCall /\ mishap \in BOOLEAN
        /\ tableCalls[c].made <= Len(lookups) /\ Len(lookups) \in Nat
    BY DEF TableInv, TableTypeOK
  <1>2. CASE CreateInstanceFails(c)
    <2>1. /\ EndTableCall(c) /\ mishap' = TRUE /\ stored' = stored
          /\ UNCHANGED <<lookups, instance, attached, restarts, overwritten>>
          /\ NoteCrossing(c)
      BY <1>2 DEF CreateInstanceFails, NoteCrossing, TableInv, TableTypeOK
    <2> QED
      BY <1>1, <2>1, CallEndsStep
  <1>3. CASE SaveTable(c)
    <2>1. /\ EndTableCall(c) /\ NoteCrossing(c)
          /\ UNCHANGED <<lookups, instance, attached, restarts, overwritten>>
          /\ tableCalls[c].at = "save"
          /\ \/ mishap' = TRUE /\ stored' = stored
             \/ mishap' = mishap /\ stored' = tableCalls[c].made
      BY <1>3 DEF SaveTable
    <2>2. tableCalls[c].made \in 0..Len(lookups)
      BY <1>1 DEF TableCall
    <2>3. ~mishap /\ ~overwritten /\ ~crossed => instance = tableCalls[c].made
      BY <2>1 DEF TableInv, HandlerInv
    <2> QED
      BY <1>1, <2>1, <2>2, <2>3, StoreStep
  <1>4. CASE DeleteTable(c)
    <2>1. /\ EndTableCall(c) /\ NoteCrossing(c)
          /\ UNCHANGED <<lookups, instance, attached, restarts, overwritten>>
          /\ tableCalls[c].at = "delete"
          /\ \/ mishap' = TRUE /\ stored' = stored
             \/ mishap' = mishap /\ stored' = 0
      BY <1>4 DEF DeleteTable
    <2>2. ~mishap /\ ~overwritten /\ ~crossed => instance = 0
      BY <2>1 DEF TableInv, HandlerInv
    <2>3. 0 \in 0..Len(lookups)
      BY <1>1
    <2> QED
      BY <2>1, <2>2, <2>3, StoreStep
  <1> QED
    BY <1>2, <1>3, <1>4

\* The count of the instance changes, or nothing does.
LEMMA CountStep ==
    ASSUME TableInv, NEW by \in {1, -1}, instance # 0,
           lookups' = [lookups EXCEPT ![instance].count = @ + by]
    PROVE  /\ lookups' \in Seq(LookupSource) /\ Len(lookups') = Len(lookups)
           /\ DOMAIN lookups' = DOMAIN lookups
           /\ lookups'[instance].count = lookups[instance].count + by
           /\ \A i \in DOMAIN lookups : lookups'[i].open = lookups[i].open
  <1> DEFINE ent == [lookups[instance] EXCEPT !.count = @ + by]
  <1>1. lookups \in Seq(LookupSource) /\ instance \in DOMAIN lookups
    BY DEF TableInv, TableTypeOK
  <1>2. lookups[instance] \in LookupSource /\ lookups[instance].count + by \in Int
    <2>1. lookups[instance] \in LookupSource
      BY <1>1
    <2>2. by \in Int
      OBVIOUS
    <2> QED
      BY <2>1, <2>2 DEF LookupSource
  <1>3. /\ ent \in LookupSource /\ ent.open = lookups[instance].open
        /\ ent.count = lookups[instance].count + by
    BY <1>2 DEF LookupSource
  <1>4. lookups' = [lookups EXCEPT ![instance] = ent]
    OBVIOUS
  <1> HIDE DEF ent
  <1> QED
    BY <1>1, <1>3, <1>4, SourceStep

LEMMA AttachStep ==
    ASSUME TableInv, NEW r \in TableRules, Attach(r)
    PROVE  TableInv'
  <1>1. /\ attached[r] = 0 /\ instance # 0
        /\ attached' = [attached EXCEPT ![r] = instance]
        /\ lookups' = [lookups EXCEPT ![instance].count = @ + 1]
        /\ UNCHANGED <<instance, stored, tableCalls, restarts, overwritten, mishap, crossed>>
    BY DEF Attach
  <1>2. /\ lookups' \in Seq(LookupSource) /\ Len(lookups') = Len(lookups)
        /\ DOMAIN lookups' = DOMAIN lookups
        /\ lookups'[instance].count = lookups[instance].count + 1
        /\ \A i \in DOMAIN lookups : lookups'[i].open = lookups[i].open
    BY <1>1, CountStep
  <1>3. /\ attached \in [TableRules -> 0..Len(lookups)] /\ instance \in 0..Len(lookups)
        /\ Len(lookups) \in Nat /\ lookups \in Seq(LookupSource)
    BY DEF TableInv, TableTypeOK
  <1>4. attached' \in [TableRules -> 0..Len(lookups')]
    BY <1>1, <1>2, <1>3
  <1>5. instance' # 0 => lookups'[instance'].open
    BY <1>1, <1>2, <1>3 DEF TableInv, TableTypeOK
  <1>6. TableTypeOK'
    BY <1>1, <1>2, <1>4, <1>5 DEF TableInv, TableTypeOK
  <1>7. InstanceInv'
    <2> SUFFICES ASSUME ~overwritten
                 PROVE  InstanceInv'
      BY <1>1 DEF InstanceInv
    <2>1. \A q \in TableRules : attached'[q] # 0 => attached'[q] = instance'
      BY <1>1, <1>3 DEF TableInv, InstanceInv
    <2>2. \A i \in DOMAIN lookups' : lookups'[i].open => i = instance'
      BY <1>1, <1>2 DEF TableInv, InstanceInv
    <2>3. UsersOf(instance)' = UsersOf(instance) \cup {r} /\ r \notin UsersOf(instance)
      BY <1>1, <1>3 DEF UsersOf
    <2>4. IsFiniteSet(UsersOf(instance))
      BY TableAssumption, FS_Subset DEF UsersOf
    <2>5. Cardinality(UsersOf(instance)') = Cardinality(UsersOf(instance)) + 1
      BY <2>3, <2>4, FS_AddElement
    <2>6. lookups[instance].count = Cardinality(UsersOf(instance))
      BY <1>1 DEF TableInv, InstanceInv
    <2>7. lookups'[instance'].count = Cardinality(UsersOf(instance)')
      BY <1>1, <1>2, <2>5, <2>6
    <2> QED
      BY <2>1, <2>2, <2>7 DEF InstanceInv
  <1>8. HandlerInv'
    BY <1>1 DEF TableInv, HandlerInv, Halfway
  <1>9. \A d \in TableCallers : tableCalls'[d].made <= Len(lookups')
    BY <1>1, <1>2 DEF TableInv
  <1> QED
    BY <1>6, <1>7, <1>8, <1>9 DEF TableInv

LEMMA DetachStep ==
    ASSUME TableInv, NEW r \in TableRules, Detach(r)
    PROVE  TableInv'
  <1>1. /\ attached[r] # 0
        /\ attached' = [attached EXCEPT ![r] = 0]
        /\ lookups' = IF instance = 0 THEN lookups
                      ELSE [lookups EXCEPT ![instance].count = @ - 1]
        /\ UNCHANGED <<instance, stored, tableCalls, restarts, overwritten, mishap, crossed>>
    BY DEF Detach
  <1>2. /\ attached \in [TableRules -> 0..Len(lookups)] /\ instance \in 0..Len(lookups)
        /\ Len(lookups) \in Nat /\ lookups \in Seq(LookupSource)
    BY DEF TableInv, TableTypeOK
  <1>3. /\ lookups' \in Seq(LookupSource) /\ Len(lookups') = Len(lookups)
        /\ DOMAIN lookups' = DOMAIN lookups
        /\ instance # 0 => lookups'[instance].count = lookups[instance].count - 1
        /\ \A i \in DOMAIN lookups : lookups'[i].open = lookups[i].open
    <2>1. CASE instance = 0
      BY <1>1, <1>2, <2>1
    <2>2. CASE instance # 0
      <3>1. instance \in DOMAIN lookups /\ lookups[instance].count \in Int
        <4>1. instance \in DOMAIN lookups
          BY <1>2, <2>2
        <4>2. lookups[instance] \in LookupSource
          BY <1>2, <4>1
        <4> QED
          BY <4>1, <4>2 DEF LookupSource
      <3>2. lookups[instance].count - 1 = lookups[instance].count + (-1)
        BY <3>1
      <3>3. lookups' = [lookups EXCEPT ![instance].count = @ + (-1)]
        BY <1>1, <2>2, <3>2
      <3> QED
        BY <2>2, <3>2, <3>3, CountStep
    <2> QED
      BY <2>1, <2>2
  <1>4. attached' \in [TableRules -> 0..Len(lookups')]
    BY <1>1, <1>2, <1>3
  <1>5. instance' # 0 => lookups'[instance'].open
    BY <1>1, <1>2, <1>3 DEF TableInv, TableTypeOK
  <1>6. TableTypeOK'
    BY <1>1, <1>3, <1>4, <1>5 DEF TableInv, TableTypeOK
  <1>7. InstanceInv'
    <2> SUFFICES ASSUME ~overwritten
                 PROVE  InstanceInv'
      BY <1>1 DEF InstanceInv
    <2>1. \A q \in TableRules : attached'[q] # 0 => attached'[q] = instance'
      BY <1>1, <1>2 DEF TableInv, InstanceInv
    <2>2. \A i \in DOMAIN lookups' : lookups'[i].open => i = instance'
      BY <1>1, <1>3 DEF TableInv, InstanceInv
    <2>3. attached[r] = instance /\ instance # 0
      BY <1>1 DEF TableInv, InstanceInv
    <2>4. UsersOf(instance)' = UsersOf(instance) \ {r} /\ r \in UsersOf(instance)
      BY <1>1, <1>2, <2>3 DEF UsersOf
    <2>5. IsFiniteSet(UsersOf(instance))
      BY TableAssumption, FS_Subset DEF UsersOf
    <2>6. Cardinality(UsersOf(instance)') = Cardinality(UsersOf(instance)) - 1
      BY <2>4, <2>5, FS_RemoveElement
    <2>7. lookups[instance].count = Cardinality(UsersOf(instance))
      BY <2>3 DEF TableInv, InstanceInv
    <2>8. lookups'[instance'].count = Cardinality(UsersOf(instance)')
      BY <1>1, <1>3, <2>3, <2>6, <2>7
    <2> QED
      BY <2>1, <2>2, <2>8 DEF InstanceInv
  <1>8. HandlerInv'
    BY <1>1 DEF TableInv, HandlerInv, Halfway
  <1>9. \A d \in TableCallers : tableCalls'[d].made <= Len(lookups')
    BY <1>1, <1>3 DEF TableInv
  <1> QED
    BY <1>6, <1>7, <1>8, <1>9 DEF TableInv

LEMMA RestartServerStep ==
    ASSUME TableInv, RestartServer
    PROVE  TableInv'
  <1> DEFINE shut(i) == [lookups[i] EXCEPT !.open = FALSE]
             gone == [i \in DOMAIN lookups |-> shut(i)]
             fresh == [open |-> TRUE, count |-> 0]
             n == Len(lookups)
  <1>1. lookups \in Seq(LookupSource) /\ n \in Nat /\ stored \in 0..n
    BY DEF TableInv, TableTypeOK
  <1>2. /\ attached' = [r \in TableRules |-> 0]
        /\ tableCalls' = [d \in TableCallers |-> IdleCall]
        /\ overwritten' = FALSE /\ crossed' = FALSE
        /\ \/ /\ stored # 0 /\ n < MaxLookups
              /\ lookups' = Append(gone, fresh)
              /\ instance' = Len(lookups') /\ stored' = instance' /\ mishap' = FALSE
           \/ /\ lookups' = gone /\ instance' = 0
              /\ mishap' = (stored # 0) /\ stored' = stored
    BY DEF RestartServer
  <1>3. restarts' \in 0..MaxRestarts
    BY TableAssumption DEF RestartServer, TableInv, TableTypeOK
  <1>4. ASSUME NEW i \in DOMAIN lookups
        PROVE  shut(i) \in LookupSource /\ ~shut(i).open
    <2>1. lookups[i] \in LookupSource
      BY <1>1
    <2> QED
      BY <2>1 DEF LookupSource
  <1>5. fresh \in LookupSource /\ fresh.open /\ fresh.count = 0
    BY DEF LookupSource
  <1> HIDE DEF shut, fresh
  <1>6. /\ gone \in Seq(LookupSource) /\ Len(gone) = n /\ DOMAIN gone = 1..n
        /\ \A i \in 1..n : ~gone[i].open
    <2>1. DOMAIN lookups = 1..n
      BY <1>1
    <2> HIDE DEF n
    <2>2. gone \in [1..n -> LookupSource]
      BY <1>4, <2>1
    <2> QED
      BY <1>1, <1>4, <2>1, <2>2
  <1> HIDE DEF gone
  <1>7. \A d \in TableCallers : tableCalls'[d].at = "idle" /\ tableCalls'[d].made = 0
    BY <1>2 DEF IdleCall
  <1>8. tableCalls' \in [TableCallers -> TableCall]
    <2>1. IdleCall \in TableCall
      BY DEF IdleCall, TableCall, TableOps
    <2> QED
      BY <1>2, <2>1
  <1>9. CASE /\ stored # 0 /\ n < MaxLookups
             /\ lookups' = Append(gone, fresh)
             /\ instance' = Len(lookups') /\ stored' = instance' /\ mishap' = FALSE
    <2>1. /\ lookups' \in Seq(LookupSource) /\ Len(lookups') = n + 1
          /\ DOMAIN lookups' = 1..(n + 1)
          /\ lookups'[n + 1] = fresh /\ \A i \in 1..n : ~lookups'[i].open
      <3>1. lookups' = Append(gone, fresh)
        BY <1>9
      <3> HIDE DEF n
      <3>2. /\ Append(gone, fresh) \in Seq(LookupSource)
            /\ Len(Append(gone, fresh)) = n + 1
            /\ DOMAIN Append(gone, fresh) = 1..(n + 1)
            /\ Append(gone, fresh)[n + 1] = fresh
            /\ \A i \in 1..n : Append(gone, fresh)[i] = gone[i]
        BY <1>1, <1>5, <1>6
      <3>3. \A i \in 1..n : ~Append(gone, fresh)[i].open
        BY <1>6, <3>2
      <3> QED
        BY <3>1, <3>2, <3>3
    <2> HIDE DEF n
    <2>2. instance' = n + 1 /\ stored' = n + 1
      BY <1>9, <2>1
    <2>3. TableTypeOK'
      <3>1. attached' \in [TableRules -> 0..Len(lookups')]
        BY <1>1, <1>2, <2>1
      <3>2. Len(lookups') <= MaxLookups
        BY <1>1, <1>9, <2>1, TableAssumption
      <3>3. {instance', stored'} \subseteq 0..Len(lookups') /\ lookups'[instance'].open
        BY <1>1, <1>5, <2>1, <2>2
      <3> QED
        BY <1>2, <1>3, <1>8, <1>9, <2>1, <3>1, <3>2, <3>3 DEF TableTypeOK
    <2>4. InstanceInv'
      <3>1. UsersOf(instance)' = {}
        BY <1>1, <1>2, <2>2 DEF UsersOf
      <3>2. Cardinality(UsersOf(instance)') = 0
        BY <3>1, FS_EmptySet
      <3>3. lookups'[instance'].count = 0
        BY <1>5, <2>1, <2>2
      <3>4. \A i \in DOMAIN lookups' : lookups'[i].open => i = instance'
        BY <1>1, <2>1, <2>2
      <3> QED
        BY <1>2, <3>2, <3>3, <3>4 DEF InstanceInv
    <2>5. HandlerInv'
      BY <1>7, <1>9 DEF HandlerInv, Halfway
    <2>6. \A d \in TableCallers : tableCalls'[d].made <= Len(lookups')
      BY <1>1, <1>7, <2>1
    <2> QED
      BY <2>3, <2>4, <2>5, <2>6 DEF TableInv
  <1>10. CASE /\ lookups' = gone /\ instance' = 0
              /\ mishap' = (stored # 0) /\ stored' = stored
    <2> HIDE DEF n
    <2>1. TableTypeOK'
      <3>1. attached' \in [TableRules -> 0..Len(lookups')]
        BY <1>1, <1>2, <1>6, <1>10
      <3>2. Len(lookups') <= MaxLookups
        BY <1>6, <1>10 DEF TableInv, TableTypeOK, n
      <3>3. {instance', stored'} \subseteq 0..Len(lookups') /\ mishap' \in BOOLEAN
        BY <1>1, <1>6, <1>10
      <3> QED
        BY <1>2, <1>3, <1>6, <1>8, <1>10, <3>1, <3>2, <3>3 DEF TableTypeOK
    <2>2. InstanceInv'
      BY <1>2, <1>6, <1>10 DEF InstanceInv
    <2>3. HandlerInv'
      BY <1>7, <1>10 DEF HandlerInv, Halfway
    <2>4. \A d \in TableCallers : tableCalls'[d].made <= Len(lookups')
      BY <1>1, <1>6, <1>7, <1>10
    <2> QED
      BY <2>1, <2>2, <2>3, <2>4 DEF TableInv
  <1> HIDE DEF n
  <1> QED
    BY <1>2, <1>9, <1>10 DEF n

LEMMA TableInvNext == TableInv /\ [TableNext]_tableVars => TableInv'
  <1> SUFFICES ASSUME TableInv, [TableNext]_tableVars
               PROVE  TableInv'
    OBVIOUS
  <1>1. CASE UNCHANGED tableVars
    <2>1. /\ lookups' = lookups /\ instance' = instance /\ stored' = stored
          /\ attached' = attached /\ tableCalls' = tableCalls /\ restarts' = restarts
          /\ overwritten' = overwritten /\ mishap' = mishap /\ crossed' = crossed
      BY <1>1 DEF tableVars
    <2>2. TableTypeOK'
      BY <2>1 DEF TableInv, TableTypeOK
    <2>3. InstanceInv' /\ HandlerInv'
      BY <2>1 DEF TableInv, InstanceInv, HandlerInv, UsersOf, Halfway
    <2> QED
      BY <2>1, <2>2, <2>3 DEF TableInv
  <1>2. ASSUME NEW c \in TableCallers, TableHandler(c)
        PROVE  TableInv'
    BY <1>2, KeepInstanceStep, TakeInstanceStep, CreateInstanceStep, OtherHandlerSteps
       DEF TableHandler, DropInstance
  <1>3. ASSUME NEW c \in TableCallers, NEW op \in TableOps, CallTable(c, op)
        PROVE  TableInv'
    BY <1>3, CallTableStep
  <1>4. ASSUME NEW r \in TableRules, Attach(r) \/ Detach(r)
        PROVE  TableInv'
    BY <1>4, AttachStep, DetachStep
  <1>5. CASE RestartServer
    BY <1>5, RestartServerStep
  <1> QED
    BY <1>1, <1>2, <1>3, <1>4, <1>5 DEF TableNext

LEMMA TableInvSound == TableInv => TablesSound
  <1> SUFFICES ASSUME TableInv
               PROVE  TablesSound
    OBVIOUS
  <1>1. TableTypeOK /\ InstanceInv /\ HandlerInv
    BY DEF TableInv
  <1>2. CountIsUsers
    BY <1>1 DEF CountIsUsers, InstanceInv, UsersOf
  <1>3. UsedIsOpen
    <2> SUFFICES ASSUME ~overwritten, NEW r \in TableRules, attached[r] # 0
                 PROVE  lookups[attached[r]].open
      BY DEF UsedIsOpen
    <2>1. attached[r] = instance
      BY <1>1 DEF InstanceInv
    <2> QED
      BY <1>1, <2>1 DEF TableTypeOK
  <1>4. OthersAreClosed
    BY <1>1 DEF OthersAreClosed, InstanceInv
  <1>5. StoredRuns
    BY <1>1 DEF StoredRuns, HandlerInv, Halfway
  <1> QED
    BY <1>1, <1>2, <1>3, <1>4, <1>5 DEF TablesSound

\* As long as no instance in use is overwritten, the instance of a lookup table
\* counts its users and is open for them, and every other source is closed; if
\* also no call failed halfway and none changed the table between the two halves
\* of another, what is stored is what runs once the handlers are done, for any number
\* of rules, handlers and restarts (table.go:31-117, stream.go:200-230, 610-650).
THEOREM TablesAreSound == TableSpec => []TablesSound
  <1>1. TableSpec => []TableInv
    BY TableInvInit, TableInvNext, PTL DEF TableSpec
  <1> QED
    BY <1>1, TableInvSound, PTL
-----------------------------------------------------------------------------
(* The process of a plugin                                                 *)

\* The process of the instance is the one started last, and none while another
\* is being started; it is connected, and its waiter has not given it up.
LatestInv ==
    /\ process \in {0, Latest}
    /\ pmHolder # Nobody =>
          /\ process = 0 /\ Latest # 0
          /\ processes[Latest].waiter \in {"wait", "seen"}
    /\ \A p \in 1..Latest : processes[p].waiter # "wait" => ~processes[p].alive
    /\ process # 0 => processes[process].shook /\ processes[process].waiter # "done"
    /\ \A u \in Starters : users[u].pc = "shaken" => processes[Latest].shook

\* Only the process started last is alive, and it is not forgotten while it is.
AloneInv ==
    ~overtaken =>
        /\ \A p \in 1..Latest : processes[p].alive => p = Latest
        /\ process = 0 /\ pmHolder = Nobody => \A p \in 1..Latest : ~processes[p].alive
        /\ \A p \in 1..Latest : processes[p].waiter = "clear" => process = p

\* The process of the instance, while it is alive, has the symbol of r.
HasSymbol(r) == process # 0 /\ processes[process].alive => r \in processes[process].symbols

SymbolInv ==
    ~overtaken => \A r \in PluginRules : ~users[r].late =>
        /\ users[r].pc = "sent" => HasSymbol(r)
        /\ users[r].pc = "runs" => r \in commands /\ (r \notin restores => HasSymbol(r))

PluginInv == PluginTypeOK /\ LatestInv /\ AloneInv /\ SymbolInv

LEMMA PluginInvInit == PluginInit => PluginInv
  <1> SUFFICES ASSUME PluginInit
               PROVE  PluginInv
    OBVIOUS
  <1>1. /\ processes = << >> /\ processes \in Seq(PluginProc) /\ Len(processes) = 0
        /\ Latest = 0 /\ process = 0 /\ 1..Latest = {}
    BY DEF PluginInit, Latest
  <1>2. \A u \in Starters : users[u].pc = "idle" /\ u # Nobody
    BY PluginAssumption DEF PluginInit, Starters
  <1>3. users \in [Starters -> User]
    BY DEF PluginInit, User
  <1>4. PluginTypeOK
    <2>1. uses \in 0..MaxUses /\ kills \in 0..MaxKills /\ Len(processes) <= MaxProcesses
      BY <1>1, PluginAssumption DEF PluginInit
    <2>2. \A u \in Starters : (pmHolder = u) = (users[u].pc \in {"shake", "shaken"})
      BY <1>2 DEF PluginInit
    <2>3. /\ process \in 0..Len(processes) /\ pmHolder \in Starters \cup {Nobody}
          /\ pluginStatus \in {"initializing", "running", "error", "stop"}
          /\ commands \in SUBSET PluginRules /\ restores \in SUBSET PluginRules
          /\ overtaken \in BOOLEAN
      <3>1. process \in 0..Len(processes)
        BY <1>1
      <3>2. pmHolder = Nobody /\ pluginStatus = "initializing" /\ commands = {}
            /\ restores = {} /\ overtaken = FALSE
        BY DEF PluginInit
      <3> QED
        BY <3>1, <3>2
    <2> QED
      BY <1>1, <1>3, <2>1, <2>2, <2>3 DEF PluginTypeOK
  <1>5. LatestInv
    BY <1>1, <1>2 DEF LatestInv, PluginInit
  <1>6. AloneInv
    BY <1>1 DEF AloneInv
  <1>7. SymbolInv
    <2>1. PluginRules \subseteq Starters
      BY DEF Starters
    <2> QED
      BY <1>2, <2>1 DEF SymbolInv
  <1> QED
    BY <1>4, <1>5, <1>6, <1>7 DEF PluginInv

\* One process changes, the others stay as they are.
LEMMA ProcStep ==
    ASSUME processes \in Seq(PluginProc), NEW p \in 1..Latest, NEW q \in PluginProc,
           processes' = [processes EXCEPT ![p] = q]
    PROVE  /\ processes' \in Seq(PluginProc) /\ Len(processes') = Len(processes)
           /\ Latest' = Latest /\ processes'[p] = q
           /\ \A o \in 1..Latest : o # p => processes'[o] = processes[o]
  BY DEF Latest

\* A user goes on.
LEMMA GoOnFields ==
    ASSUME users \in [Starters -> User], NEW u \in Starters,
           NEW at \in {"idle", "start", "shake", "shaken", "has", "sent", "runs", "stopped"},
           GoOn(u, at)
    PROVE  \E to \in User : /\ users' = [users EXCEPT ![u] = to]
                            /\ to.pc = at /\ to.late = users[u].late
  <1> DEFINE to == [users[u] EXCEPT !.pc = at]
  <1>1. users[u] \in User
    OBVIOUS
  <1>2. to \in User /\ to.pc = at /\ to.late = users[u].late
    BY <1>1 DEF User
  <1>3. users' = [users EXCEPT ![u] = to]
    BY DEF GoOn
  <1> HIDE DEF to
  <1> QED
    BY <1>2, <1>3

\* A step that leaves the life of the processes alone, by a user who neither
\* takes nor gives back the lock of the manager.
LEMMA OrdinaryStep ==
    ASSUME PluginInv, NEW u \in Starters, NEW to \in User,
           users' = [users EXCEPT ![u] = to],
           \/ to.pc = users[u].pc
           \/ users[u].pc \notin {"shake", "shaken"} /\ to.pc \notin {"shake", "shaken"},
           processes' \in Seq(PluginProc), Len(processes') = Len(processes),
           \A p \in 1..Latest : /\ processes'[p].alive = processes[p].alive
                                /\ processes'[p].shook = processes[p].shook
                                /\ processes'[p].waiter = processes[p].waiter,
           UNCHANGED <<process, pmHolder, kills, overtaken>>,
           pluginStatus' \in {"initializing", "running", "error", "stop"},
           commands' \in SUBSET PluginRules, restores' \in SUBSET PluginRules,
           uses' \in 0..MaxUses,
           \A r \in PluginRules : r # u =>
               /\ r \in commands => r \in commands'
               /\ ~overtaken /\ r \in restores /\ r \notin restores' => HasSymbol(r)'
               /\ ~overtaken /\ HasSymbol(r) => HasSymbol(r)',
           ~overtaken /\ u \in PluginRules /\ ~to.late =>
               /\ to.pc = "sent" => HasSymbol(u)'
               /\ to.pc = "runs" => u \in commands' /\ (u \notin restores' => HasSymbol(u)')
    PROVE  PluginInv'
  <1>1. Latest' = Latest /\ Latest \in Nat
    BY DEF Latest, PluginInv, PluginTypeOK
  <1>2. /\ users' \in [Starters -> User] /\ users'[u] = to
        /\ \A v \in Starters : v # u => users'[v] = users[v]
    BY DEF PluginInv, PluginTypeOK
  <1>3. \A v \in Starters : (users'[v].pc \in {"shake", "shaken"}) = (users[v].pc \in {"shake", "shaken"})
    BY <1>2
  <1>4. \A v \in Starters : (pmHolder' = v) = (users'[v].pc \in {"shake", "shaken"})
    BY <1>3 DEF PluginInv, PluginTypeOK
  <1>5. PluginTypeOK'
    BY <1>2, <1>4 DEF PluginInv, PluginTypeOK
  <1>6. LatestInv'
    <2>1. /\ process' \in {0, Latest'}
          /\ pmHolder' # Nobody =>
                /\ process' = 0 /\ Latest' # 0
                /\ processes'[Latest'].waiter \in {"wait", "seen"}
      BY <1>1 DEF PluginInv, LatestInv
    <2>2. \A p \in 1..Latest' : processes'[p].waiter # "wait" => ~processes'[p].alive
      BY <1>1 DEF PluginInv, LatestInv
    <2>3. process' # 0 => processes'[process'].shook /\ processes'[process'].waiter # "done"
      BY <1>1 DEF PluginInv, LatestInv
    <2>4. \A v \in Starters : users'[v].pc = "shaken" => processes'[Latest'].shook
      <3> SUFFICES ASSUME NEW v \in Starters, users'[v].pc = "shaken"
                   PROVE  processes'[Latest'].shook
        OBVIOUS
      <3>1. users[v].pc = "shaken"
        BY <1>2
      <3>2. pmHolder = v /\ v # Nobody
        BY <3>1, PluginAssumption DEF PluginInv, PluginTypeOK, Starters
      <3>3. Latest # 0 /\ processes[Latest].shook
        BY <3>1, <3>2 DEF PluginInv, LatestInv
      <3> QED
        BY <1>1, <3>3
    <2> QED
      BY <2>1, <2>2, <2>3, <2>4 DEF LatestInv
  <1>7. AloneInv'
    BY <1>1 DEF PluginInv, AloneInv
  <1>8. SymbolInv'
    <2> SUFFICES ASSUME ~overtaken, NEW r \in PluginRules, ~users'[r].late
                 PROVE  /\ users'[r].pc = "sent" => HasSymbol(r)'
                        /\ users'[r].pc = "runs" =>
                              r \in commands' /\ (r \notin restores' => HasSymbol(r)')
      BY DEF SymbolInv
    <2>1. r \in Starters
      BY DEF Starters
    <2>2. CASE r = u
      BY <2>2, <1>2
    <2>3. CASE r # u
      <3>1. users'[r] = users[r]
        BY <2>1, <2>3, <1>2
      <3>2. /\ users[r].pc = "sent" => HasSymbol(r)
            /\ users[r].pc = "runs" => r \in commands /\ (r \notin restores => HasSymbol(r))
        BY <3>1 DEF PluginInv, SymbolInv
      <3> HIDE DEF HasSymbol
      <3> QED
        BY <2>3, <3>1, <3>2
    <2> QED
      BY <2>2, <2>3
  <1> QED
    BY <1>5, <1>6, <1>7, <1>8 DEF PluginInv

\* Nobody is no user, and a rule is one.
LEMMA StartersAre == Nobody \notin Starters /\ PluginRules \subseteq Starters
  BY PluginAssumption DEF Starters

\* The steps that touch no process.
LEMMA QuietSteps ==
    ASSUME PluginInv, NEW u \in Starters,
           \/ Use(u) \/ FindProcess(u) \/ StartFails(u)
           \/ u \in PluginRules /\ (\/ SendStartFails(u) \/ RecordStart(u) \/ SendStopFails(u)
                                   \/ RecordStop(u))
    PROVE  PluginInv'
  <1>1. /\ processes \in Seq(PluginProc) /\ users \in [Starters -> User]
        /\ pluginStatus \in {"initializing", "running", "error", "stop"}
        /\ commands \in SUBSET PluginRules /\ restores \in SUBSET PluginRules
        /\ uses \in 0..MaxUses
    BY DEF PluginInv, PluginTypeOK
  <1>2. SUFFICES
          /\ processes' = processes /\ process' = process /\ restores' = restores
          /\ UNCHANGED <<pmHolder, kills, overtaken>>
          /\ users[u].pc \notin {"shake", "shaken"}
          /\ pluginStatus' \in {"initializing", "running", "error", "stop"}
          /\ commands' \in SUBSET PluginRules /\ commands \ {u} \subseteq commands'
          /\ uses' \in 0..MaxUses
          /\ \E to \in User :
                /\ users' = [users EXCEPT ![u] = to]
                /\ to.pc \notin {"shake", "shaken", "sent"}
                /\ to.pc = "runs" => /\ users[u].pc = "sent" /\ to.late = users[u].late
                                     /\ u \in commands' /\ u \in PluginRules
    <2>1. PICK to \in User :
             /\ users' = [users EXCEPT ![u] = to]
             /\ to.pc \notin {"shake", "shaken", "sent"}
             /\ to.pc = "runs" => /\ users[u].pc = "sent" /\ to.late = users[u].late
                                  /\ u \in commands' /\ u \in PluginRules
      BY <1>2
    <2>2. \A r \in PluginRules : HasSymbol(r)' = HasSymbol(r)
      BY <1>2 DEF HasSymbol
    <2>3. \A r \in PluginRules : r # u =>
             /\ r \in commands => r \in commands'
             /\ ~overtaken /\ r \in restores /\ r \notin restores' => HasSymbol(r)'
             /\ ~overtaken /\ HasSymbol(r) => HasSymbol(r)'
      <3> HIDE DEF HasSymbol
      <3> QED
        BY <1>2, <2>2
    <2>4. ~overtaken /\ u \in PluginRules /\ ~to.late =>
             /\ to.pc = "sent" => HasSymbol(u)'
             /\ to.pc = "runs" => u \in commands' /\ (u \notin restores' => HasSymbol(u)')
      <3> SUFFICES ASSUME ~overtaken, u \in PluginRules, ~to.late, to.pc = "runs"
                   PROVE  u \in commands' /\ HasSymbol(u)'
        BY <2>1
      <3>1. users[u].pc = "sent" /\ ~users[u].late /\ u \in commands'
        BY <2>1
      <3>2. HasSymbol(u)
        BY <3>1 DEF PluginInv, SymbolInv
      <3> QED
        BY <2>2, <3>1, <3>2
    <2>5. to.pc \notin {"shake", "shaken"}
      BY <2>1
    <2>6. /\ processes' \in Seq(PluginProc) /\ Len(processes') = Len(processes)
          /\ \A p \in 1..Latest : /\ processes'[p].alive = processes[p].alive
                                  /\ processes'[p].shook = processes[p].shook
                                  /\ processes'[p].waiter = processes[p].waiter
      BY <1>1, <1>2
    <2>7. restores' \in SUBSET PluginRules
      BY <1>1, <1>2
    <2> HIDE DEF HasSymbol
    <2> QED
      BY <1>2, <2>1, <2>3, <2>4, <2>5, <2>6, <2>7, OrdinaryStep
  <1>3. CASE Use(u)
    <2> DEFINE to == [pc |-> "start", late |-> FALSE]
    <2>1. to \in User /\ to.pc = "start"
      BY DEF User
    <2>2. users[u].pc = "idle" /\ uses' \in 0..MaxUses /\ users' = [users EXCEPT ![u] = to]
      BY <1>1, <1>3, PluginAssumption DEF Use
    <2> HIDE DEF to
    <2> QED
      BY <1>1, <1>3, <2>1, <2>2 DEF Use
  <1>4. ASSUME NEW at \in {"idle", "has", "runs"}, GoOn(u, at),
               users[u].pc \notin {"shake", "shaken"},
               processes' = processes, process' = process, restores' = restores,
               UNCHANGED <<pmHolder, kills, overtaken>>,
               pluginStatus' \in {"error", pluginStatus}, uses' = uses,
               commands' \in SUBSET PluginRules, commands \ {u} \subseteq commands',
               at = "runs" => users[u].pc = "sent" /\ u \in commands' /\ u \in PluginRules
        PROVE  /\ processes' = processes /\ process' = process /\ restores' = restores
               /\ UNCHANGED <<pmHolder, kills, overtaken>>
               /\ users[u].pc \notin {"shake", "shaken"}
               /\ pluginStatus' \in {"initializing", "running", "error", "stop"}
               /\ commands' \in SUBSET PluginRules /\ commands \ {u} \subseteq commands'
               /\ uses' \in 0..MaxUses
               /\ \E to \in User :
                     /\ users' = [users EXCEPT ![u] = to]
                     /\ to.pc \notin {"shake", "shaken", "sent"}
                     /\ to.pc = "runs" => /\ users[u].pc = "sent" /\ to.late = users[u].late
                                          /\ u \in commands' /\ u \in PluginRules
    <2>1. PICK to \in User :
             users' = [users EXCEPT ![u] = to] /\ to.pc = at /\ to.late = users[u].late
      BY <1>1, <1>4, GoOnFields
    <2>2. \E t \in User :
             /\ users' = [users EXCEPT ![u] = t]
             /\ t.pc \notin {"shake", "shaken", "sent"}
             /\ t.pc = "runs" => /\ users[u].pc = "sent" /\ t.late = users[u].late
                                 /\ u \in commands' /\ u \in PluginRules
      BY <1>4, <2>1
    <2> QED
      BY <1>1, <1>4, <2>2
  <1>5. CASE FindProcess(u)
    <2>1. PICK at \in {"idle", "has"} : GoOn(u, at)
      BY <1>5 DEF FindProcess, HasInstance
    <2> QED
      BY <1>1, <1>4, <1>5, <2>1 DEF FindProcess
  <1>6. CASE StartFails(u)
    BY <1>1, <1>4, <1>6 DEF StartFails
  <1>7. CASE u \in PluginRules /\ SendStartFails(u)
    BY <1>1, <1>4, <1>7 DEF SendStartFails
  <1>8. CASE u \in PluginRules /\ RecordStart(u)
    BY <1>1, <1>4, <1>8 DEF RecordStart
  <1>9. CASE u \in PluginRules /\ SendStopFails(u)
    BY <1>1, <1>4, <1>9 DEF SendStopFails
  <1>10. CASE u \in PluginRules /\ RecordStop(u)
    BY <1>1, <1>4, <1>10 DEF RecordStop
  <1> QED
    BY <1>3, <1>5, <1>6, <1>7, <1>8, <1>9, <1>10

\* A command changes the symbols of one connected process, and nothing else of it.
LEMMA TellFields ==
    ASSUME PluginInv, NEW r \in PluginRules, NEW start \in BOOLEAN, Tell(r, start)
    PROVE  /\ processes' \in Seq(PluginProc) /\ Len(processes') = Len(processes)
           /\ \A o \in 1..Latest : /\ processes'[o].alive = processes[o].alive
                                   /\ processes'[o].shook = processes[o].shook
                                   /\ processes'[o].waiter = processes[o].waiter
                                   /\ \A s \in PluginRules : s # r =>
                                         (s \in processes'[o].symbols <=> s \in processes[o].symbols)
                                   /\ start /\ r \in processes[o].symbols => r \in processes'[o].symbols
           /\ ~overtaken /\ start => r \in processes'[Latest].symbols
  <1>1. processes \in Seq(PluginProc) /\ Latest \in Nat
    BY DEF PluginInv, PluginTypeOK, Latest
  <1>2. PICK p \in Connected :
           processes' = [processes EXCEPT ![p].symbols = IF start THEN @ \cup {r} ELSE @ \ {r}]
    BY DEF Tell
  <1> DEFINE S == IF start THEN processes[p].symbols \cup {r} ELSE processes[p].symbols \ {r}
             q == [processes[p] EXCEPT !.symbols = S]
  <1>3. p \in 1..Latest /\ processes[p].alive /\ processes[p] \in PluginProc
    <2>1. p \in 1..Latest /\ processes[p].alive
      BY DEF Connected
    <2> QED
      BY <1>1, <2>1 DEF Latest
  <1>4. S \in SUBSET PluginRules
    BY <1>3 DEF PluginProc
  <1>5. processes' = [processes EXCEPT ![p] = q]
    BY <1>2
  <1>6. /\ start => S = processes[p].symbols \cup {r}
        /\ \A s \in PluginRules : s # r => (s \in S <=> s \in processes[p].symbols)
    OBVIOUS
  <1> HIDE DEF S
  <1>7. /\ q \in PluginProc /\ q.alive = processes[p].alive /\ q.shook = processes[p].shook
        /\ q.waiter = processes[p].waiter /\ q.symbols = S
    BY <1>3, <1>4 DEF PluginProc
  <1> HIDE DEF q
  <1>8. /\ processes' \in Seq(PluginProc) /\ Len(processes') = Len(processes)
        /\ processes'[p] = q
        /\ \A o \in 1..Latest : o # p => processes'[o] = processes[o]
    BY <1>1, <1>3, <1>5, <1>7, ProcStep
  <1>9. ~overtaken => p = Latest
    BY <1>3 DEF PluginInv, AloneInv
  <1>10. ASSUME NEW o \in 1..Latest
         PROVE  /\ processes'[o].alive = processes[o].alive
                /\ processes'[o].shook = processes[o].shook
                /\ processes'[o].waiter = processes[o].waiter
                /\ \A s \in PluginRules : s # r =>
                      (s \in processes'[o].symbols <=> s \in processes[o].symbols)
                /\ start /\ r \in processes[o].symbols => r \in processes'[o].symbols
    <2>1. CASE o = p
      BY <2>1, <1>6, <1>7, <1>8
    <2>2. CASE o # p
      BY <2>2, <1>8
    <2> QED
      BY <2>1, <2>2
  <1> QED
    BY <1>6, <1>7, <1>8, <1>9, <1>10

LEMMA SendSteps ==
    ASSUME PluginInv, NEW r \in PluginRules, SendStart(r) \/ SendStop(r)
    PROVE  PluginInv'
  <1>1. /\ users \in [Starters -> User] /\ r \in Starters /\ process \in {0, Latest}
        /\ Latest \in Nat
        /\ UNCHANGED <<process, pluginStatus, commands, restores, pmHolder, uses, kills, overtaken>>
    <2>1. users \in [Starters -> User] /\ Latest \in Nat
      BY DEF PluginInv, PluginTypeOK, Latest
    <2>2. r \in Starters
      BY StartersAre
    <2>3. process \in {0, Latest}
      BY DEF PluginInv, LatestInv
    <2>4. UNCHANGED <<process, pluginStatus, commands, restores, pmHolder, uses, kills, overtaken>>
      BY DEF SendStart, SendStop
    <2> QED
      BY <2>1, <2>2, <2>3, <2>4
  <1>2. PICK start \in BOOLEAN, at \in {"sent", "stopped"} :
           /\ Tell(r, start) /\ GoOn(r, at) /\ users[r].pc \in {"has", "runs"}
           /\ at = "sent" => start
    BY DEF SendStart, SendStop
  <1>3. PICK to \in User :
           users' = [users EXCEPT ![r] = to] /\ to.pc = at /\ to.late = users[r].late
    BY <1>1, <1>2, GoOnFields
  <1>4. /\ processes' \in Seq(PluginProc) /\ Len(processes') = Len(processes)
        /\ \A o \in 1..Latest : /\ processes'[o].alive = processes[o].alive
                                /\ processes'[o].shook = processes[o].shook
                                /\ processes'[o].waiter = processes[o].waiter
                                /\ \A s \in PluginRules : s # r =>
                                      (s \in processes'[o].symbols <=> s \in processes[o].symbols)
        /\ ~overtaken /\ start => r \in processes'[Latest].symbols
    BY <1>2, TellFields
  <1>5. ASSUME NEW s \in PluginRules, s # r, HasSymbol(s)
        PROVE  HasSymbol(s)'
    BY <1>1, <1>4, <1>5 DEF HasSymbol
  <1>6. ASSUME NEW s \in PluginRules, s # r
        PROVE  /\ s \in commands => s \in commands'
               /\ ~overtaken /\ s \in restores /\ s \notin restores' => HasSymbol(s)'
               /\ ~overtaken /\ HasSymbol(s) => HasSymbol(s)'
    BY <1>1, <1>5, <1>6
  <1>7. ~overtaken /\ to.pc = "sent" => HasSymbol(r)'
    BY <1>1, <1>2, <1>3, <1>4 DEF HasSymbol
  <1>8. /\ users[r].pc \notin {"shake", "shaken"} /\ to.pc \notin {"shake", "shaken", "runs"}
    BY <1>2, <1>3
  <1>9. /\ pluginStatus' \in {"initializing", "running", "error", "stop"}
        /\ commands' \in SUBSET PluginRules /\ restores' \in SUBSET PluginRules
        /\ uses' \in 0..MaxUses
        /\ UNCHANGED <<process, pmHolder, kills, overtaken>>
    BY <1>1 DEF PluginInv, PluginTypeOK
  <1>10. \A o \in 1..Latest : /\ processes'[o].alive = processes[o].alive
                              /\ processes'[o].shook = processes[o].shook
                              /\ processes'[o].waiter = processes[o].waiter
    BY <1>4
  <1>11. ~overtaken /\ r \in PluginRules /\ ~to.late =>
             /\ to.pc = "sent" => HasSymbol(r)'
             /\ to.pc = "runs" => r \in commands' /\ (r \notin restores' => HasSymbol(r)')
    BY <1>7, <1>8
  <1>12. to.pc \notin {"shake", "shaken"}
    BY <1>8
  <1> HIDE DEF HasSymbol
  <1> QED
    BY <1>1, <1>3, <1>4, <1>6, <1>8, <1>9, <1>10, <1>11, <1>12, OrdinaryStep

LEMMA RestoreStep ==
    ASSUME PluginInv, NEW r \in PluginRules, Restore(r)
    PROVE  PluginInv'
  <1>1. /\ users \in [Starters -> User] /\ Latest \in Nat /\ processes \in Seq(PluginProc)
        /\ restores' \in SUBSET PluginRules /\ uses \in 0..MaxUses
        /\ pluginStatus' \in {"initializing", "running", "error", "stop"}
        /\ commands \in SUBSET PluginRules
    <2>1. /\ users \in [Starters -> User] /\ Latest \in Nat /\ processes \in Seq(PluginProc)
          /\ uses \in 0..MaxUses /\ commands \in SUBSET PluginRules
          /\ restores \in SUBSET PluginRules
          /\ pluginStatus \in {"initializing", "running", "error", "stop"}
      BY DEF PluginInv, PluginTypeOK, Latest
    <2>2. pluginStatus' \in {"error", pluginStatus} /\ restores' = restores \ {r}
      BY DEF Restore
    <2> QED
      BY <2>1, <2>2
  <1>2. r \in Starters
    BY StartersAre
  <1>3. process \in {0, Latest} /\ (process # 0 => processes[process].shook)
    BY DEF PluginInv, LatestInv
  <1>4. /\ UNCHANGED <<process, commands, pmHolder, users, uses, kills, overtaken>>
        /\ restores' = restores \ {r}
        /\ Tell(r, TRUE) \/ (Connected = {} /\ processes' = processes)
    BY DEF Restore
  <1>5. /\ processes' \in Seq(PluginProc) /\ Len(processes') = Len(processes)
        /\ \A o \in 1..Latest : /\ processes'[o].alive = processes[o].alive
                                /\ processes'[o].shook = processes[o].shook
                                /\ processes'[o].waiter = processes[o].waiter
                                /\ \A s \in PluginRules : s # r =>
                                      (s \in processes'[o].symbols <=> s \in processes[o].symbols)
                                /\ r \in processes[o].symbols => r \in processes'[o].symbols
    BY <1>1, <1>4, TellFields
  <1>6. ~overtaken => HasSymbol(r)'
    <2>1. CASE Tell(r, TRUE)
      BY <1>1, <1>3, <1>4, <2>1, TellFields DEF HasSymbol
    <2>2. CASE Connected = {} /\ processes' = processes
      BY <1>1, <1>3, <1>4, <2>2 DEF HasSymbol, Connected
    <2> QED
      BY <1>4, <2>1, <2>2
  <1>7. ASSUME NEW s \in PluginRules, s # r, HasSymbol(s)
        PROVE  HasSymbol(s)'
    BY <1>1, <1>3, <1>4, <1>5, <1>7 DEF HasSymbol
  <1>8. ASSUME NEW s \in PluginRules, s # r
        PROVE  /\ s \in commands => s \in commands'
               /\ ~overtaken /\ s \in restores /\ s \notin restores' => HasSymbol(s)'
               /\ ~overtaken /\ HasSymbol(s) => HasSymbol(s)'
    BY <1>4, <1>7, <1>8
  <1>9. \A o \in 1..Latest : /\ processes'[o].alive = processes[o].alive
                             /\ processes'[o].shook = processes[o].shook
                             /\ processes'[o].waiter = processes[o].waiter
    BY <1>5
  <1>10. users[r] \in User /\ users' = [users EXCEPT ![r] = users[r]]
    BY <1>1, <1>2, <1>4
  <1>11. ~overtaken /\ r \in PluginRules /\ ~users[r].late =>
             /\ users[r].pc = "sent" => HasSymbol(r)'
             /\ users[r].pc = "runs" => r \in commands' /\ (r \notin restores' => HasSymbol(r)')
    BY <1>4, <1>6 DEF PluginInv, SymbolInv
  <1>12. /\ commands' \in SUBSET PluginRules /\ uses' \in 0..MaxUses
         /\ UNCHANGED <<process, pmHolder, kills, overtaken>>
    BY <1>1, <1>4
  <1> HIDE DEF HasSymbol
  <1> QED
    BY <1>1, <1>2, <1>5, <1>8, <1>9, <1>10, <1>11, <1>12, OrdinaryStep

\* A step that concerns the end of one process only.
LEMMA EndingStep ==
    ASSUME PluginInv, NEW p \in 1..Latest, NEW q \in PluginProc,
           processes' = [processes EXCEPT ![p] = q],
           q.alive => processes[p].alive,
           q.symbols = processes[p].symbols, q.shook = processes[p].shook,
           q.waiter # "wait" => ~q.alive,
           process' \in {process, 0}, process' = p => q.waiter # "done",
           pluginStatus' \in {"initializing", "running", "error", "stop"},
           UNCHANGED <<commands, restores, pmHolder, users, uses, kills, overtaken>>,
           pmHolder # Nobody /\ p = Latest => q.waiter \in {"wait", "seen"},
           ~overtaken =>
               /\ process' = 0 /\ pmHolder = Nobody => \A o \in 1..Latest : ~processes'[o].alive
               /\ \A o \in 1..Latest : processes'[o].waiter = "clear" => process' = o
    PROVE  PluginInv'
  <1>1. /\ processes \in Seq(PluginProc) /\ Latest \in Nat /\ process \in {0, Latest}
    BY DEF PluginInv, PluginTypeOK, Latest, LatestInv
  <1>2. /\ processes' \in Seq(PluginProc) /\ Len(processes') = Len(processes)
        /\ Latest' = Latest /\ processes'[p] = q
        /\ \A o \in 1..Latest : o # p => processes'[o] = processes[o]
    BY <1>1, ProcStep
  <1>3. process' \in 0..Len(processes')
    <2>1. process' \in {0, Latest}
      BY <1>1
    <2>2. process' \in 0..Latest
      BY <1>1, <2>1
    <2> QED
      BY <1>2, <2>2 DEF Latest
  <1>4. PluginTypeOK'
    BY <1>2, <1>3 DEF PluginInv, PluginTypeOK
  <1>5. \A o \in 1..Latest : processes'[o].alive => processes[o].alive
    BY <1>2
  <1>6. LatestInv'
    <2>1. process' \in {0, Latest'}
      BY <1>1, <1>2
    <2>2. pmHolder' # Nobody =>
             /\ process' = 0 /\ Latest' # 0
             /\ processes'[Latest'].waiter \in {"wait", "seen"}
      <3> SUFFICES ASSUME pmHolder # Nobody
                   PROVE  /\ process' = 0 /\ Latest # 0
                          /\ processes'[Latest].waiter \in {"wait", "seen"}
        BY <1>2
      <3>1. process = 0 /\ Latest # 0 /\ processes[Latest].waiter \in {"wait", "seen"}
        BY DEF PluginInv, LatestInv
      <3> QED
        BY <3>1, <1>1, <1>2
    <2>3. \A o \in 1..Latest' : processes'[o].waiter # "wait" => ~processes'[o].alive
      BY <1>2 DEF PluginInv, LatestInv
    <2>4. process' # 0 => processes'[process'].shook /\ processes'[process'].waiter # "done"
      <3> SUFFICES ASSUME process' # 0
                   PROVE  processes'[process'].shook /\ processes'[process'].waiter # "done"
        OBVIOUS
      <3>1. process' = process /\ process = Latest /\ process \in 1..Latest
        BY <1>1
      <3>2. processes[process].shook /\ processes[process].waiter # "done"
        BY <3>1 DEF PluginInv, LatestInv
      <3> QED
        BY <3>1, <3>2, <1>2
    <2>5. ASSUME NEW v \in Starters, users'[v].pc = "shaken"
          PROVE  processes'[Latest'].shook
      <3>1. users[v].pc = "shaken"
        BY <2>5
      <3>2. pmHolder = v /\ v # Nobody
        BY <3>1, StartersAre DEF PluginInv, PluginTypeOK
      <3>3. Latest # 0 /\ processes[Latest].shook
        BY <3>1, <3>2 DEF PluginInv, LatestInv
      <3> QED
        BY <3>3, <1>1, <1>2
    <2> QED
      BY <2>1, <2>2, <2>3, <2>4, <2>5 DEF LatestInv
  <1>7. AloneInv'
    BY <1>2, <1>5 DEF PluginInv, AloneInv
  <1>8. SymbolInv'
    <2>1. ASSUME NEW r \in PluginRules, HasSymbol(r)
          PROVE  HasSymbol(r)'
      <3> SUFFICES ASSUME process' # 0, processes'[process'].alive
                   PROVE  r \in processes'[process'].symbols
        BY DEF HasSymbol
      <3>1. process' = process /\ process \in 1..Latest
        BY <1>1
      <3>2. r \in processes[process].symbols
        BY <3>1, <2>1, <1>5 DEF HasSymbol
      <3> QED
        BY <3>1, <3>2, <1>2
    <2> HIDE DEF HasSymbol
    <2> QED
      BY <2>1 DEF PluginInv, SymbolInv
  <1> QED
    BY <1>4, <1>6, <1>7, <1>8 DEF PluginInv

LEMMA EndingSteps ==
    ASSUME PluginInv, NEW p \in 1..Latest, Exit(p) \/ Wait(p)
    PROVE  PluginInv'
  <1>1. /\ processes \in Seq(PluginProc) /\ Latest \in Nat /\ process \in {0, Latest}
        /\ pluginStatus \in {"initializing", "running", "error", "stop"}
        /\ pmHolder # Nobody => process = 0 /\ processes[Latest].waiter \in {"wait", "seen"}
        /\ processes[p].waiter # "wait" => ~processes[p].alive
        /\ process # 0 => processes[process].waiter # "done"
    BY DEF PluginInv, PluginTypeOK, Latest, LatestInv
  <1>2. processes[p] \in PluginProc
    BY <1>1 DEF Latest
  <1>3. ~overtaken =>
           /\ \A o \in 1..Latest : processes[o].alive => o = Latest
           /\ process = 0 /\ pmHolder = Nobody => \A o \in 1..Latest : ~processes[o].alive
           /\ \A o \in 1..Latest : processes[o].waiter = "clear" => process = o
    BY DEF PluginInv, AloneInv
  <1>4. CASE Exit(p)
    <2> DEFINE q == [processes[p] EXCEPT !.alive = FALSE]
    <2>1. /\ q \in PluginProc /\ q.alive = FALSE /\ q.symbols = processes[p].symbols
          /\ q.shook = processes[p].shook /\ q.waiter = processes[p].waiter
      BY <1>2 DEF PluginProc
    <2>2. /\ processes' = [processes EXCEPT ![p] = q] /\ process' = process
          /\ UNCHANGED <<pluginStatus, commands, restores, pmHolder, users, uses, kills, overtaken>>
      BY <1>4 DEF Exit
    <2> HIDE DEF q
    <2>3. q.waiter \in {"wait", "seen"} \/ pmHolder = Nobody
      <3> SUFFICES ASSUME pmHolder # Nobody
                   PROVE  q.waiter = "wait"
        OBVIOUS
      <3>1. processes[p].alive
        BY <1>4 DEF Exit
      <3> QED
        BY <3>1, <1>1, <2>1
    <2>4. \A o \in 1..Latest : /\ processes'[o].alive => processes[o].alive
                               /\ processes'[o].waiter = processes[o].waiter
      BY <1>1, <2>1, <2>2, ProcStep
    <2>5. ~overtaken =>
             /\ process' = 0 /\ pmHolder = Nobody => \A o \in 1..Latest : ~processes'[o].alive
             /\ \A o \in 1..Latest : processes'[o].waiter = "clear" => process' = o
      <3> SUFFICES ASSUME ~overtaken
                   PROVE  /\ process = 0 /\ pmHolder = Nobody => \A o \in 1..Latest : ~processes'[o].alive
                          /\ \A o \in 1..Latest : processes'[o].waiter = "clear" => process = o
        BY <2>2
      <3>1. ASSUME process = 0, pmHolder = Nobody, NEW o \in 1..Latest
            PROVE  ~processes'[o].alive
        BY <3>1, <1>3, <2>4
      <3>2. ASSUME NEW o \in 1..Latest, processes'[o].waiter = "clear"
            PROVE  process = o
        BY <3>2, <1>3, <2>4
      <3> QED
        BY <3>1, <3>2
    <2>6. process' = p => q.waiter # "done"
      BY <1>1, <2>1, <2>2
    <2>7. pluginStatus' \in {"initializing", "running", "error", "stop"}
      BY <1>1, <2>2
    <2> QED
      BY <2>1, <2>2, <2>3, <2>5, <2>6, <2>7, EndingStep
  <1>5. CASE WaitReturns(p)
    <2> DEFINE q == [processes[p] EXCEPT !.waiter = "seen"]
    <2>1. /\ q \in PluginProc /\ q.alive = processes[p].alive /\ q.symbols = processes[p].symbols
          /\ q.shook = processes[p].shook /\ q.waiter = "seen"
      BY <1>2 DEF PluginProc
    <2>2. /\ processes' = [processes EXCEPT ![p] = q] /\ process' = process
          /\ ~processes[p].alive
          /\ UNCHANGED <<commands, restores, pmHolder, users, uses, kills, overtaken>>
          /\ pluginStatus' \in {"error", pluginStatus}
      BY <1>5 DEF WaitReturns
    <2> HIDE DEF q
    <2>4. \A o \in 1..Latest : /\ processes'[o].alive => processes[o].alive
                               /\ processes'[o].waiter = "clear" => processes[o].waiter = "clear"
      BY <1>1, <2>1, <2>2, ProcStep
    <2>5. ~overtaken =>
             /\ process' = 0 /\ pmHolder = Nobody => \A o \in 1..Latest : ~processes'[o].alive
             /\ \A o \in 1..Latest : processes'[o].waiter = "clear" => process' = o
      <3> SUFFICES ASSUME ~overtaken
                   PROVE  /\ process = 0 /\ pmHolder = Nobody => \A o \in 1..Latest : ~processes'[o].alive
                          /\ \A o \in 1..Latest : processes'[o].waiter = "clear" => process = o
        BY <2>2
      <3>1. ASSUME process = 0, pmHolder = Nobody, NEW o \in 1..Latest
            PROVE  ~processes'[o].alive
        BY <3>1, <1>3, <2>4
      <3>2. ASSUME NEW o \in 1..Latest, processes'[o].waiter = "clear"
            PROVE  process = o
        BY <3>2, <1>3, <2>4
      <3> QED
        BY <3>1, <3>2
    <2>7. pluginStatus' \in {"initializing", "running", "error", "stop"}
      BY <1>1, <2>2
    <2> QED
      BY <2>1, <2>2, <2>5, <2>7, EndingStep
  <1>6. CASE IsStillIts(p)
    <2> DEFINE w == IF process = p THEN "clear" ELSE "done"
               q == [processes[p] EXCEPT !.waiter = w]
    <2>1. w \in {"clear", "done"} /\ (w = "done" => process # p) /\ (w = "clear" => process = p)
      OBVIOUS
    <2>2. /\ processes' = [processes EXCEPT ![p] = q] /\ process' = process
          /\ processes[p].waiter = "seen" /\ pmHolder = Nobody
          /\ UNCHANGED <<pluginStatus, commands, restores, pmHolder, users, uses, kills, overtaken>>
      BY <1>6 DEF IsStillIts
    <2> HIDE DEF w
    <2>3. /\ q \in PluginProc /\ q.alive = processes[p].alive /\ q.symbols = processes[p].symbols
          /\ q.shook = processes[p].shook /\ q.waiter = w
      BY <1>2, <2>1 DEF PluginProc
    <2> HIDE DEF q
    <2>4. \A o \in 1..Latest : /\ processes'[o].alive => processes[o].alive
                               /\ processes'[o].waiter = "clear" =>
                                    processes[o].waiter = "clear" \/ process = o
      BY <1>1, <2>1, <2>2, <2>3, ProcStep
    <2>5. ~overtaken =>
             /\ process' = 0 /\ pmHolder = Nobody => \A o \in 1..Latest : ~processes'[o].alive
             /\ \A o \in 1..Latest : processes'[o].waiter = "clear" => process' = o
      <3> SUFFICES ASSUME ~overtaken
                   PROVE  /\ process = 0 /\ pmHolder = Nobody => \A o \in 1..Latest : ~processes'[o].alive
                          /\ \A o \in 1..Latest : processes'[o].waiter = "clear" => process = o
        BY <2>2
      <3>1. ASSUME process = 0, pmHolder = Nobody, NEW o \in 1..Latest
            PROVE  ~processes'[o].alive
        BY <3>1, <1>3, <2>4
      <3>2. ASSUME NEW o \in 1..Latest, processes'[o].waiter = "clear"
            PROVE  process = o
        BY <3>2, <1>3, <2>4
      <3> QED
        BY <3>1, <3>2
    <2>6. ~q.alive
      BY <1>1, <2>2, <2>3
    <2>7. process' = p => q.waiter # "done"
      BY <2>1, <2>2, <2>3
    <2>8. pluginStatus' \in {"initializing", "running", "error", "stop"}
      BY <1>1, <2>2
    <2> QED
      BY <2>2, <2>3, <2>5, <2>6, <2>7, <2>8, EndingStep
  <1>7. CASE ForgetProcess(p)
    <2> DEFINE q == [processes[p] EXCEPT !.waiter = "done"]
    <2>1. /\ q \in PluginProc /\ q.alive = processes[p].alive /\ q.symbols = processes[p].symbols
          /\ q.shook = processes[p].shook /\ q.waiter = "done"
      BY <1>2 DEF PluginProc
    <2>2. /\ processes' = [processes EXCEPT ![p] = q] /\ process' = 0
          /\ processes[p].waiter = "clear"
          /\ UNCHANGED <<pluginStatus, commands, restores, pmHolder, users, uses, kills, overtaken>>
      BY <1>7 DEF ForgetProcess
    <2> HIDE DEF q
    <2>3. \A o \in 1..Latest : /\ processes'[o].alive => processes[o].alive
                               /\ processes'[o].waiter = "clear" =>
                                    processes[o].waiter = "clear" /\ o # p
      BY <1>1, <2>1, <2>2, ProcStep
    <2>4. ~overtaken =>
             /\ process' = 0 /\ pmHolder = Nobody => \A o \in 1..Latest : ~processes'[o].alive
             /\ \A o \in 1..Latest : processes'[o].waiter = "clear" => process' = o
      <3> SUFFICES ASSUME ~overtaken, NEW o \in 1..Latest
                   PROVE  ~processes'[o].alive /\ processes'[o].waiter # "clear"
        OBVIOUS
      <3>1. process = p /\ ~processes[p].alive
        BY <1>1, <1>3, <2>2
      <3>2. p = Latest
        BY <3>1, <1>1
      <3>3. ~processes[o].alive
        BY <3>1, <3>2, <1>3
      <3>4. ~processes'[o].alive
        BY <3>3, <2>3
      <3>5. processes'[o].waiter # "clear"
        <4> SUFFICES ASSUME processes'[o].waiter = "clear"
                     PROVE  FALSE
          OBVIOUS
        <4>1. processes[o].waiter = "clear" /\ o # p
          BY <2>3
        <4>2. process = o
          BY <4>1, <1>3
        <4> QED
          BY <4>1, <4>2, <3>1
      <3> QED
        BY <3>4, <3>5
    <2>5. pmHolder # Nobody /\ p = Latest => q.waiter \in {"wait", "seen"}
      BY <1>1, <2>2
    <2>6. ~q.alive /\ process' # p
      BY <1>1, <2>1, <2>2
    <2>7. pluginStatus' \in {"initializing", "running", "error", "stop"}
      BY <1>1, <2>2
    <2> QED
      BY <2>1, <2>2, <2>4, <2>5, <2>6, <2>7, EndingStep
  <1> QED
    BY <1>4, <1>5, <1>6, <1>7 DEF Wait

\* While the instance has no process, no symbol is missed.
LEMMA NoneInstalled ==
    ASSUME PluginInv, process' = 0, commands' = commands,
           \A r \in PluginRules :
               users'[r].late = users[r].late /\ (users'[r].pc = "runs" => users[r].pc = "runs"),
           ~overtaken' => ~overtaken
    PROVE  SymbolInv'
  <1>1. \A r \in PluginRules : HasSymbol(r)'
    BY DEF HasSymbol
  <1> HIDE DEF HasSymbol
  <1>2. ASSUME ~overtaken, NEW r \in PluginRules, ~users[r].late, users[r].pc = "runs"
        PROVE  r \in commands
    BY <1>2 DEF PluginInv, SymbolInv
  <1> QED
    BY <1>1, <1>2 DEF SymbolInv

LEMMA KillStep ==
    ASSUME PluginInv, Kill
    PROVE  PluginInv'
  <1>1. /\ processes \in Seq(PluginProc) /\ Latest \in Nat /\ process \in {0, Latest}
        /\ pmHolder = Nobody
    BY DEF PluginInv, PluginTypeOK, Latest, LatestInv, Kill
  <1>2. /\ process' = 0 /\ pluginStatus' = "stop"
        /\ UNCHANGED <<commands, restores, pmHolder, users, uses>>
        /\ kills' = kills + 1 /\ kills < MaxKills
        /\ overtaken' = (overtaken \/ \E p \in 1..Latest : processes[p].waiter = "clear")
    BY DEF Kill
  <1>3. /\ processes' \in Seq(PluginProc) /\ Len(processes') = Len(processes)
        /\ Latest' = Latest
        /\ \A o \in 1..Latest :
              /\ processes'[o].waiter = processes[o].waiter
              /\ processes'[o].alive => processes[o].alive /\ o # process
    <2>1. CASE process = 0
      BY <1>1, <2>1 DEF Kill, Latest
    <2>2. CASE process # 0
      <3> DEFINE q == [processes[process] EXCEPT !.alive = FALSE]
      <3>1. process \in 1..Latest /\ processes[process] \in PluginProc
        BY <1>1, <2>2 DEF Latest
      <3>2. q \in PluginProc /\ q.alive = FALSE /\ q.waiter = processes[process].waiter
        BY <3>1 DEF PluginProc
      <3>3. processes' = [processes EXCEPT ![process] = q]
        BY <2>2 DEF Kill
      <3> HIDE DEF q
      <3>4. /\ processes' \in Seq(PluginProc) /\ Len(processes') = Len(processes)
            /\ Latest' = Latest /\ processes'[process] = q
            /\ \A o \in 1..Latest : o # process => processes'[o] = processes[o]
        BY <1>1, <3>1, <3>2, <3>3, ProcStep
      <3> QED
        BY <3>2, <3>4
    <2> QED
      BY <2>1, <2>2
  <1>4. PluginTypeOK'
    <2>1. kills' \in 0..MaxKills
      BY <1>2, PluginAssumption DEF PluginInv, PluginTypeOK
    <2>2. overtaken' \in BOOLEAN
      BY <1>2 DEF PluginInv, PluginTypeOK
    <2>3. process' \in 0..Len(processes')
      BY <1>1, <1>2, <1>3 DEF Latest
    <2> QED
      BY <1>2, <1>3, <2>1, <2>2, <2>3 DEF PluginInv, PluginTypeOK
  <1>5. LatestInv'
    <2>1. ASSUME NEW u \in Starters
          PROVE  users'[u].pc # "shaken"
      BY <1>1, <1>2, StartersAre DEF PluginInv, PluginTypeOK
    <2>2. \A o \in 1..Latest' : processes'[o].waiter # "wait" => ~processes'[o].alive
      BY <1>3 DEF PluginInv, LatestInv
    <2> QED
      BY <1>1, <1>2, <2>1, <2>2 DEF LatestInv
  <1>6. AloneInv'
    <2> SUFFICES ASSUME ~overtaken'
                 PROVE  /\ \A p \in 1..Latest : ~processes'[p].alive
                        /\ \A p \in 1..Latest : processes'[p].waiter # "clear"
      BY <1>3 DEF AloneInv
    <2>1. ~overtaken /\ \A p \in 1..Latest : processes[p].waiter # "clear"
      BY <1>2
    <2>2. ASSUME NEW p \in 1..Latest, processes'[p].alive
          PROVE  FALSE
      <3>1. processes[p].alive /\ p # process
        BY <2>2, <1>3
      <3>2. p = Latest
        BY <2>1, <3>1 DEF PluginInv, AloneInv
      <3>3. process = 0
        BY <1>1, <3>1, <3>2
      <3> QED
        BY <1>1, <2>1, <3>1, <3>3 DEF PluginInv, AloneInv
    <2> QED
      BY <1>3, <2>1, <2>2
  <1>7. SymbolInv'
    BY <1>2, NoneInstalled
  <1> QED
    BY <1>4, <1>5, <1>6, <1>7 DEF PluginInv

LEMMA StartProcessStep ==
    ASSUME PluginInv, NEW u \in Starters, StartProcess(u)
    PROVE  PluginInv'
  <1> DEFINE fresh == [alive |-> TRUE, shook |-> FALSE, symbols |-> {}, waiter |-> "wait"]
  <1>1. /\ processes \in Seq(PluginProc) /\ Latest \in Nat /\ Latest < MaxProcesses
        /\ process = 0 /\ pmHolder = Nobody /\ users \in [Starters -> User]
        /\ users[u].pc = "start" /\ u # Nobody
    BY StartersAre DEF PluginInv, PluginTypeOK, Latest, StartProcess
  <1>2. /\ processes' = Append(processes, fresh) /\ pmHolder' = u /\ GoOn(u, "shake")
        /\ UNCHANGED <<process, pluginStatus, commands, restores, uses, kills, overtaken>>
    BY DEF StartProcess
  <1>3. fresh \in PluginProc /\ fresh.alive /\ fresh.waiter = "wait"
    BY DEF PluginProc
  <1> HIDE DEF fresh
  <1>4. /\ processes' \in Seq(PluginProc) /\ Len(processes') = Latest + 1
        /\ Latest' = Latest + 1 /\ processes'[Latest + 1] = fresh
        /\ \A o \in 1..Latest : processes'[o] = processes[o]
    BY <1>1, <1>2, <1>3 DEF Latest
  <1>5. PICK to \in User :
           users' = [users EXCEPT ![u] = to] /\ to.pc = "shake" /\ to.late = users[u].late
    BY <1>1, <1>2, GoOnFields
  <1>6. /\ users' \in [Starters -> User] /\ users'[u] = to
        /\ \A v \in Starters : v # u => users'[v] = users[v]
    BY <1>1, <1>5
  <1>7. \A v \in Starters : users[v].pc \notin {"shake", "shaken"}
    BY <1>1, StartersAre DEF PluginInv, PluginTypeOK
  <1>8. PluginTypeOK'
    <2>1. Len(processes') <= MaxProcesses /\ process' \in 0..Len(processes')
      BY <1>1, <1>2, <1>4, PluginAssumption
    <2>2. \A v \in Starters : (pmHolder' = v) = (users'[v].pc \in {"shake", "shaken"})
      BY <1>2, <1>5, <1>6, <1>7
    <2>3. pmHolder' \in Starters \cup {Nobody}
      BY <1>2
    <2> QED
      BY <1>2, <1>4, <1>6, <2>1, <2>2, <2>3 DEF PluginInv, PluginTypeOK
  <1>9. \A o \in 1..Latest' : o \in 1..Latest \/ o = Latest + 1
    BY <1>1, <1>4
  <1>10. LatestInv'
    <2>1. \A o \in 1..Latest' : processes'[o].waiter # "wait" => ~processes'[o].alive
      BY <1>3, <1>4, <1>9 DEF PluginInv, LatestInv
    <2>2. Latest' # 0 /\ processes'[Latest'].waiter \in {"wait", "seen"}
      BY <1>1, <1>3, <1>4
    <2>3. \A v \in Starters : users'[v].pc # "shaken"
      BY <1>5, <1>6, <1>7
    <2> QED
      BY <1>1, <1>2, <2>1, <2>2, <2>3 DEF LatestInv
  <1>11. AloneInv'
    <2> SUFFICES ASSUME ~overtaken
                 PROVE  AloneInv'
      BY <1>2 DEF AloneInv
    <2>1. \A p \in 1..Latest : ~processes[p].alive /\ processes[p].waiter # "clear"
      BY <1>1 DEF PluginInv, AloneInv
    <2>2. ASSUME NEW p \in 1..Latest', processes'[p].alive
          PROVE  p = Latest'
      BY <1>4, <1>9, <2>1, <2>2
    <2>3. ASSUME NEW p \in 1..Latest'
          PROVE  processes'[p].waiter # "clear"
      BY <1>3, <1>4, <1>9, <2>1
    <2>4. pmHolder' # Nobody
      BY <1>1, <1>2
    <2> QED
      BY <2>2, <2>3, <2>4 DEF AloneInv
  <1>12. SymbolInv'
    <2>1. \A r \in PluginRules :
             users'[r].late = users[r].late /\ (users'[r].pc = "runs" => users[r].pc = "runs")
      BY <1>5, <1>6, StartersAre
    <2> QED
      BY <1>1, <1>2, <2>1, NoneInstalled
  <1> QED
    BY <1>8, <1>10, <1>11, <1>12 DEF PluginInv

\* The steps of whoever holds the lock of the manager.
LEMMA HandshakeSteps ==
    ASSUME PluginInv, NEW u \in Starters, Handshake(u) \/ HandshakeFails(u)
    PROVE  PluginInv'
  <1>1. /\ processes \in Seq(PluginProc) /\ Latest \in Nat /\ users \in [Starters -> User]
        /\ users[u].pc = "shake" /\ u # Nobody
        /\ UNCHANGED <<process, commands, restores, uses, kills, overtaken>>
        /\ pluginStatus' \in {"error", pluginStatus}
    BY StartersAre DEF PluginInv, PluginTypeOK, Latest, Handshake, HandshakeFails
  <1>2. pmHolder = u
    BY <1>1 DEF PluginInv, PluginTypeOK
  <1>3. /\ process = 0 /\ Latest # 0 /\ Latest \in 1..Latest
        /\ processes[Latest].waiter \in {"wait", "seen"}
    BY <1>1, <1>2 DEF PluginInv, LatestInv
  <1>4. processes[Latest] \in PluginProc
    BY <1>1, <1>3 DEF Latest
  <1>5. PICK at \in {"shaken", "idle"}, q \in PluginProc :
           /\ GoOn(u, at) /\ processes' = [processes EXCEPT ![Latest] = q]
           /\ q.waiter = processes[Latest].waiter /\ (q.alive => processes[Latest].alive)
           /\ at = "shaken" => q.shook /\ pmHolder' = pmHolder
           /\ at = "idle" => ~q.alive /\ pmHolder' = Nobody
    <2>1. CASE Handshake(u)
      <3> DEFINE q == [processes[Latest] EXCEPT !.shook = TRUE]
      <3>1. /\ q \in PluginProc /\ q.waiter = processes[Latest].waiter
            /\ q.alive = processes[Latest].alive /\ q.shook
        BY <1>4 DEF PluginProc
      <3>2. GoOn(u, "shaken") /\ processes' = [processes EXCEPT ![Latest] = q]
            /\ pmHolder' = pmHolder
        BY <2>1 DEF Handshake
      <3> HIDE DEF q
      <3> QED
        BY <3>1, <3>2
    <2>2. CASE HandshakeFails(u)
      <3> DEFINE q == [processes[Latest] EXCEPT !.alive = FALSE]
      <3>1. q \in PluginProc /\ q.waiter = processes[Latest].waiter /\ q.alive = FALSE
        BY <1>4 DEF PluginProc
      <3>2. GoOn(u, "idle") /\ processes' = [processes EXCEPT ![Latest] = q]
            /\ pmHolder' = Nobody
        BY <2>2 DEF HandshakeFails
      <3> HIDE DEF q
      <3> QED
        BY <3>1, <3>2
    <2> QED
      BY <2>1, <2>2
  <1>6. /\ processes' \in Seq(PluginProc) /\ Len(processes') = Len(processes)
        /\ Latest' = Latest /\ processes'[Latest] = q
        /\ \A o \in 1..Latest : o # Latest => processes'[o] = processes[o]
    BY <1>1, <1>3, <1>5, ProcStep
  <1>7. PICK to \in User :
           users' = [users EXCEPT ![u] = to] /\ to.pc = at /\ to.late = users[u].late
    BY <1>1, <1>5, GoOnFields
  <1>8. /\ users' \in [Starters -> User] /\ users'[u] = to
        /\ \A v \in Starters : v # u => users'[v] = users[v]
    BY <1>1, <1>7
  <1>9. \A v \in Starters : v # u => users[v].pc \notin {"shake", "shaken"}
    BY <1>2 DEF PluginInv, PluginTypeOK
  <1>10. PluginTypeOK'
    <2>1. \A v \in Starters : (pmHolder' = v) = (users'[v].pc \in {"shake", "shaken"})
      <3> SUFFICES ASSUME NEW v \in Starters
                   PROVE  (pmHolder' = v) = (users'[v].pc \in {"shake", "shaken"})
        OBVIOUS
      <3>1. v # Nobody
        BY StartersAre
      <3>2. CASE v = u
        BY <3>1, <3>2, <1>2, <1>5, <1>7, <1>8
      <3>3. CASE v # u
        BY <3>1, <3>3, <1>2, <1>5, <1>8, <1>9
      <3> QED
        BY <3>2, <3>3
    <2>2. pmHolder' \in Starters \cup {Nobody}
      BY <1>2, <1>5
    <2>3. pluginStatus' \in {"initializing", "running", "error", "stop"}
      BY <1>1 DEF PluginInv, PluginTypeOK
    <2> QED
      BY <1>1, <1>6, <1>8, <2>1, <2>2, <2>3 DEF PluginInv, PluginTypeOK
  <1>11. \A o \in 1..Latest : /\ processes'[o].waiter = processes[o].waiter
                              /\ processes'[o].alive => processes[o].alive
    BY <1>5, <1>6
  <1>12. LatestInv'
    <2>1. \A o \in 1..Latest' : processes'[o].waiter # "wait" => ~processes'[o].alive
      BY <1>6, <1>11 DEF PluginInv, LatestInv
    <2>2. Latest' # 0 /\ processes'[Latest'].waiter \in {"wait", "seen"} /\ process' = 0
      BY <1>1, <1>3, <1>6, <1>11
    <2>3. ASSUME NEW v \in Starters, users'[v].pc = "shaken"
          PROVE  processes'[Latest'].shook
      <3>1. v = u
        BY <2>3, <1>8, <1>9
      <3> QED
        BY <2>3, <3>1, <1>5, <1>6, <1>7, <1>8
    <2> QED
      BY <2>1, <2>2, <2>3 DEF LatestInv
  <1>13. AloneInv'
    <2> SUFFICES ASSUME ~overtaken
                 PROVE  AloneInv'
      BY <1>1 DEF AloneInv
    <2>1. /\ \A p \in 1..Latest : processes[p].alive => p = Latest
          /\ \A p \in 1..Latest : processes[p].waiter # "clear"
      BY <1>3 DEF PluginInv, AloneInv
    <2>2. \A p \in 1..Latest' : processes'[p].alive => p = Latest'
      BY <1>6, <1>11, <2>1
    <2>3. \A p \in 1..Latest' : processes'[p].waiter # "clear"
      BY <1>6, <1>11, <2>1
    <2>4. ASSUME pmHolder' = Nobody, NEW p \in 1..Latest'
          PROVE  ~processes'[p].alive
      <3>1. ~q.alive
        BY <2>4, <1>1, <1>2, <1>5
      <3> QED
        BY <3>1, <1>6, <2>2
    <2> QED
      BY <2>2, <2>3, <2>4 DEF AloneInv
  <1>14. SymbolInv'
    <2>1. \A r \in PluginRules :
             users'[r].late = users[r].late /\ (users'[r].pc = "runs" => users[r].pc = "runs")
      BY <1>5, <1>7, <1>8, StartersAre
    <2> QED
      BY <1>1, <1>3, <2>1, NoneInstalled
  <1> QED
    BY <1>10, <1>12, <1>13, <1>14 DEF PluginInv

LEMMA InstallProcessStep ==
    ASSUME PluginInv, NEW u \in Starters, InstallProcess(u)
    PROVE  PluginInv'
  <1>1. /\ processes \in Seq(PluginProc) /\ Latest \in Nat /\ users \in [Starters -> User]
        /\ users[u].pc = "shaken" /\ u # Nobody
        /\ process' = Latest /\ pluginStatus' = "running"
        /\ restores' = restores \cup commands /\ pmHolder' = Nobody
        /\ UNCHANGED <<processes, commands, uses, kills, overtaken>>
    BY StartersAre DEF PluginInv, PluginTypeOK, Latest, InstallProcess
  <1>2. Latest' = Latest
    BY <1>1 DEF Latest
  <1>3. pmHolder = u
    BY <1>1 DEF PluginInv, PluginTypeOK
  <1>4. /\ process = 0 /\ Latest # 0 /\ processes[Latest].shook
        /\ processes[Latest].waiter \in {"wait", "seen"}
    BY <1>1, <1>3 DEF PluginInv, LatestInv
  <1> DEFINE next(v) == IF v = u
                        THEN [users[v] EXCEPT !.pc = IF u = PluginApi THEN "idle" ELSE "has"]
                        ELSE [users[v] EXCEPT !.late = @ \/ users[v].pc = "sent"]
  <1>5. users' = [v \in Starters |-> next(v)]
    BY DEF InstallProcess
  <1>6. ASSUME NEW v \in Starters
        PROVE  /\ next(v) \in User
               /\ v = u => next(v).pc \in {"idle", "has"}
               /\ v # u => /\ next(v).pc = users[v].pc
                           /\ users[v].late => next(v).late
                           /\ users[v].pc = "sent" => next(v).late
    <2>1. users[v] \in User
      BY <1>1
    <2>2. CASE v = u
      BY <2>1, <2>2 DEF User
    <2>3. CASE v # u
      <3> DEFINE l == users[v].late \/ users[v].pc = "sent"
      <3>1. l \in BOOLEAN /\ (users[v].late => l) /\ (users[v].pc = "sent" => l)
        OBVIOUS
      <3>2. next(v) = [users[v] EXCEPT !.late = l]
        BY <2>3
      <3> HIDE DEF l, next
      <3>3. next(v) \in User /\ next(v).pc = users[v].pc /\ next(v).late = l
        BY <2>1, <3>1, <3>2 DEF User
      <3> QED
        BY <2>3, <3>1, <3>3
    <2> QED
      BY <2>2, <2>3
  <1> HIDE DEF next
  <1>7. users' \in [Starters -> User] /\ \A v \in Starters : users'[v] = next(v)
    BY <1>5, <1>6
  <1>8. \A v \in Starters : users'[v].pc \notin {"shake", "shaken"}
    <2> SUFFICES ASSUME NEW v \in Starters
                 PROVE  users'[v].pc \notin {"shake", "shaken"}
      OBVIOUS
    <2>1. v # u => users[v].pc \notin {"shake", "shaken"}
      BY <1>3 DEF PluginInv, PluginTypeOK
    <2> QED
      BY <2>1, <1>6, <1>7
  <1>9. PluginTypeOK'
    <2>1. \A v \in Starters : (pmHolder' = v) = (users'[v].pc \in {"shake", "shaken"})
      BY <1>1, <1>8, StartersAre
    <2>2. process' \in 0..Len(processes') /\ Len(processes') = Len(processes)
      BY <1>1 DEF Latest
    <2>3. restores' \in SUBSET PluginRules
      BY <1>1 DEF PluginInv, PluginTypeOK
    <2>4. pluginStatus' \in {"initializing", "running", "error", "stop"}
      BY <1>1
    <2> QED
      BY <1>1, <1>7, <2>1, <2>2, <2>3, <2>4 DEF PluginInv, PluginTypeOK
  <1>10. LatestInv'
    <2>1. \A p \in 1..Latest' : processes'[p].waiter # "wait" => ~processes'[p].alive
      BY <1>1, <1>2 DEF PluginInv, LatestInv
    <2> QED
      BY <1>1, <1>2, <1>4, <1>8, <2>1 DEF LatestInv
  <1>11. AloneInv'
    <2> SUFFICES ASSUME ~overtaken
                 PROVE  AloneInv'
      BY <1>1 DEF AloneInv
    <2>1. /\ \A p \in 1..Latest : processes[p].alive => p = Latest
          /\ \A p \in 1..Latest : processes[p].waiter # "clear"
      BY <1>4 DEF PluginInv, AloneInv
    <2> QED
      BY <1>1, <1>2, <1>4, <2>1 DEF AloneInv
  <1>12. SymbolInv'
    <2> SUFFICES ASSUME ~overtaken, NEW r \in PluginRules, ~users'[r].late
                 PROVE  /\ users'[r].pc # "sent"
                        /\ users'[r].pc = "runs" => r \in commands /\ r \in restores'
      BY <1>1 DEF SymbolInv
    <2>1. r \in Starters
      BY StartersAre
    <2>2. CASE r = u
      BY <2>1, <2>2, <1>6, <1>7
    <2>3. CASE r # u
      <3>1. users'[r].pc = users[r].pc /\ users[r].pc # "sent" /\ ~users[r].late
        BY <2>1, <2>3, <1>6, <1>7
      <3>2. users[r].pc = "runs" => r \in commands
        BY <3>1 DEF PluginInv, SymbolInv
      <3> QED
        BY <1>1, <3>1, <3>2
    <2> QED
      BY <2>2, <2>3
  <1> QED
    BY <1>9, <1>10, <1>11, <1>12 DEF PluginInv

LEMMA PluginInvNext == PluginInv /\ [PluginNext]_pluginVars => PluginInv'
  <1> SUFFICES ASSUME PluginInv, [PluginNext]_pluginVars
               PROVE  PluginInv'
    OBVIOUS
  <1>1. CASE UNCHANGED pluginVars
    <2>1. /\ process' = process /\ processes' = processes /\ pluginStatus' = pluginStatus
          /\ commands' = commands /\ restores' = restores /\ pmHolder' = pmHolder
          /\ users' = users /\ uses' = uses /\ kills' = kills /\ overtaken' = overtaken
      BY <1>1 DEF pluginVars
    <2>2. PluginTypeOK'
      BY <2>1 DEF PluginInv, PluginTypeOK
    <2>3. LatestInv' /\ AloneInv' /\ SymbolInv'
      BY <2>1 DEF PluginInv, LatestInv, AloneInv, SymbolInv, HasSymbol, Latest
    <2> QED
      BY <2>2, <2>3 DEF PluginInv
  <1>2. ASSUME NEW u \in Starters, Use(u) \/ Acquire(u) \/ Shake(u)
        PROVE  PluginInv'
    BY <1>2, QuietSteps, StartProcessStep, HandshakeSteps, InstallProcessStep
       DEF Acquire, Shake
  <1>3. ASSUME NEW r \in PluginRules, Command(r) \/ Close(r) \/ Restore(r)
        PROVE  PluginInv'
    <2>1. r \in Starters
      BY StartersAre
    <2> QED
      BY <1>3, <2>1, QuietSteps, SendSteps, RestoreStep DEF Command, Close
  <1>4. ASSUME NEW p \in 1..Latest, Exit(p) \/ Wait(p)
        PROVE  PluginInv'
    BY <1>4, EndingSteps
  <1>5. CASE Kill
    BY <1>5, KillStep
  <1> QED
    BY <1>1, <1>2, <1>3, <1>4, <1>5 DEF PluginNext

LEMMA PluginInvSound == PluginInv => PluginSound
  <1> SUFFICES ASSUME PluginInv
               PROVE  PluginSound
    OBVIOUS
  <1>1. PluginTypeOK /\ LatestInv /\ AloneInv /\ SymbolInv
    BY DEF PluginInv
  <1>2. OneProcess
    BY <1>1 DEF OneProcess, AloneInv
  <1>3. SymbolsRestored
    BY <1>1 DEF SymbolsRestored, SymbolInv, HasSymbol
  <1>4. EndedIsForgotten
    BY <1>1 DEF EndedIsForgotten, LatestInv
  <1> QED
    BY <1>1, <1>2, <1>3, <1>4 DEF PluginSound

\* As long as no deletion comes between the two steps of a waiter, there is one
\* process of a plugin at a time; one that has ended is forgotten, and the one
\* that follows gets the symbols of the rules that run, for any number of rules,
\* of processes and of deletions (plugin_ins_manager.go:230-360).
THEOREM PluginIsSound == PluginSpec => []PluginSound
  <1>1. PluginSpec => []PluginInv
    BY PluginInvInit, PluginInvNext, PTL DEF PluginSpec
  <1> QED
    BY <1>1, PluginInvSound, PTL
-----------------------------------------------------------------------------
(* The patrol of rules                                                     *)

\* What the patrol goes by is how the rule was when it looked, unless something else than
\* the patrol has changed the rule since; and it has a rule with neither a schedule nor a
\* duration only recovered.
SeenInv ==
    /\ patrol.now <= now
    /\ patrol.at = "schedule" => IsScheduleRule \/ IsDurationRule
    /\ patrol.at = "schedule" /\ ~stale =>
           scheduled.state = patrol.state /\ scheduled.start = patrol.start
    /\ patrol.at = "restart" /\ ~stale /\ ~IsScheduleRule /\ patrol.state = "StoppedByErr" =>
           scheduled.state # "Running"

ScheduleInv == ScheduleTypeOK /\ RunsInSchedule /\ SeenInv

\* A finite set of numbers has a least one: of the sets that hold the numbers up to one of
\* them, one is the least by inclusion.
LEMMA LeastOfFinite ==
    ASSUME NEW S \in SUBSET Nat, IsFiniteSet(S), S # {}
    PROVE  \E m \in S : \A n \in S : m <= n
  <1> DEFINE UpTo(m) == {n \in S : n <= m}
             T == {UpTo(m) : m \in S}
  <1>1. T \subseteq FiniteSubsetsOf(S) /\ T # {}
    <2> SUFFICES ASSUME NEW m \in S PROVE UpTo(m) \in FiniteSubsetsOf(S)
      OBVIOUS
    <2>1. UpTo(m) \subseteq S /\ IsFiniteSet(UpTo(m))
      BY FS_Subset
    <2> QED BY <2>1 DEF FiniteSubsetsOf
  <1> HIDE DEF T
  <1>2. PICK u \in T : \A v \in T : ~(<<v, u>> \in StrictSubsetOrdering(S))
    <2>1. IsWellFoundedOn(StrictSubsetOrdering(S), FiniteSubsetsOf(S))
      BY FS_StrictSubsetOrderingWellFounded
    <2> QED BY <1>1, <2>1, WFMin
  <1>3. PICK m \in S : u = UpTo(m)
    BY DEF T
  <1>4. ASSUME NEW n \in S, n < m PROVE FALSE
    <2>1. UpTo(n) \in T
      BY DEF T
    <2>2. UpTo(n) \subseteq UpTo(m) /\ m \in UpTo(m) /\ m \notin UpTo(n) /\ UpTo(m) \subseteq S
      <3>1. m \in Nat /\ n \in Nat /\ \A x \in S : x \in Nat
        OBVIOUS
      <3>2. \A x \in UpTo(n) : x \in S /\ x <= m
        BY <1>4, <3>1
      <3>3. \A x \in UpTo(n) : x \in UpTo(m)
        BY <3>2
      <3>4. m \in UpTo(m) /\ m \notin UpTo(n)
        BY <1>4, <3>1
      <3>5. UpTo(n) \subseteq UpTo(m) /\ UpTo(m) \subseteq S
        BY <3>3
      <3> QED BY <3>4, <3>5
    <2> HIDE DEF UpTo
    <2>3. <<UpTo(n), u>> \in StrictSubsetOrdering(S)
      BY <1>3, <2>2 DEF StrictSubsetOrdering
    <2> QED BY <1>2, <2>1, <2>3
  <1> QED BY <1>4

\* The options of a rule.
LEMMA OptionsType ==
    ASSUME options \in RuleOptions
    PROVE  /\ options.duration \in Nat
           /\ options.fires \subseteq Nat /\ IsFiniteSet(options.fires)
           /\ \A r \in options.ranges : r[1] \in Nat /\ r[2] \in Nat
  <1>1. /\ options.duration \in Nat /\ options.fires \subseteq 0..MaxNow
        /\ options.ranges \subseteq (0..MaxNow) \X (0..MaxNow) /\ MaxNow \in Nat
    BY ScheduleAssumption DEF OptionsOK
  <1>2. IsFiniteSet(0..MaxNow)
    BY <1>1, FS_Interval
  <1>3. IsFiniteSet(options.fires)
    BY <1>1, <1>2, FS_Subset
  <1> QED BY <1>1, <1>3

\* The code looks at the first time at which cron fires since a duration ago: if it has
\* fired then, it is the one that the definition asks for.
LEMMA RunningScheduleIsIn ==
    ASSUME options \in RuleOptions, NEW t \in Nat
    PROVE  IsInRunningSchedule(t) <=> \E f \in options.fires : t \in (f + 1)..(f + options.duration - 1)
  <1> DEFINE d == options.duration
             F == options.fires
             Late == {f \in F : f > t - d}
  <1>1. d \in Nat /\ F \subseteq Nat /\ IsFiniteSet(F)
    BY OptionsType
  <1>2. ASSUME IsInRunningSchedule(t)
        PROVE  \E f \in F : t \in (f + 1)..(f + d - 1)
    <2>1. PICK f \in F : f < t /\ t < f + d
      BY <1>2 DEF IsInRunningSchedule
    <2>2. f \in Nat
      BY <1>1
    <2> QED BY <1>1, <2>1, <2>2
  <1>3. ASSUME NEW f \in F, t \in (f + 1)..(f + d - 1)
        PROVE  IsInRunningSchedule(t)
    <2>1. f \in Nat /\ f < t /\ t < f + d /\ f > t - d
      BY <1>1, <1>3
    <2>2. Late \in SUBSET Nat /\ IsFiniteSet(Late) /\ f \in Late
      BY <1>1, <2>1, FS_Subset
    <2>3. PICK m \in Late : \A n \in Late : m <= n
      BY <2>2, LeastOfFinite
    <2>4. m \in F /\ m > t - d /\ m \in Nat /\ m <= f
      BY <1>1, <2>2, <2>3
    <2>5. m < t /\ t < m + d
      BY <1>1, <2>1, <2>4
    <2>6. \A g \in F : g > t - d => m <= g
      BY <2>3
    <2> QED BY <2>4, <2>5, <2>6 DEF IsInRunningSchedule
  <1> QED BY <1>2, <1>3

\* What the patrol does with a periodic rule is what its schedule says.
LEMMA ActionIsSchedule ==
    ASSUME options \in RuleOptions, IsPeriodic, NEW seen, seen.now \in Nat
    PROVE  ScheduleAction(seen) = IF InSchedule(seen.now) THEN "start" ELSE "stop"
  <1> DEFINE t == seen.now
  <1>1. options.duration \in Nat /\ \A r \in options.ranges : r[1] \in Nat /\ r[2] \in Nat
    BY OptionsType
  <1>2. IsInScheduleRanges(t)
            <=> (options.ranges # {} => \E r \in options.ranges : t \in (r[1] + 1)..(r[2] - 1))
    BY <1>1 DEF IsInScheduleRanges
  <1>3. IsInRunningSchedule(t)
            <=> \E f \in options.fires : t \in (f + 1)..(f + options.duration - 1)
    BY RunningScheduleIsIn
  <1>4. options.fires # {} <=> options.duration # 0
    BY <1>1 DEF IsPeriodic
  <1>5. InSchedule(t) <=> /\ IsInScheduleRanges(t)
                          /\ options.fires # {} => IsInRunningSchedule(t)
    BY <1>2, <1>3 DEF InSchedule
  <1> QED BY <1>4, <1>5 DEF ScheduleAction

\* A start leaves the rule running and a stop at rest, wherever it was.
LEMMA CarriedType ==
    ASSUME ScheduleTypeOK, NEW action
    PROVE  /\ Carried(action, scheduled) \in ScheduledRule
           /\ Carried(action, scheduled).state \in AtRest \cup {"Running"}
           /\ action = "start" => Carried(action, scheduled).state = "Running"
           /\ action = "stop" => Carried(action, scheduled).state # "Running"
           /\ action = "nothing" => Carried(action, scheduled) = scheduled
  <1>1. /\ scheduled \in ScheduledRule /\ now \in 0..MaxNow
        /\ scheduled.state \in AtRest \cup {"Running"}
    BY DEF ScheduleTypeOK
  <1>2. /\ Run(scheduled) \in ScheduledRule /\ Run(scheduled).state = "Running"
        /\ [scheduled EXCEPT !.state = "ScheduledStop"] \in ScheduledRule
        /\ [scheduled EXCEPT !.state = "ScheduledStop"].state = "ScheduledStop"
        /\ [scheduled EXCEPT !.state = "Stopped"] \in ScheduledRule
        /\ [scheduled EXCEPT !.state = "Stopped"].state = "Stopped"
    BY <1>1 DEF Run, ScheduledRule, RunState
  <1>3. /\ Proceeds("scheduledStart") = {"ScheduledStop", "Stopped", "StoppedByErr"}
        /\ Proceeds("scheduledStop") = {"Running"}
        /\ Proceeds("stop") = {"Running", "ScheduledStop"}
    BY DEF Proceeds
  <1> QED BY <1>1, <1>2, <1>3 DEF Carried, AtRest

\* A new state of the rule.
LEMMA RecoveredType ==
    ASSUME now \in 0..MaxNow, NEW triggered \in BOOLEAN
    PROVE  /\ RecoveredRule(triggered) \in ScheduledRule
           /\ RecoveredRule(triggered).state \in AtRest \cup {"Running"}
  <1> DEFINE r == [state |-> "Stopped", start |-> 0, triggered |-> triggered]
  <1>1. r \in ScheduledRule /\ r.state = "Stopped"
    BY ScheduleAssumption DEF ScheduledRule, RunState
  <1> HIDE DEF r
  <1>2. /\ [r EXCEPT !.state = "ScheduledStop"] \in ScheduledRule
        /\ [r EXCEPT !.state = "ScheduledStop"].state = "ScheduledStop"
        /\ Run(r) \in ScheduledRule /\ Run(r).state = "Running"
    BY <1>1 DEF Run, ScheduledRule, RunState
  <1>3. \/ RecoveredRule(triggered) = r
        \/ RecoveredRule(triggered) = [r EXCEPT !.state = "ScheduledStop"]
        \/ RecoveredRule(triggered) = Run(r)
    BY DEF RecoveredRule, r
  <1> QED BY <1>1, <1>2, <1>3 DEF AtRest

LEMMA ScheduleInvInit == ScheduleInit => ScheduleInv
  <1> SUFFICES ASSUME ScheduleInit PROVE ScheduleInv
    OBVIOUS
  <1>1. /\ options \in RuleOptions /\ now = 0 /\ patrol = Idle /\ orphans = 0 /\ userCalls = 0
        /\ lookedAt = 0 /\ touched /\ stale \in BOOLEAN /\ touched \in BOOLEAN
    BY DEF ScheduleInit
  <1>2. 0 \in 0..MaxNow /\ 0 \in 0..MaxUserCalls
    BY ScheduleAssumption
  <1>3. PICK triggered \in BOOLEAN : scheduled = RecoveredRule(triggered) /\ dismissed = ~triggered
    BY DEF ScheduleInit
  <1>4. scheduled \in ScheduledRule /\ scheduled.state \in AtRest \cup {"Running"}
    BY <1>1, <1>2, <1>3, RecoveredType
  <1>5. /\ patrol \in [at : {"idle", "schedule", "restart"}, state : RunState,
                       start : 0..MaxNow, now : 0..MaxNow]
        /\ patrol.at = "idle" /\ patrol.now = 0
    BY <1>1, <1>2 DEF Idle, RunState
  <1>6. ScheduleTypeOK
    BY <1>1, <1>2, <1>3, <1>4, <1>5 DEF ScheduleTypeOK
  <1>7. RunsInSchedule
    BY <1>1 DEF RunsInSchedule
  <1>8. SeenInv
    BY <1>1, <1>5 DEF SeenInv
  <1> QED BY <1>6, <1>7, <1>8 DEF ScheduleInv

LEMMA LookStep ==
    ASSUME ScheduleInv, GetAllRulesWithState
    PROVE  ScheduleInv'
  <1> DEFINE at == IF IsScheduleRule \/ IsDurationRule THEN "schedule" ELSE "restart"
  <1>1. /\ ScheduleTypeOK /\ RunsInSchedule
        /\ patrol' = [at |-> at, state |-> scheduled.state, start |-> scheduled.start, now |-> now]
        /\ stale' = FALSE /\ stale' \in BOOLEAN
        /\ UNCHANGED <<options, now, scheduled, orphans, userCalls, lookedAt, touched, dismissed>>
    BY DEF ScheduleInv, GetAllRulesWithState
  <1>2. /\ scheduled.state \in RunState /\ scheduled.start \in 0..MaxNow /\ now \in 0..MaxNow
        /\ now \in Nat
    BY <1>1, ScheduleAssumption DEF ScheduleTypeOK, ScheduledRule
  <1>3. /\ at \in {"idle", "schedule", "restart"}
        /\ at = "schedule" => IsScheduleRule \/ IsDurationRule
        /\ at = "restart" => ~(IsScheduleRule \/ IsDurationRule)
    OBVIOUS
  <1> HIDE DEF at
  <1>4. /\ patrol' \in [at : {"idle", "schedule", "restart"}, state : RunState,
                        start : 0..MaxNow, now : 0..MaxNow]
        /\ patrol'.at = at /\ patrol'.state = scheduled.state /\ patrol'.start = scheduled.start
        /\ patrol'.now = now
    BY <1>1, <1>2, <1>3
  <1>5. ScheduleTypeOK'
    BY <1>1, <1>4 DEF ScheduleTypeOK
  <1>6. RunsInSchedule'
    BY <1>1 DEF RunsInSchedule, IsPeriodic, IsScheduleRule, InSchedule
  <1>7. SeenInv'
    <2>1. patrol'.now <= now'
      BY <1>1, <1>2, <1>4
    <2>2. patrol'.at = "schedule" => IsScheduleRule' \/ IsDurationRule'
      BY <1>1, <1>3, <1>4 DEF IsScheduleRule, IsDurationRule
    <2>3. scheduled'.state = patrol'.state /\ scheduled'.start = patrol'.start
      BY <1>1, <1>4
    <2>4. patrol'.state = "StoppedByErr" => scheduled'.state # "Running"
      BY <2>3
    <2> QED BY <2>1, <2>2, <2>3, <2>4 DEF SeenInv
  <1> QED BY <1>5, <1>6, <1>7 DEF ScheduleInv

\* What the patrol does with a rule that it has seen in error, and that has no schedule.
LEMMA LeftToRecovery ==
    ASSUME options \in RuleOptions, NEW seen, ~IsScheduleRule, IsDurationRule,
           seen.state # "Running"
    PROVE  ScheduleAction(seen) = "nothing"
  <1>1. options.ranges = {} /\ options.duration # 0 /\ options.duration > 0
    BY OptionsType DEF IsScheduleRule, IsDurationRule
  <1>2. options.fires = {}
    BY <1>1 DEF IsScheduleRule
  <1> QED BY <1>1, <1>2 DEF ScheduleAction, IsInScheduleRanges, HasRunItsTime

LEMMA HandleStep ==
    ASSUME ScheduleInv, HandleScheduleRuleState
    PROVE  ScheduleInv'
  <1> DEFINE action == ScheduleAction(patrol)
  <1>1. /\ ScheduleTypeOK /\ SeenInv /\ patrol.at = "schedule"
        /\ patrol' = [patrol EXCEPT !.at = "restart"] /\ scheduled' = Carried(action, scheduled)
        /\ ~touched' /\ touched' \in BOOLEAN /\ lookedAt' = patrol.now
        /\ UNCHANGED <<options, now, orphans, userCalls, stale, dismissed>>
    BY DEF ScheduleInv, HandleScheduleRuleState
  <1>2. /\ patrol \in [at : {"idle", "schedule", "restart"}, state : RunState,
                       start : 0..MaxNow, now : 0..MaxNow]
        /\ options \in RuleOptions
    BY <1>1 DEF ScheduleTypeOK
  <1>3. /\ patrol' \in [at : {"idle", "schedule", "restart"}, state : RunState,
                        start : 0..MaxNow, now : 0..MaxNow]
        /\ patrol'.at = "restart" /\ patrol'.state = patrol.state /\ patrol'.now = patrol.now
        /\ patrol.now \in 0..MaxNow /\ patrol.now \in Nat
    BY <1>1, <1>2
  <1> HIDE DEF action
  <1>4. /\ scheduled' \in ScheduledRule /\ scheduled'.state \in AtRest \cup {"Running"}
        /\ action = "start" => scheduled'.state = "Running"
        /\ action = "stop" => scheduled'.state # "Running"
        /\ action = "nothing" => scheduled' = scheduled
    BY <1>1, CarriedType
  <1>5. ScheduleTypeOK'
    BY <1>1, <1>3, <1>4 DEF ScheduleTypeOK
  <1>6. RunsInSchedule'
    <2> SUFFICES ASSUME IsPeriodic'
                 PROVE  scheduled'.state = "Running" <=> InSchedule(lookedAt)'
      BY DEF RunsInSchedule
    <2>1. IsPeriodic
      BY <1>1 DEF IsPeriodic, IsScheduleRule
    <2>2. action = IF InSchedule(patrol.now) THEN "start" ELSE "stop"
      BY <1>2, <1>3, <2>1, ActionIsSchedule DEF action
    <2>3. InSchedule(lookedAt)' <=> InSchedule(patrol.now)
      BY <1>1 DEF InSchedule
    <2> QED BY <1>4, <2>2, <2>3
  <1>7. SeenInv'
    <2>1. patrol'.now <= now'
      BY <1>1, <1>3 DEF SeenInv
    <2>2. ASSUME ~stale', ~IsScheduleRule', patrol'.state = "StoppedByErr"
          PROVE  scheduled'.state # "Running"
      <3>1. ~stale /\ ~IsScheduleRule /\ patrol.state = "StoppedByErr" /\ IsDurationRule
        BY <1>1, <1>3, <2>2 DEF SeenInv, IsScheduleRule
      <3>2. scheduled.state = "StoppedByErr"
        BY <1>1, <3>1 DEF SeenInv
      <3>3. action = "nothing"
        BY <1>2, <3>1, LeftToRecovery DEF action
      <3> QED BY <1>4, <3>2, <3>3
    <2> QED BY <1>3, <2>1, <2>2 DEF SeenInv
  <1> QED BY <1>5, <1>6, <1>7 DEF ScheduleInv

LEMMA RestartStep ==
    ASSUME ScheduleInv, RestartByStrategy
    PROVE  ScheduleInv'
  <1>1. /\ ScheduleTypeOK /\ SeenInv /\ RunsInSchedule
        /\ patrol' = [patrol EXCEPT !.at = "idle"]
        /\ UNCHANGED <<options, now, userCalls, lookedAt, touched, stale, dismissed>>
    BY DEF ScheduleInv, RestartByStrategy
  <1>2. /\ patrol \in [at : {"idle", "schedule", "restart"}, state : RunState,
                       start : 0..MaxNow, now : 0..MaxNow]
        /\ now \in 0..MaxNow /\ orphans \in Nat /\ scheduled \in ScheduledRule
        /\ scheduled.triggered \in BOOLEAN /\ scheduled.state \in AtRest \cup {"Running"}
    BY <1>1 DEF ScheduleTypeOK, ScheduledRule
  <1>3. /\ patrol' \in [at : {"idle", "schedule", "restart"}, state : RunState,
                        start : 0..MaxNow, now : 0..MaxNow]
        /\ patrol'.at = "idle" /\ patrol'.now = patrol.now
    BY <1>1, <1>2
  <1>4. CASE UNCHANGED <<scheduled, orphans>>
    <2>1. ScheduleTypeOK'
      BY <1>1, <1>3, <1>4 DEF ScheduleTypeOK
    <2>2. RunsInSchedule'
      BY <1>1, <1>4 DEF RunsInSchedule, IsPeriodic, IsScheduleRule, InSchedule
    <2>3. SeenInv'
      BY <1>1, <1>3 DEF SeenInv
    <2> QED BY <2>1, <2>2, <2>3 DEF ScheduleInv
  <1>5. CASE options.attempts > 0 /\ patrol.state = "StoppedByErr"
    <2>1. /\ scheduled' = RecoveredRule(scheduled.triggered) /\ orphans' \in Nat
      BY <1>2, <1>5 DEF RestartByStrategy
    <2>2. scheduled' \in ScheduledRule /\ scheduled'.state \in AtRest \cup {"Running"}
      BY <1>2, <2>1, RecoveredType
    <2>3. ScheduleTypeOK'
      BY <1>1, <1>3, <2>1, <2>2 DEF ScheduleTypeOK
    <2>4. options.attempts # 0
      BY <1>5
    <2>5. RunsInSchedule'
      BY <1>1, <2>4 DEF RunsInSchedule
    <2>6. SeenInv'
      BY <1>1, <1>3 DEF SeenInv
    <2> QED BY <2>3, <2>5, <2>6 DEF ScheduleInv
  <1> QED BY <1>4, <1>5 DEF RestartByStrategy

LEMMA UserStep ==
    ASSUME ScheduleInv, StartByUser \/ StopByUser \/ RunFinishes
    PROVE  ScheduleInv'
  <1>1. /\ ScheduleTypeOK /\ SeenInv /\ Happens
        /\ touched' /\ touched' \in BOOLEAN /\ stale' /\ stale' \in BOOLEAN
        /\ userCalls' = userCalls + 1 /\ userCalls < MaxUserCalls
        /\ UNCHANGED <<options, now, orphans, patrol, lookedAt>>
    BY DEF ScheduleInv, StartByUser, StopByUser, RunFinishes, Happens
  <1>2. /\ scheduled \in ScheduledRule /\ now \in 0..MaxNow /\ dismissed \in BOOLEAN
        /\ scheduled.state \in AtRest \cup {"Running"} /\ userCalls \in 0..MaxUserCalls
    BY <1>1 DEF ScheduleTypeOK
  <1>3. scheduled' \in ScheduledRule /\ scheduled'.state \in AtRest \cup {"Running"}
    <2>1. ASSUME NEW state \in {"StoppedByErr", "Stopped"}
          PROVE  /\ [scheduled EXCEPT !.state = state] \in ScheduledRule
                 /\ [scheduled EXCEPT !.state = state].state \in AtRest
      BY <1>2 DEF ScheduledRule, RunState, AtRest
    <2>2. CASE StartByUser
      <3> DEFINE run == Run(scheduled)
      <3>1. run \in ScheduledRule /\ run.state = "Running"
        BY <1>2 DEF Run, ScheduledRule, RunState
      <3>2. scheduled' = [run EXCEPT !.triggered = TRUE]
        BY <2>2 DEF StartByUser
      <3> HIDE DEF run
      <3> QED BY <3>1, <3>2 DEF ScheduledRule
    <2>3. CASE StopByUser
      BY <1>2, <2>1, <2>3 DEF StopByUser
    <2>4. CASE RunFinishes
      BY <2>1, <2>4 DEF RunFinishes
    <2> QED BY <2>2, <2>3, <2>4
  <1>4. dismissed' \in BOOLEAN
    BY <1>2 DEF StartByUser, StopByUser, RunFinishes
  <1>5. userCalls' \in 0..MaxUserCalls
    BY <1>1, <1>2, ScheduleAssumption
  <1>6. ScheduleTypeOK'
    BY <1>1, <1>3, <1>4, <1>5 DEF ScheduleTypeOK
  <1>7. RunsInSchedule'
    BY <1>1 DEF RunsInSchedule
  <1>8. SeenInv'
    BY <1>1 DEF SeenInv, IsScheduleRule, IsDurationRule
  <1> QED BY <1>6, <1>7, <1>8 DEF ScheduleInv

LEMMA ScheduleInvNext == ScheduleInv /\ [ScheduleNext]_schedVars => ScheduleInv'
  <1> SUFFICES ASSUME ScheduleInv, [ScheduleNext]_schedVars PROVE ScheduleInv'
    OBVIOUS
  <1>1. CASE Tick
    <2>1. /\ now' = now + 1 /\ now < MaxNow /\ now \in 0..MaxNow /\ MaxNow \in Nat
          /\ UNCHANGED <<options, scheduled, orphans, patrol, userCalls, lookedAt, touched,
                         stale, dismissed>>
      BY <1>1, ScheduleAssumption DEF Tick, ScheduleInv, ScheduleTypeOK
    <2>2. now' \in 0..MaxNow /\ now <= now' /\ now \in Nat /\ now' \in Nat
      BY <2>1
    <2>3. ScheduleTypeOK'
      BY <2>1, <2>2 DEF ScheduleInv, ScheduleTypeOK
    <2>4. RunsInSchedule'
      BY <2>1 DEF ScheduleInv, RunsInSchedule, IsPeriodic, IsScheduleRule, InSchedule
    <2>5. SeenInv'
      <3>1. patrol.now \in Nat /\ patrol.now <= now
        BY DEF ScheduleInv, ScheduleTypeOK, SeenInv
      <3>2. patrol'.now <= now'
        BY <2>1, <2>2, <3>1
      <3> QED BY <2>1, <3>2 DEF ScheduleInv, SeenInv, IsScheduleRule, IsDurationRule
    <2> QED BY <2>3, <2>4, <2>5 DEF ScheduleInv
  <1>2. CASE UNCHANGED schedVars
    BY <1>2 DEF schedVars, ScheduleInv, ScheduleTypeOK, RunsInSchedule, SeenInv, IsPeriodic,
       IsScheduleRule, IsDurationRule, InSchedule
  <1> QED BY <1>1, <1>2, LookStep, HandleStep, RestartStep, UserStep DEF ScheduleNext

\* The patrol stops a rule with a duration only when it has run that long, and does not
\* start a second run of it.
LEMMA PatrolSteps ==
    ASSUME ScheduleInv, [ScheduleNext]_schedVars, ~IsScheduleRule, ~stale
    PROVE  /\ HandleScheduleRuleState /\ scheduled.state = "Running" /\ scheduled'.state # "Running"
                => now - scheduled.start >= options.duration
           /\ RestartByStrategy => orphans' = orphans
  <1>1. ASSUME HandleScheduleRuleState, scheduled.state = "Running", scheduled'.state # "Running"
        PROVE  now - scheduled.start >= options.duration
    <2> DEFINE action == ScheduleAction(patrol)
    <2>1. /\ ScheduleTypeOK /\ SeenInv /\ patrol.at = "schedule"
          /\ scheduled' = Carried(action, scheduled)
      BY <1>1 DEF ScheduleInv, HandleScheduleRuleState
    <2>2. options \in RuleOptions /\ patrol.now \in Nat /\ scheduled.start \in Nat /\ now \in Nat
      BY <2>1 DEF ScheduleTypeOK, ScheduledRule
    <2>3. /\ scheduled.state = patrol.state /\ scheduled.start = patrol.start
          /\ patrol.now <= now /\ IsDurationRule
      BY <2>1 DEF SeenInv
    <2>4. options.ranges = {} /\ options.duration \in Nat /\ options.duration # 0
      BY <2>2, <2>3, OptionsType DEF IsScheduleRule, IsDurationRule
    <2>5. options.fires = {}
      BY <2>3 DEF IsScheduleRule, IsDurationRule
    <2>6. action = IF HasRunItsTime(patrol) THEN "end" ELSE "nothing"
      BY <2>4, <2>5 DEF ScheduleAction, IsInScheduleRanges
    <2> HIDE DEF action
    <2>7. action # "nothing"
      BY <1>1, <2>1, CarriedType
    <2>8. patrol.now - patrol.start >= options.duration
      BY <2>6, <2>7 DEF HasRunItsTime
    <2> QED BY <2>2, <2>3, <2>4, <2>8
  <1>2. ASSUME RestartByStrategy
        PROVE  orphans' = orphans
    BY <1>2 DEF RestartByStrategy, ScheduleInv, SeenInv
  <1> QED BY <1>1, <1>2

\* A periodic rule runs just when its schedule said so at the last look of the patrol, a
\* rule with a duration is not stopped before, and the patrol starts no second run of a
\* rule without a schedule: for any options, times and users, as long as nothing else
\* changes the rule while it is looked at (rule_init.go:228-318, schedule.go:32-133).
THEOREM PatrolIsSound == ScheduleSpec => ScheduleSound
  <1>1. ScheduleInit => ScheduleInv
    BY ScheduleInvInit
  <1>2. ScheduleInv /\ [ScheduleNext]_schedVars => ScheduleInv'
    BY ScheduleInvNext
  <1>3. ScheduleInv => ScheduleTypeOK /\ RunsInSchedule
    BY DEF ScheduleInv
  <1>4. ScheduleInv /\ [ScheduleNext]_schedVars
        => [HandleScheduleRuleState /\ ~IsScheduleRule /\ ~stale
            /\ scheduled.state = "Running" /\ scheduled'.state # "Running"
             => now - scheduled.start >= options.duration]_schedVars
    BY PatrolSteps
  <1>5. ScheduleInv /\ [ScheduleNext]_schedVars
        => [RestartByStrategy /\ ~IsScheduleRule /\ ~stale => orphans' = orphans]_schedVars
    BY PatrolSteps
  <1> QED BY <1>1, <1>2, <1>3, <1>4, <1>5, PTL
          DEF ScheduleSpec, ScheduleSound, DurationIsFull, OneRunOfRule

-----------------------------------------------------------------------------
(* The registry of rules                                                   *)

\* The import has stored a definition that it is going to register.
Importing == \E c \in Callers : pc[c].op = "import" /\ pc[c].at \in {"reload", "register"}

\* What a method does at which of its steps.
OpsAt(at) ==
    CASE at = "load"                           -> {"create", "start", "stop", "restart", "patrol"}
      [] at \in {"trigger", "rewrite", "signal"} -> {"start", "stop", "restart"}
      [] at \in {"lock", "work"}               -> {"create", "upsert", "start", "stop", "restart"}
      [] at = "save"                           -> {"create"}
      [] at \in {"check", "compare", "persist"} -> {"upsert"}
      [] at = "remove"                         -> {"delete"}
      [] at = "undo"                           -> {"create", "upsert", "delete"}
      [] at = "reload"                         -> {"restart", "import"}
      [] at = "put"                            -> {"restart"}
      [] at = "begin"                          -> {"restart", "import", "patrol"}
      [] at \in {"write", "store"}             -> {"import"}
      [] at = "register"                       -> {"import", "patrol"}
      [] OTHER                                 -> AllMethods

\* The steps at which a call works on the state it has found or made.
WithState == {"trigger", "rewrite", "signal", "lock", "work", "save", "persist", "undo", "put",
              "begin"}

\* Nobody else knows the state that the call has made.
Private(c) == \A d \in Callers : d # c => pc[d].st # pc[c].st

\* A call is at a step of its method, and has a state where it works on one; only an
\* upsert keeps the lock of the registry.
CallInv(c) ==
    /\ pc[c].op \in OpsAt(pc[c].at)
    /\ pc[c].at \in WithState \/ (pc[c].at = "reload" /\ pc[c].op = "restart") => pc[c].st # 0
    /\ rlock = c <=> pc[c].op = "upsert"
                     /\ pc[c].at \in {"compare", "lock", "work", "persist", "undo"}

\* What a call is about to start is registered, or was touched by a race.
StarterInv(c) ==
    pc[c].op \in {"start", "restart", "import", "patrol"} /\ pc[c].st # 0
        => pc[c].st = mem \/ pc[c].st \in raced

\* A creation has a state of its own, and so has an upsert of an unknown rule: it has no
\* topology before its turn.
OwnerInv(c) ==
    /\ pc[c].op = "create" /\ pc[c].at \in {"lock", "work", "save", "undo"}
           => pc[c].st # mem /\ Private(c)
    /\ pc[c].op = "upsert" /\ pc[c].at \in {"lock", "work", "persist", "undo"}
           => pc[c].st = mem \/ (mem = 0 /\ Private(c))
    /\ pc[c].op \in {"create", "upsert"} /\ pc[c].at \in {"lock", "work"} /\ pc[c].st # mem
           => states[pc[c].st].tp = 0

\* What it stores is not ahead of what the state has in memory.
StoreInv(c) ==
    /\ pc[c].at = "save" => states[pc[c].st].rule = pc[c].new
    /\ pc[c].at = "persist"
           => pc[c].st \in raced \/ states[pc[c].st].rule.ver >= pc[c].new.ver
    /\ pc[c].op = "upsert" /\ pc[c].at \in {"lock", "work", "persist"}
           => db = None \/ mem \in raced \/ Importing \/ undeleted \/ db.ver <= pc[c].new.ver

\* What runs without being registered is about to be registered or deleted.
TpInv ==
    \A s \in DOMAIN states :
        states[s].tp # 0 /\ s # mem /\ s \notin raced
            => \E c \in Callers : pc[c].st = s /\ pc[c].at \in {"save", "persist", "undo"}

\* What is stored and not registered is about to be, by an import, or could not be deleted;
\* memory is not behind the database, but for that, an import and the races.
StoredInv ==
    db # None => \/ Importing \/ undeleted
                 \/ mem # 0 /\ (mem \in raced \/ db.ver <= states[mem].rule.ver)

\* ruleLock of a state has one holder.
CallHolders(s) == {c \in Callers : pc[c].at = "work" /\ pc[c].st = s}
EndHolders(s)  == {e \in DOMAIN ends : ends[e].at = "clean" /\ ends[e].st = s}

HolderInv(s) ==
    IF states[s].busy
    THEN \/ (\E c \in Callers : CallHolders(s) = {c}) /\ EndHolders(s) = {}
         \/ (\E e \in DOMAIN ends : EndHolders(s) = {e}) /\ CallHolders(s) = {}
    ELSE CallHolders(s) = {} /\ EndHolders(s) = {}

RegTypes ==
    /\ rlock \in Callers \cup {None}
    /\ states \in Seq(State) /\ mem \in 0..Len(states)
    /\ db = None \/ db \in RuleDef
    /\ pc \in [Callers -> Caller] /\ \A c \in Callers : pc[c].st \in 0..Len(states)
    /\ calls \in [Callers -> 0..MaxCalls]
    /\ ends \in Seq(End) /\ Len(ends) <= MaxEnds
    /\ \A e \in DOMAIN ends : ends[e].st \in DOMAIN states
    /\ raced \subseteq DOMAIN states

\* What updateTrigger is about to write is the version that is stored, unless an import has
\* written in between; the lock of the registry keeps all others away.
RewriteInv ==
    /\ undeleted \in BOOLEAN
    /\ rewrite # None => /\ rewrite \in RuleDef /\ rlock = None /\ db # None
                         /\ rewrite.ver = db.ver \/ Importing

RegInv ==
    /\ RegTypes
    /\ \A c \in Callers : CallInv(c) /\ StarterInv(c) /\ OwnerInv(c) /\ StoreInv(c)
    /\ \A s \in DOMAIN states : HolderInv(s)
    /\ TpInv /\ StoredInv

-----------------------------------------------------------------------------
(* What a step leaves to the others                                        *)

\* The state s after a step of c: the definition is the same, and a topology at most
\* forgotten, unless c works on the state.
StateKept(c, s) ==
    \/ /\ states'[s].rule = states[s].rule
       /\ states'[s].tp \in {states[s].tp, 0}
    \/ /\ c \in Callers /\ s = pc[c].st
       /\ \/ rlock = c
          \/ pc[c].op = "create" /\ pc[c].at = "work"
          \/ s \in raced'
          \/ states'[s].rule.ver >= states[s].rule.ver

\* The definition stored is the same but for Triggered, or an import has written it.
SameVersion ==
    /\ db' = None <=> db = None
    /\ db' # None => db' \in RuleDef /\ (db'.ver = db.ver \/ Importing)
    /\ undeleted' = undeleted

\* A step of c, or of a run that ends if c is None.
StepKeeps(c) ==
    /\ pc' \in [Callers -> Caller] /\ \A d \in Callers \ {c} : pc'[d] = pc[d]
    /\ \A d \in Callers \ {c} : rlock' = d <=> rlock = d
    /\ c \in Callers => pc'[c].st \in {0, mem, pc[c].st, Len(states) + 1}
    /\ rlock \in Callers \ {c} => mem' = mem
    /\ mem' \in {mem, 0, Len(states) + 1} \/ (c \in Callers /\ mem' = pc[c].st)
    /\ raced \subseteq raced'
    /\ mem' # mem => LeavesWhileHeld \subseteq raced'
    /\ states' \in Seq(State) /\ Len(states) <= Len(states')
    /\ \A s \in DOMAIN states : StateKept(c, s)
    /\ rlock \in Callers \ {c} /\ db' # None
           => Importing' \/ (db # None /\ db'.ver = db.ver /\ undeleted' = undeleted)
    /\ rlock \in Callers \ {c} /\ Importing => Importing' \/ db' = None

LEMMA OthersKept ==
    ASSUME RegInv, NEW c \in Callers \cup {None}, StepKeeps(c), NEW d \in Callers \ {c}
    PROVE  CallInv(d)' /\ StarterInv(d)' /\ OwnerInv(d)' /\ StoreInv(d)'
  <1>1. /\ RegTypes /\ CallInv(d) /\ StarterInv(d) /\ OwnerInv(d) /\ StoreInv(d)
        /\ pc[d] \in Caller /\ pc'[d] = pc[d] /\ (rlock' = d <=> rlock = d)
        /\ mem \in 0..Len(states) /\ Len(states) \in Nat /\ pc[d].st \in 0..Len(states)
        /\ DOMAIN states = 1..Len(states) /\ raced \subseteq raced'
        /\ raced \subseteq DOMAIN states
    BY DEF RegInv, RegTypes, StepKeeps
  <1>2. CallInv(d)'
    BY <1>1 DEF CallInv, OpsAt
  <1>3. StarterInv(d)'
    <2> SUFFICES ASSUME pc[d].op \in {"start", "restart", "import", "patrol"}, pc[d].st # 0,
                        pc[d].st \notin raced'
                 PROVE  pc[d].st = mem'
      BY <1>1 DEF StarterInv
    <2>1. pc[d].st = mem
      BY <1>1 DEF StarterInv
    <2>2. mem # mem' => mem \in LeavesWhileHeld
      BY <2>1 DEF LeavesWhileHeld, WillStart
    <2> QED BY <2>1, <2>2 DEF StepKeeps
  <1>4. Private(d) /\ pc[d].st # 0 /\ pc[d].st # mem => Private(d)' /\ pc[d].st # mem'
    <2> SUFFICES ASSUME Private(d), pc[d].st # 0, pc[d].st # mem
                 PROVE  Private(d)' /\ pc[d].st # mem'
      OBVIOUS
    <2>1. c \in Callers => pc[c].st # pc[d].st
      BY DEF Private
    <2>2. pc[d].st # Len(states) + 1
      BY <1>1
    <2>3. c \in Callers => pc'[c].st # pc[d].st
      BY <2>1, <2>2 DEF StepKeeps
    <2>4. pc[d].st # mem'
      BY <2>1, <2>2 DEF StepKeeps
    <2>5. ASSUME NEW a \in Callers, a # d PROVE pc'[a].st # pc'[d].st
      BY <1>1, <2>3, <2>5 DEF StepKeeps, Private
    <2> QED BY <2>4, <2>5 DEF Private
  <1>5. rlock = d => mem' = mem
    BY DEF StepKeeps
  <1>6. /\ pc[d].op = "create" /\ pc[d].at \in {"lock", "work", "save", "undo"}
               => pc[d].st \in DOMAIN states /\ pc[d].st # 0 /\ pc[d].st # mem /\ Private(d)
        /\ pc[d].op = "upsert" /\ pc[d].at \in {"lock", "work", "persist", "undo"}
               => /\ rlock = d /\ pc[d].st \in DOMAIN states /\ pc[d].st # 0
                  /\ pc[d].st = mem \/ (mem = 0 /\ Private(d))
        /\ pc[d].at = "save" => pc[d].op = "create"
        /\ pc[d].at = "persist" => pc[d].op = "upsert"
    BY <1>1 DEF OwnerInv, CallInv, WithState, OpsAt
  <1>7. ASSUME pc[d].st \in DOMAIN states, Private(d)
        PROVE  /\ states'[pc[d].st].rule = states[pc[d].st].rule
               /\ states'[pc[d].st].tp \in {states[pc[d].st].tp, 0}
    <2>1. StateKept(c, pc[d].st)
      BY <1>7 DEF StepKeeps
    <2>2. c \in Callers => pc[c].st # pc[d].st
      BY <1>7 DEF Private
    <2> QED BY <2>1, <2>2 DEF StateKept
  <1>8. OwnerInv(d)'
    BY <1>1, <1>4, <1>5, <1>6, <1>7 DEF OwnerInv
  <1>9. StoreInv(d)'
    <2>1. pc[d].at = "save" => states'[pc[d].st].rule = pc[d].new
      BY <1>1, <1>6, <1>7 DEF StoreInv
    <2>2. ASSUME pc[d].at = "persist"
          PROVE  pc[d].st \in raced' \/ states'[pc[d].st].rule.ver >= pc[d].new.ver
      <3>1. rlock = d /\ pc[d].st \in DOMAIN states
        BY <1>6, <2>2
      <3>2. pc[d].st \in raced \/ states[pc[d].st].rule.ver >= pc[d].new.ver
        BY <1>1, <2>2 DEF StoreInv
      <3>3. StateKept(c, pc[d].st)
        BY <3>1 DEF StepKeeps
      <3>4. CASE states'[pc[d].st].rule = states[pc[d].st].rule
        BY <1>1, <3>2, <3>4
      <3>5. CASE c \in Callers /\ pc[d].st = pc[c].st
                 /\ (pc[d].st \in raced' \/ states'[pc[d].st].rule.ver >= states[pc[d].st].rule.ver)
        <4>1. pc[d].new \in RuleDef
          BY <1>1 DEF Caller
        <4>2. states[pc[d].st] \in State /\ states'[pc[d].st] \in State
          BY <1>1, <3>1 DEF RegTypes, StepKeeps
        <4>3. states[pc[d].st].rule \in RuleDef /\ states'[pc[d].st].rule \in RuleDef
          BY <4>2 DEF State
        <4>4. /\ pc[d].new.ver \in Nat /\ states[pc[d].st].rule.ver \in Nat
              /\ states'[pc[d].st].rule.ver \in Nat
          BY <4>1, <4>3, BoundsAssumption DEF RuleDef
        <4> QED BY <1>1, <3>2, <3>5, <4>4
      <3>6. CASE c \in Callers /\ pc[d].st = pc[c].st /\ pc[c].op = "create" /\ pc[c].at = "work"
        <4>1. Private(c)
          BY <3>6 DEF RegInv, OwnerInv
        <4> QED BY <3>6, <4>1 DEF Private
      <3> QED BY <3>1, <3>3, <3>4, <3>5, <3>6 DEF StateKept
    <2>3. ASSUME pc[d].op = "upsert", pc[d].at \in {"lock", "work", "persist"}
          PROVE  db' = None \/ mem' \in raced' \/ Importing' \/ undeleted' \/ db'.ver <= pc[d].new.ver
      <3>1. rlock \in Callers \ {c} /\ mem' = mem
        BY <1>5, <1>6, <2>3
      <3>2. db = None \/ mem \in raced \/ Importing \/ undeleted \/ db.ver <= pc[d].new.ver
        BY <1>1, <2>3 DEF StoreInv
      <3> QED BY <1>1, <3>1, <3>2 DEF StepKeeps
    <2> QED BY <1>1, <2>1, <2>2, <2>3 DEF StoreInv
  <1> QED BY <1>2, <1>3, <1>8, <1>9

\* The topologies after a step of c.
LEMMA TpKept ==
    ASSUME RegInv, NEW c \in Callers \cup {None},
           pc' \in [Callers -> Caller], \A d \in Callers \ {c} : pc'[d] = pc[d],
           raced \subseteq raced',
           \A s \in DOMAIN states' :
               \/ states'[s].tp = 0 \/ s = mem' \/ s \in raced'
               \/ c \in Callers /\ pc'[c].st = s /\ pc'[c].at \in {"save", "persist", "undo"}
               \/ /\ s \in DOMAIN states /\ states[s].tp # 0 /\ s # mem
                  /\ ~(c \in Callers /\ pc[c].st = s /\ pc[c].at \in {"save", "persist", "undo"})
    PROVE  TpInv'
  <1> SUFFICES ASSUME NEW s \in DOMAIN states', states'[s].tp # 0, s # mem', s \notin raced'
               PROVE  \E d \in Callers : pc'[d].st = s /\ pc'[d].at \in {"save", "persist", "undo"}
    BY DEF TpInv
  <1>1. CASE c \in Callers /\ pc'[c].st = s /\ pc'[c].at \in {"save", "persist", "undo"}
    BY <1>1
  <1>2. CASE /\ s \in DOMAIN states /\ states[s].tp # 0 /\ s # mem
             /\ ~(c \in Callers /\ pc[c].st = s /\ pc[c].at \in {"save", "persist", "undo"})
    <2>1. PICK d \in Callers : pc[d].st = s /\ pc[d].at \in {"save", "persist", "undo"}
      BY <1>2 DEF RegInv, TpInv
    <2>2. d # c
      BY <1>2, <2>1
    <2> QED BY <2>1, <2>2
  <1> QED BY <1>1, <1>2
-----------------------------------------------------------------------------
(* Steps that leave the states                                             *)

\* c has gone on to at, with the state s.
Moved(c, at, s) ==
    /\ pc' \in [Callers -> Caller] /\ \A d \in Callers \ {c} : pc'[d] = pc[d]
    /\ pc'[c].at = at
    /\ at # "idle" => pc'[c].op = pc[c].op /\ pc'[c].st = s /\ pc'[c].new = pc[c].new
    /\ at = "idle" => pc'[c].op = "stop" /\ pc'[c].st = 0

LEMMA GoneWith ==
    ASSUME RegTypes, NEW c \in Callers, NEW at \in Locations, NEW s \in Nat, GoWith(c, at, s)
    PROVE  Moved(c, at, s)
  <1> DEFINE p == IF at = "idle" THEN IdleCaller
                  ELSE [at |-> at, op |-> pc[c].op, st |-> s, new |-> pc[c].new]
  <1>1. pc \in [Callers -> Caller] /\ pc[c] \in Caller
    BY DEF RegTypes
  <1>2. pc' = [pc EXCEPT ![c] = p]
    BY DEF GoWith
  <1>3. /\ p \in Caller /\ p.at = at
        /\ at # "idle" => p.op = pc[c].op /\ p.st = s /\ p.new = pc[c].new
        /\ at = "idle" => p.op = "stop" /\ p.st = 0
    <2>1. CASE at = "idle"
      <3>1. [ver |-> 0, triggered |-> TRUE, temp |-> FALSE] \in RuleDef
        BY BoundsAssumption DEF RuleDef
      <3>2. IdleCaller \in Caller /\ IdleCaller.at = "idle" /\ IdleCaller.op = "stop"
            /\ IdleCaller.st = 0
        BY <3>1 DEF IdleCaller, Caller, Locations, AllMethods
      <3> QED BY <2>1, <3>2
    <2>2. CASE at # "idle"
      <3>1. pc[c].op \in AllMethods /\ pc[c].new \in RuleDef
        BY <1>1 DEF Caller
      <3> QED BY <2>2, <3>1 DEF Caller
    <2> QED BY <2>1, <2>2
  <1> HIDE DEF p
  <1>4. pc' \in [Callers -> Caller] /\ pc'[c] = p /\ \A d \in Callers \ {c} : pc'[d] = pc[d]
    BY <1>1, <1>2, <1>3
  <1> QED BY <1>3, <1>4 DEF Moved

\* The step of a call holds all there is of the invariant.
LEMMA CallerStepInv ==
    ASSUME RegInv, NEW c \in Callers, StepKeeps(c), RegTypes',
           CallInv(c)' /\ StarterInv(c)' /\ OwnerInv(c)' /\ StoreInv(c)',
           \A s \in DOMAIN states' : HolderInv(s)', TpInv', StoredInv'
    PROVE  RegInv'
  BY OthersKept DEF RegInv

\* Nobody takes or gives back ruleLock.
LEMMA HoldersKept ==
    ASSUME RegInv, NEW c \in Callers, \A d \in Callers \ {c} : pc'[d] = pc[d],
           pc[c].at # "work", pc'[c].at # "work", UNCHANGED ends,
           NEW s \in DOMAIN states, states'[s].busy = states[s].busy
    PROVE  HolderInv(s)'
  <1>1. CallHolders(s)' = CallHolders(s) /\ EndHolders(s)' = EndHolders(s)
    BY DEF CallHolders, EndHolders
  <1>2. HolderInv(s)
    BY DEF RegInv
  <1> QED BY <1>1, <1>2 DEF HolderInv

\* What leaves the database alone.
LEMMA SameDefinition ==
    ASSUME RegInv, UNCHANGED <<db, undeleted>>
    PROVE  SameVersion
  BY DEF RegInv, RegTypes, SameVersion

\* A step of a call that changes nothing but where the call is, who has the lock of the
\* registry, and Triggered of the definition stored.
LEMMA QuietStep ==
    ASSUME RegInv, NEW c \in Callers,
           pc' \in [Callers -> Caller], \A d \in Callers \ {c} : pc'[d] = pc[d],
           pc'[c].st \in {0, mem, pc[c].st},
           pc[c].at \notin {"work", "save", "persist", "undo"}, pc'[c].at # "work",
           UNCHANGED <<mem, states, ends, raced>>, calls' \in [Callers -> 0..MaxCalls],
           rlock' = rlock \/ (rlock \in {c, None} /\ rlock' \in {c, None}),
           SameVersion,
           pc[c].op = "import" /\ pc[c].at \in {"reload", "register"} =>
               db = None \/ (pc'[c].op = "import" /\ pc'[c].at \in {"reload", "register"}),
           CallInv(c)' /\ StarterInv(c)' /\ OwnerInv(c)' /\ StoreInv(c)'
    PROVE  RegInv'
  <1>1. RegTypes /\ TpInv /\ StoredInv /\ Len(states) \in Nat /\ None \notin Callers
    BY CallersAssumption DEF RegInv, RegTypes
  <1>2. Importing => Importing' \/ db' = None
    <2> SUFFICES ASSUME NEW a \in Callers, pc[a].op = "import",
                        pc[a].at \in {"reload", "register"}, db # None
                 PROVE  Importing'
      BY DEF Importing, SameVersion
    <2>1. pc'[a].op = "import" /\ pc'[a].at \in {"reload", "register"}
      OBVIOUS
    <2> QED BY <2>1 DEF Importing
  <1>3. RegTypes'
    <2>0. db' = None \/ db' \in RuleDef
      BY DEF SameVersion
    <2>1. ASSUME NEW a \in Callers PROVE pc'[a].st \in 0..Len(states)
      <3>1. pc[a].st \in 0..Len(states) /\ mem \in 0..Len(states) /\ 0 \in 0..Len(states)
        BY <1>1 DEF RegTypes
      <3>2. pc'[a].st \in {0, mem, pc[a].st}
        OBVIOUS
      <3> QED BY <3>1, <3>2
    <2> QED BY <1>1, <2>0, <2>1 DEF RegTypes
  <1>4. StepKeeps(c)
    <2>1. \A s \in DOMAIN states : StateKept(c, s)
      BY DEF StateKept
    <2>2. \A d \in Callers \ {c} : rlock' = d <=> rlock = d
      BY <1>1
    <2>3. rlock \in Callers \ {c} /\ Importing => Importing' \/ db' = None
      BY <1>2
    <2>4. states' \in Seq(State) /\ Len(states) <= Len(states')
      BY <1>1 DEF RegTypes
    <2>5. rlock \in Callers \ {c} /\ db' # None
              => Importing' \/ (db # None /\ db'.ver = db.ver /\ undeleted' = undeleted)
      BY <1>2 DEF SameVersion
    <2> QED BY <2>1, <2>2, <2>3, <2>4, <2>5 DEF StepKeeps
  <1>5. \A s \in DOMAIN states' : HolderInv(s)'
    BY HoldersKept
  <1>6. TpInv'
    <2>1. ASSUME NEW s \in DOMAIN states'
          PROVE  \/ states'[s].tp = 0 \/ s = mem' \/ s \in raced'
                 \/ c \in Callers /\ pc'[c].st = s /\ pc'[c].at \in {"save", "persist", "undo"}
                 \/ /\ s \in DOMAIN states /\ states[s].tp # 0 /\ s # mem
                    /\ ~(c \in Callers /\ pc[c].st = s /\ pc[c].at \in {"save", "persist", "undo"})
      OBVIOUS
    <2> QED BY <2>1, TpKept
  <1>7. StoredInv'
    BY <1>1, <1>2 DEF StoredInv, SameVersion
  <1> QED BY <1>3, <1>4, <1>5, <1>6, <1>7, CallerStepInv

\* The fields of a call and of what it works on.
LEMMA CallFields ==
    ASSUME RegInv, NEW c \in Callers
    PROVE  /\ pc[c].at \in Locations /\ pc[c].op \in AllMethods /\ pc[c].new \in RuleDef
           /\ pc[c].st \in 0..Len(states) /\ pc[c].st \in Nat /\ mem \in 0..Len(states)
           /\ mem \in Nat /\ Len(states) \in Nat /\ DOMAIN states = 1..Len(states)
           /\ pc \in [Callers -> Caller] /\ states \in Seq(State) /\ calls \in [Callers -> 0..MaxCalls]
           /\ c # None /\ pc[c] \in Caller
  <1>1. /\ pc \in [Callers -> Caller] /\ pc[c].st \in 0..Len(states) /\ mem \in 0..Len(states)
        /\ states \in Seq(State) /\ calls \in [Callers -> 0..MaxCalls]
    BY DEF RegInv, RegTypes
  <1>2. pc[c] \in Caller /\ c # None
    BY <1>1, CallersAssumption
  <1> QED BY <1>1, <1>2 DEF Caller

LEMMA RequestStep ==
    ASSUME RegInv, NEW c \in Callers, NEW op \in Methods, Request(c, op)
    PROVE  RegInv'
  <1>1. op \in AllMethods
    BY MethodsAssumption
  <1>2. /\ pc[c].at = "idle" /\ calls[c] > 0 /\ calls' = [calls EXCEPT ![c] = @ - 1]
        /\ UNCHANGED <<rlock, mem, db, states, ends, raced, undeleted>>
    BY DEF Request, At
  <1>3. PICK new \in RuleDef : pc' = [pc EXCEPT ![c] = [at |-> FirstStep(op), op |-> op, st |-> 0,
                                                         new |-> new]]
    BY CallFields DEF Request
  <1> DEFINE p == [at |-> FirstStep(op), op |-> op, st |-> 0, new |-> new]
  <1>4. FirstStep(op) \in {"check", "remove", "write", "load"}
        /\ op \in OpsAt(FirstStep(op))
    BY <1>1 DEF FirstStep, AllMethods, OpsAt
  <1>5. p \in Caller /\ p.at = FirstStep(op) /\ p.op = op /\ p.st = 0
    BY <1>1, <1>4 DEF Caller, Locations
  <1>6. pc' = [pc EXCEPT ![c] = p]
    BY <1>3
  <1> HIDE DEF p
  <1>7. /\ pc' \in [Callers -> Caller] /\ pc'[c] = p /\ \A d \in Callers \ {c} : pc'[d] = pc[d]
    BY <1>5, <1>6, CallFields
  <1>8. calls' \in [Callers -> 0..MaxCalls]
    BY <1>2, CallFields, BoundsAssumption
  <1>9. CallInv(c)'
    <2>1. rlock # c
      BY <1>2 DEF RegInv, CallInv
    <2> QED BY <1>2, <1>4, <1>5, <1>7, <2>1 DEF CallInv, WithState
  <1>10. StarterInv(c)' /\ OwnerInv(c)' /\ StoreInv(c)'
    BY <1>4, <1>5, <1>7 DEF StarterInv, OwnerInv, StoreInv
  <1>11. SameVersion
    BY <1>2, SameDefinition
  <1>12. pc'[c].st \in {0, mem, pc[c].st}
    BY <1>5, <1>7
  <1>13. pc'[c].at # "work"
    BY <1>4, <1>5, <1>7
  <1> QED BY <1>2, <1>7, <1>8, <1>9, <1>10, <1>11, <1>12, <1>13, QuietStep

\* The same, for a call that goes on to at.
LEMMA QuietMove ==
    ASSUME RegInv, NEW c \in Callers, NEW at \in Locations, NEW s \in {mem, pc[c].st}, Moved(c, at, s),
           pc[c].at \notin {"work", "save", "persist", "undo"}, at # "work",
           UNCHANGED <<mem, states, calls, ends, raced>>,
           rlock' = rlock \/ (rlock \in {c, None} /\ rlock' \in {c, None}),
           SameVersion,
           pc[c].op = "import" => pc[c].at \notin {"reload", "register"} \/ db = None,
           CallInv(c)' /\ StarterInv(c)' /\ OwnerInv(c)' /\ StoreInv(c)'
    PROVE  RegInv'
  <1>1. pc'[c].st \in {0, mem, pc[c].st}
    BY DEF Moved
  <1>2. calls' \in [Callers -> 0..MaxCalls]
    BY CallFields
  <1> QED BY <1>1, <1>2, QuietStep DEF Moved

\* A call that ends.
LEMMA IdleInv ==
    ASSUME NEW c \in Callers, NEW s, Moved(c, "idle", s), rlock' # c
    PROVE  CallInv(c)' /\ StarterInv(c)' /\ OwnerInv(c)' /\ StoreInv(c)'
  BY DEF Moved, CallInv, OpsAt, AllMethods, WithState, StarterInv, OwnerInv, StoreInv

\* A call that finds nothing to do.
LEMMA GivesUp ==
    ASSUME RegInv, NEW c \in Callers, Go(c, "idle"),
           pc[c].at \notin {"work", "save", "persist", "undo"},
           UNCHANGED <<mem, db, states, calls, ends, raced, undeleted>>,
           (rlock' = rlock /\ rlock # c) \/ (rlock = c /\ rlock' = None),
           pc[c].op = "import" => pc[c].at \notin {"reload", "register"} \/ db = None
    PROVE  RegInv'
  <1>1. Moved(c, "idle", pc[c].st)
    BY GoneWith, CallFields DEF Go, Locations, RegInv
  <1>2. rlock' # c
    BY CallFields
  <1>3. CallInv(c)' /\ StarterInv(c)' /\ OwnerInv(c)' /\ StoreInv(c)'
    BY <1>1, <1>2, IdleInv
  <1>4. "idle" \in Locations /\ pc[c].st \in {mem, pc[c].st}
    BY DEF Locations
  <1>5. rlock' = rlock \/ (rlock \in {c, None} /\ rlock' \in {c, None})
    OBVIOUS
  <1>6. SameVersion
    BY SameDefinition
  <1> QED BY <1>1, <1>3, <1>4, <1>5, <1>6, QuietMove

LEMMA LoadStep ==
    ASSUME RegInv, NEW c \in Callers, Load(c)
    PROVE  RegInv'
  <1>1. /\ pc[c].at = "load" /\ pc[c].op \in {"start", "stop", "restart"} /\ rlock = None
        /\ UNCHANGED <<rlock, mem, db, states, calls, ends, raced, undeleted>>
    BY DEF Load, At, RegFree
  <1>2. CASE mem = 0
    <2>1. Go(c, "idle")
      BY <1>2 DEF Load
    <2> QED BY <1>1, <2>1, GivesUp, CallFields
  <1>3. CASE mem # 0
    <2>1. GoWith(c, "trigger", mem)
      BY <1>3 DEF Load
    <2>2. "trigger" \in Locations
      BY DEF Locations
    <2>3. Moved(c, "trigger", mem)
      BY <2>1, <2>2, GoneWith, CallFields DEF RegInv
    <2>4. CallInv(c)' /\ StarterInv(c)' /\ OwnerInv(c)' /\ StoreInv(c)'
      BY <1>1, <1>3, <2>3, CallFields
         DEF Moved, CallInv, OpsAt, StarterInv, OwnerInv, StoreInv
    <2>5. SameVersion
      BY <1>1, SameDefinition
    <2> QED BY <1>1, <2>2, <2>3, <2>4, <2>5, QuietMove
  <1> QED BY <1>2, <1>3

LEMMA TriggerKeeps ==
    ASSUME RegInv, NEW b \in BOOLEAN
    PROVE  TriggerSet(b) # None
               => db # None /\ TriggerSet(b) \in RuleDef /\ TriggerSet(b).ver = db.ver
  <1>1. db = None \/ db \in RuleDef
    BY DEF RegInv, RegTypes
  <1>2. CASE db = None \/ db.temp
    BY <1>1, <1>2 DEF TriggerSet
  <1>3. CASE ~(db = None \/ db.temp)
    <2>1. db \in RuleDef /\ TriggerSet(b) = [db EXCEPT !.triggered = b]
      BY <1>1, <1>3 DEF TriggerSet
    <2>2. [db EXCEPT !.triggered = b] \in RuleDef /\ [db EXCEPT !.triggered = b].ver = db.ver
      BY <2>1 DEF RuleDef
    <2> QED BY <1>3, <2>1, <2>2
  <1> QED BY <1>2, <1>3

\* What updateTrigger writes is the version that is stored.
LEMMA TriggerStored ==
    ASSUME RegInv, RewriteInv, StoreTrigger, undeleted' = undeleted
    PROVE  SameVersion
  <1>1. /\ db # None /\ db \in RuleDef /\ rewrite \in RuleDef /\ rewrite # None
        /\ rewrite.ver = db.ver \/ Importing
        /\ db' = db \/ db' = rewrite
    BY DEF StoreTrigger, RewriteInv, RegInv, RegTypes
  <1> QED BY <1>1 DEF SameVersion

LEMMA SetTriggerStep ==
    ASSUME RegInv, NEW c \in Callers, SetTrigger(c)
    PROVE  RegInv'
  <1> DEFINE at == IF db = None THEN AfterTrigger(pc[c].op) ELSE "rewrite"
  <1>1. /\ pc[c].at = "trigger" /\ rlock = None /\ Go(c, at)
        /\ UNCHANGED <<rlock, mem, db, states, calls, ends, raced, undeleted>>
    BY DEF SetTrigger, At, RegFree
  <1>2. CallInv(c) /\ StarterInv(c)
    BY DEF RegInv
  <1>3. pc[c].op \in {"start", "stop", "restart"} /\ pc[c].st # 0
    BY <1>1, <1>2 DEF CallInv, OpsAt, WithState
  <1>4. at \in Locations /\ at \in {"lock", "signal", "rewrite"}
    BY DEF Locations, AfterTrigger
  <1> HIDE DEF at
  <1>5. Moved(c, at, pc[c].st)
    BY <1>1, <1>4, GoneWith, CallFields DEF Go, RegInv
  <1>6. CallInv(c)' /\ StarterInv(c)' /\ OwnerInv(c)' /\ StoreInv(c)'
    BY <1>1, <1>2, <1>3, <1>4, <1>5, CallFields
       DEF Moved, CallInv, OpsAt, StarterInv, OwnerInv, StoreInv
  <1>7. SameVersion
    BY <1>1, SameDefinition
  <1>8. at # "work"
    BY <1>4
  <1> QED BY <1>1, <1>3, <1>4, <1>5, <1>6, <1>7, <1>8, QuietMove

LEMMA WriteTriggerStep ==
    ASSUME RegInv, RewriteInv, NEW c \in Callers, WriteTrigger(c)
    PROVE  RegInv'
  <1> DEFINE at == AfterTrigger(pc[c].op)
  <1>1. /\ pc[c].at = "rewrite" /\ StoreTrigger /\ Go(c, at)
        /\ UNCHANGED <<rlock, mem, states, calls, ends, raced, undeleted>>
    BY DEF WriteTrigger, At
  <1>2. CallInv(c) /\ StarterInv(c)
    BY DEF RegInv
  <1>3. pc[c].op \in {"start", "stop", "restart"} /\ pc[c].st # 0 /\ rlock = None
    BY <1>1, <1>2 DEF CallInv, OpsAt, WithState, StoreTrigger, RewriteInv
  <1>4. at \in Locations /\ at \in {"lock", "signal"}
    BY DEF Locations, AfterTrigger
  <1> HIDE DEF at
  <1>5. Moved(c, at, pc[c].st)
    BY <1>1, <1>4, GoneWith, CallFields DEF Go, RegInv
  <1>6. CallInv(c)' /\ StarterInv(c)' /\ OwnerInv(c)' /\ StoreInv(c)'
    BY <1>1, <1>2, <1>3, <1>4, <1>5, CallFields
       DEF Moved, CallInv, OpsAt, StarterInv, OwnerInv, StoreInv
  <1>7. SameVersion
    BY <1>1, TriggerStored
  <1>8. at # "work"
    BY <1>4
  <1> QED BY <1>1, <1>3, <1>4, <1>5, <1>6, <1>7, <1>8, QuietMove

LEMMA SignalStopStep ==
    ASSUME RegInv, NEW c \in Callers, SignalStop(c)
    PROVE  RegInv'
  <1>1. /\ pc[c].at = "signal" /\ UNCHANGED <<rlock, mem, db, states, calls, ends, raced, undeleted>>
    BY DEF SignalStop, At
  <1>2. CallInv(c) /\ StarterInv(c)
    BY DEF RegInv
  <1>3. pc[c].op \in {"start", "stop", "restart"} /\ pc[c].st # 0 /\ rlock # c
    BY <1>1, <1>2 DEF CallInv, OpsAt, WithState
  <1>4. CASE Go(c, "idle")
    BY <1>1, <1>3, <1>4, GivesUp
  <1>5. ASSUME NEW at \in {"lock", "reload"}, Go(c, at), at = "reload" => pc[c].op = "restart"
        PROVE  RegInv'
    <2>1. at \in Locations /\ at # "work"
      BY <1>5 DEF Locations
    <2>2. Moved(c, at, pc[c].st)
      BY <1>5, <2>1, GoneWith, CallFields DEF Go, RegInv
    <2>3. CallInv(c)' /\ StarterInv(c)' /\ OwnerInv(c)' /\ StoreInv(c)'
      BY <1>1, <1>2, <1>3, <1>5, <2>2
         DEF Moved, CallInv, OpsAt, StarterInv, OwnerInv, StoreInv
    <2>4. SameVersion
      BY <1>1, SameDefinition
    <2> QED BY <1>1, <1>3, <2>1, <2>2, <2>3, <2>4, QuietMove
  <1>6. Go(c, "lock") \/ (Go(c, "reload") /\ pc[c].op = "restart") \/ Go(c, "idle")
    BY DEF SignalStop
  <1> QED BY <1>4, <1>5, <1>6

LEMMA LockRegistryStep ==
    ASSUME RegInv, NEW c \in Callers, LockRegistry(c)
    PROVE  RegInv'
  <1>1. /\ pc[c].at = "check" /\ rlock = None /\ rlock' = c /\ Go(c, "compare")
        /\ UNCHANGED <<mem, db, states, calls, ends, raced, undeleted>>
    BY DEF LockRegistry, At, RegFree
  <1>2. pc[c].op = "upsert"
    BY <1>1 DEF RegInv, CallInv, OpsAt
  <1>3. "compare" \in Locations
    BY DEF Locations
  <1>4. Moved(c, "compare", pc[c].st)
    BY <1>1, <1>3, GoneWith, CallFields DEF Go, RegInv
  <1>5. CallInv(c)' /\ StarterInv(c)' /\ OwnerInv(c)' /\ StoreInv(c)'
    BY <1>1, <1>2, <1>4 DEF Moved, CallInv, OpsAt, WithState, StarterInv, OwnerInv, StoreInv
  <1>6. SameVersion
    BY <1>1, SameDefinition
  <1> QED BY <1>1, <1>2, <1>3, <1>4, <1>5, <1>6, QuietMove

\* The definitions that a call gets from elsewhere.
LEMMA PutCall ==
    ASSUME RegInv, NEW c \in Callers, NEW at \in Locations, NEW new \in RuleDef,
           pc' = [pc EXCEPT ![c] = [at |-> at, op |-> @.op, st |-> @.st, new |-> new]]
    PROVE  /\ pc' \in [Callers -> Caller] /\ \A d \in Callers \ {c} : pc'[d] = pc[d]
           /\ pc'[c].at = at /\ pc'[c].op = pc[c].op /\ pc'[c].st = pc[c].st /\ pc'[c].new = new
  <1> DEFINE p == [at |-> at, op |-> pc[c].op, st |-> pc[c].st, new |-> new]
  <1>1. /\ p \in Caller /\ p.at = at /\ p.op = pc[c].op /\ p.st = pc[c].st /\ p.new = new
    BY CallFields DEF Caller
  <1>2. pc' = [pc EXCEPT ![c] = p]
    OBVIOUS
  <1> HIDE DEF p
  <1>3. pc' \in [Callers -> Caller] /\ pc'[c] = p /\ \A d \in Callers \ {c} : pc'[d] = pc[d]
    BY <1>1, <1>2, CallFields
  <1> QED BY <1>1, <1>3

LEMMA GetRuleStep ==
    ASSUME RegInv, NEW c \in Callers, GetRuleById(c)
    PROVE  RegInv'
  <1>1. pc[c].at = "reload" /\ UNCHANGED <<rlock, mem, db, states, calls, ends, raced, undeleted>>
    BY DEF GetRuleById, At
  <1>2. CallInv(c) /\ StarterInv(c)
    BY DEF RegInv
  <1>3. pc[c].op \in {"restart", "import"} /\ rlock # c /\ (pc[c].op = "restart" => pc[c].st # 0)
    BY <1>1, <1>2 DEF CallInv, OpsAt
  <1>4. CASE db = None
    <2>1. Go(c, "idle")
      BY <1>4 DEF GetRuleById
    <2> QED BY <1>1, <1>3, <1>4, <2>1, GivesUp
  <1>5. CASE db # None
    <2> DEFINE at == IF pc[c].op = "restart" THEN "put" ELSE "register"
    <2>1. pc' = [pc EXCEPT ![c] = [at |-> at, op |-> @.op, st |-> @.st, new |-> db]]
      BY <1>5 DEF GetRuleById
    <2>2. at \in Locations /\ at \in {"put", "register"} /\ db \in RuleDef
          /\ (at = "put" <=> pc[c].op = "restart")
      BY <1>5 DEF Locations, RegInv, RegTypes
    <2> HIDE DEF at
    <2>3. /\ pc' \in [Callers -> Caller] /\ \A d \in Callers \ {c} : pc'[d] = pc[d]
          /\ pc'[c].at = at /\ pc'[c].op = pc[c].op /\ pc'[c].st = pc[c].st
      BY <2>1, <2>2, PutCall
    <2>4. CallInv(c)' /\ StarterInv(c)' /\ OwnerInv(c)' /\ StoreInv(c)'
      BY <1>1, <1>2, <1>3, <2>2, <2>3
         DEF CallInv, OpsAt, WithState, StarterInv, OwnerInv, StoreInv
    <2>5. SameVersion
      BY <1>1, SameDefinition
    <2>6. calls' \in [Callers -> 0..MaxCalls] /\ pc'[c].st \in {0, mem, pc[c].st}
      BY <1>1, <2>3, CallFields
    <2>7. pc[c].op = "import" => pc'[c].op = "import" /\ pc'[c].at = "register"
      BY <2>2, <2>3
    <2>8. pc'[c].at # "work"
      BY <2>2, <2>3
    <2> QED BY <1>1, <2>3, <2>4, <2>5, <2>6, <2>7, <2>8, QuietStep
  <1> QED BY <1>4, <1>5

LEMMA InspectStep ==
    ASSUME RegInv, NEW c \in Callers, Inspect(c)
    PROVE  RegInv'
  <1>1. /\ pc[c].at = "load" /\ pc[c].op = "patrol" /\ rlock = None
        /\ UNCHANGED <<rlock, mem, db, states, calls, ends, raced, undeleted>>
    BY DEF Inspect, At, RegFree
  <1>2. CallInv(c) /\ StarterInv(c)
    BY DEF RegInv
  <1>4. CASE Go(c, "idle")
    BY <1>1, <1>4, GivesUp, CallFields
  <1>5. CASE ~Go(c, "idle")
    <2>1. /\ mem # 0
          /\ pc' = [pc EXCEPT ![c] = [at |-> "register", op |-> @.op, st |-> @.st,
                                      new |-> states[mem].rule]]
      BY <1>5 DEF Inspect
    <2>2. "register" \in Locations /\ states[mem].rule \in RuleDef
      <3>1. states[mem] \in State
        BY <2>1, CallFields
      <3> QED BY <3>1 DEF State, Locations
    <2>3. /\ pc' \in [Callers -> Caller] /\ \A d \in Callers \ {c} : pc'[d] = pc[d]
          /\ pc'[c].at = "register" /\ pc'[c].op = pc[c].op /\ pc'[c].st = pc[c].st
      BY <2>1, <2>2, PutCall
    <2>4. CallInv(c)' /\ StarterInv(c)' /\ OwnerInv(c)' /\ StoreInv(c)'
      BY <1>1, <1>2, <2>2, <2>3
         DEF CallInv, OpsAt, WithState, StarterInv, OwnerInv, StoreInv
    <2>5. SameVersion
      BY <1>1, SameDefinition
    <2>6. calls' \in [Callers -> 0..MaxCalls] /\ pc'[c].st \in {0, mem, pc[c].st}
      BY <1>1, <2>3, CallFields
    <2> QED BY <1>1, <2>3, <2>4, <2>5, <2>6, QuietStep
  <1> QED BY <1>4, <1>5
-----------------------------------------------------------------------------
(* Steps that write a state                                                *)

\* The states when one of them has become x.
LEMMA Written ==
    ASSUME RegInv, NEW s \in DOMAIN states, NEW x \in State, states' = [states EXCEPT ![s] = x]
    PROVE  /\ states' \in Seq(State) /\ Len(states') = Len(states)
           /\ DOMAIN states' = DOMAIN states /\ states'[s] = x
           /\ \A t \in DOMAIN states \ {s} : states'[t] = states[t]
  BY DEF RegInv, RegTypes

\* ruleLock is taken, given back, or left alone.
LockKept(c, s) ==
    \/ pc[c].at # "work" /\ pc'[c].at # "work" /\ states'[s].busy = states[s].busy
    \/ pc[c].at # "work" /\ pc'[c].at = "work" /\ pc'[c].st = s /\ ~states[s].busy /\ states'[s].busy
    \/ pc[c].at = "work" /\ pc'[c].at # "work" /\ pc[c].st = s /\ ~states'[s].busy

LEMMA HoldersWritten ==
    ASSUME RegInv, NEW c \in Callers, \A d \in Callers \ {c} : pc'[d] = pc[d],
           UNCHANGED ends, NEW s \in DOMAIN states, LockKept(c, s),
           NEW t \in DOMAIN states, t # s => states'[t] = states[t]
    PROVE  HolderInv(t)'
  <1>1. EndHolders(t)' = EndHolders(t) /\ HolderInv(t) /\ HolderInv(s)
    BY DEF EndHolders, RegInv
  <1>2. CASE t # s
    <2>1. CallHolders(t)' = CallHolders(t) /\ states'[t] = states[t]
      BY <1>2 DEF CallHolders, LockKept
    <2> QED BY <1>1, <2>1 DEF HolderInv
  <1>3. CASE t = s /\ pc[c].at # "work" /\ pc'[c].at # "work" /\ states'[s].busy = states[s].busy
    <2> QED BY <1>3, HoldersKept
  <1>4. CASE /\ t = s /\ pc[c].at # "work" /\ pc'[c].at = "work" /\ pc'[c].st = s
             /\ ~states[s].busy /\ states'[s].busy
    <2>1. CallHolders(s) = {} /\ EndHolders(s) = {}
      BY <1>1, <1>4 DEF HolderInv
    <2>2. CallHolders(s)' = {c}
      BY <1>4, <2>1 DEF CallHolders
    <2> QED BY <1>1, <1>4, <2>1, <2>2 DEF HolderInv
  <1>5. CASE t = s /\ pc[c].at = "work" /\ pc'[c].at # "work" /\ pc[c].st = s /\ ~states'[s].busy
    <2>1. c \in CallHolders(s)
      BY <1>5 DEF CallHolders
    <2>2. CallHolders(s) = {c} /\ EndHolders(s) = {}
      BY <1>1, <2>1 DEF HolderInv
    <2>3. CallHolders(s)' = {}
      BY <1>5, <2>2 DEF CallHolders
    <2> QED BY <1>1, <1>5, <2>2, <2>3 DEF HolderInv
  <1> QED BY <1>2, <1>3, <1>4, <1>5 DEF LockKept

\* A step of a call that writes the state it works on.
LEMMA StateStep ==
    ASSUME RegInv, NEW c \in Callers,
           pc' \in [Callers -> Caller], \A d \in Callers \ {c} : pc'[d] = pc[d],
           NEW s \in DOMAIN states, s = pc[c].st, pc'[c].st \in {0, s},
           NEW x \in State, states' = [states EXCEPT ![s] = x],
           UNCHANGED <<mem, db, calls, ends, undeleted>>, raced' \in {raced, raced \cup {s}},
           rlock' = rlock \/ (rlock = c /\ rlock' = None),
           pc[c].at \notin {"reload", "register"},
           StateKept(c, s), LockKept(c, s),
           \/ x.tp = 0 \/ s = mem \/ s \in raced'
           \/ pc'[c].st = s /\ pc'[c].at \in {"save", "persist", "undo"}
           \/ x.tp = states[s].tp /\ pc[c].at \notin {"save", "persist", "undo"},
           \/ s # mem \/ x.rule.ver = states[s].rule.ver \/ s \in raced'
           \/ db = None \/ Importing \/ undeleted \/ db.ver <= x.rule.ver,
           CallInv(c)' /\ StarterInv(c)' /\ OwnerInv(c)' /\ StoreInv(c)'
    PROVE  RegInv'
  <1>1. /\ states' \in Seq(State) /\ Len(states') = Len(states)
        /\ DOMAIN states' = DOMAIN states /\ states'[s] = x
        /\ \A t \in DOMAIN states \ {s} : states'[t] = states[t]
    BY Written
  <1>2. /\ RegTypes /\ raced \subseteq DOMAIN states /\ mem \in 0..Len(states)
        /\ DOMAIN states = 1..Len(states) /\ Len(states) \in Nat
    BY CallFields DEF RegInv, RegTypes
  <1>3. Importing => Importing'
    BY DEF Importing
  <1>4. RegTypes'
    <2>1. ASSUME NEW a \in Callers PROVE pc'[a].st \in 0..Len(states)
      <3>1. CASE a = c
        BY <1>2, <3>1
      <3>2. CASE a # c
        BY <3>2 DEF RegInv, RegTypes
      <3> QED BY <3>1, <3>2
    <2>2. rlock' \in Callers \cup {None} /\ raced' \subseteq DOMAIN states
      BY <1>2 DEF RegTypes
    <2> QED BY <1>1, <1>2, <2>1, <2>2 DEF RegTypes
  <1>5. StepKeeps(c)
    <2>1. ASSUME NEW t \in DOMAIN states PROVE StateKept(c, t)
      <3>1. CASE t = s
        BY <3>1
      <3>2. CASE t # s
        BY <1>1, <3>2 DEF StateKept
      <3> QED BY <3>1, <3>2
    <2>2. \A d \in Callers \ {c} : rlock' = d <=> rlock = d
      BY CallersAssumption
    <2>3. rlock \in Callers \ {c} /\ db' # None
              => Importing' \/ (db # None /\ db'.ver = db.ver /\ undeleted' = undeleted)
      OBVIOUS
    <2>4. raced \subseteq raced' /\ pc'[c].st \in {0, mem, pc[c].st, Len(states) + 1}
      OBVIOUS
    <2>5. Len(states) <= Len(states')
      BY <1>1, <1>2
    <2> QED BY <1>1, <1>3, <2>1, <2>2, <2>3, <2>4, <2>5 DEF StepKeeps
  <1>6. \A t \in DOMAIN states' : HolderInv(t)'
    <2>1. ASSUME NEW t \in DOMAIN states PROVE HolderInv(t)'
      <3>1. t # s => states'[t] = states[t]
        BY <1>1
      <3> QED BY <3>1, HoldersWritten
    <2> QED BY <1>1, <2>1
  <1>7. TpInv'
    <2>1. ASSUME NEW t \in DOMAIN states'
          PROVE  \/ states'[t].tp = 0 \/ t = mem' \/ t \in raced'
                 \/ c \in Callers /\ pc'[c].st = t /\ pc'[c].at \in {"save", "persist", "undo"}
                 \/ /\ t \in DOMAIN states /\ states[t].tp # 0 /\ t # mem
                    /\ ~(c \in Callers /\ pc[c].st = t /\ pc[c].at \in {"save", "persist", "undo"})
      <3>1. CASE t = s
        BY <1>1, <3>1
      <3>2. CASE t # s
        BY <1>1, <3>2
      <3> QED BY <3>1, <3>2
    <2>2. raced \subseteq raced'
      OBVIOUS
    <2> QED BY <2>1, <2>2, TpKept
  <1>8. StoredInv'
    <2> SUFFICES ASSUME db # None, ~Importing, ~undeleted
                 PROVE  mem # 0 /\ (mem \in raced' \/ db.ver <= states'[mem].rule.ver)
      BY <1>3 DEF StoredInv
    <2>1. mem # 0 /\ (mem \in raced \/ db.ver <= states[mem].rule.ver)
      BY DEF RegInv, StoredInv
    <2>2. mem \in DOMAIN states
      BY <1>2, <2>1
    <2>3. CASE mem # s
      BY <1>1, <2>1, <2>2, <2>3
    <2>4. CASE mem = s
      BY <1>1, <2>1, <2>4
    <2> QED BY <2>1, <2>3, <2>4
  <1> QED BY <1>4, <1>5, <1>6, <1>7, <1>8, CallerStepInv

\* The states when a call has made one.
LEMMA Appended ==
    ASSUME RegInv, NEW r \in RuleDef, states' = Append(states, NewState(r))
    PROVE  /\ states' \in Seq(State) /\ Len(states') = Len(states) + 1
           /\ DOMAIN states' = DOMAIN states \cup {Len(states) + 1}
           /\ \A t \in DOMAIN states : states'[t] = states[t]
           /\ states'[Len(states) + 1] = NewState(r)
           /\ NewState(r).rule = r /\ NewState(r).tp = 0 /\ ~NewState(r).busy
  <1>1. NewState(r) \in State
    BY DEF NewState, State
  <1>2. states \in Seq(State) /\ Len(states) \in Nat /\ DOMAIN states = 1..Len(states)
    BY DEF RegInv, RegTypes
  <1>3. /\ states' \in Seq(State) /\ Len(states') = Len(states) + 1
        /\ \A t \in 1..Len(states) : states'[t] = states[t]
        /\ states'[Len(states) + 1] = NewState(r)
    <2> DEFINE x == NewState(r)
    <2>1. x \in State /\ states' = Append(states, x)
      BY <1>1
    <2> HIDE DEF x
    <2>2. /\ states' \in Seq(State) /\ Len(states') = Len(states) + 1
          /\ \A t \in 1..Len(states) : states'[t] = states[t]
          /\ states'[Len(states) + 1] = x
      BY <1>2, <2>1
    <2> QED BY <2>2 DEF x
  <1>4. DOMAIN states' = DOMAIN states \cup {Len(states) + 1}
    BY <1>2, <1>3
  <1>5. NewState(r).rule = r /\ NewState(r).tp = 0 /\ ~NewState(r).busy
    BY DEF NewState
  <1> QED BY <1>2, <1>3, <1>4, <1>5

\* A step of a call that makes a state, and may register it in place of another.
LEMMA AppendStep ==
    ASSUME RegInv, NEW c \in Callers,
           pc' \in [Callers -> Caller], \A d \in Callers \ {c} : pc'[d] = pc[d],
           pc'[c].st \in {0, Len(states) + 1}, pc'[c].at # "work",
           pc[c].at \notin {"work", "save", "persist", "undo"},
           NEW r \in RuleDef, states' = Append(states, NewState(r)),
           UNCHANGED <<rlock, db, calls, ends, undeleted>>,
           mem' = mem \/ (mem' = Len(states) + 1 /\ rlock = None),
           raced \subseteq raced', raced' \subseteq raced \cup ({mem, Len(states) + 1} \ {0}),
           mem' # mem /\ mem # 0 => mem \in raced',
           pc[c].at \notin {"reload", "register"} \/ rlock = None,
           CallInv(c)' /\ StarterInv(c)' /\ OwnerInv(c)' /\ StoreInv(c)', StoredInv'
    PROVE  RegInv'
  <1>1. /\ states' \in Seq(State) /\ Len(states') = Len(states) + 1
        /\ DOMAIN states' = DOMAIN states \cup {Len(states) + 1}
        /\ \A t \in DOMAIN states : states'[t] = states[t]
        /\ states'[Len(states) + 1].tp = 0 /\ ~states'[Len(states) + 1].busy
    BY Appended
  <1>2. /\ RegTypes /\ raced \subseteq DOMAIN states /\ mem \in 0..Len(states)
        /\ DOMAIN states = 1..Len(states) /\ Len(states) \in Nat
    BY CallFields DEF RegInv, RegTypes
  <1>3. Importing => Importing' \/ rlock = None
    BY DEF Importing
  <1>4. RegTypes'
    <2>1. ASSUME NEW a \in Callers PROVE pc'[a].st \in 0..Len(states')
      <3>1. CASE a = c
        BY <1>1, <1>2, <3>1
      <3>2. CASE a # c
        <4>1. pc[a].st \in 0..Len(states) /\ pc'[a] = pc[a]
          BY <1>2, <3>2 DEF RegTypes
        <4> QED BY <1>1, <1>2, <4>1
      <3> QED BY <3>1, <3>2
    <2>2. raced' \subseteq DOMAIN states' /\ mem' \in 0..Len(states')
      BY <1>1, <1>2
    <2>3. \A e \in DOMAIN ends' : ends'[e].st \in DOMAIN states'
      BY <1>1, <1>2 DEF RegTypes
    <2> QED BY <1>1, <1>2, <2>1, <2>2, <2>3 DEF RegTypes
  <1>5. StepKeeps(c)
    <2>1. \A t \in DOMAIN states : StateKept(c, t)
      BY <1>1 DEF StateKept
    <2>2. \A d \in Callers \ {c} : rlock' = d <=> rlock = d
      OBVIOUS
    <2>3. rlock \in Callers \ {c} => mem' = mem
      BY CallersAssumption
    <2>4. mem' # mem => LeavesWhileHeld \subseteq raced'
      BY DEF LeavesWhileHeld
    <2>5. rlock \in Callers \ {c} /\ db' # None
              => Importing' \/ (db # None /\ db'.ver = db.ver /\ undeleted' = undeleted)
      OBVIOUS
    <2>6. rlock \in Callers \ {c} /\ Importing => Importing' \/ db' = None
      BY <1>3, CallersAssumption
    <2>7. Len(states) <= Len(states')
      BY <1>1, <1>2
    <2>8. /\ pc'[c].st \in {0, mem, pc[c].st, Len(states) + 1}
          /\ mem' \in {mem, 0, Len(states) + 1}
      OBVIOUS
    <2> QED BY <1>1, <2>1, <2>2, <2>3, <2>4, <2>5, <2>6, <2>7, <2>8 DEF StepKeeps
  <1>6. ASSUME NEW t \in DOMAIN states' PROVE HolderInv(t)'
    <2>1. CASE t \in DOMAIN states
      BY <1>1, <2>1, HoldersKept
    <2>2. CASE t = Len(states) + 1
      <3>1. EndHolders(t)' = {}
        BY <1>2, <2>2 DEF EndHolders, RegTypes
      <3>2. CallHolders(t)' = {}
        <4>1. ASSUME NEW a \in Callers, pc'[a].at = "work" PROVE pc'[a].st # t
          <5>1. a # c /\ pc[a].st \in 0..Len(states)
            BY <1>2, <4>1 DEF RegTypes
          <5> QED BY <1>2, <2>2, <5>1
        <4> QED BY <4>1 DEF CallHolders
      <3> QED BY <1>1, <2>2, <3>1, <3>2 DEF HolderInv
    <2> QED BY <1>1, <2>1, <2>2
  <1>7. TpInv'
    <2>1. ASSUME NEW t \in DOMAIN states'
          PROVE  \/ states'[t].tp = 0 \/ t = mem' \/ t \in raced'
                 \/ c \in Callers /\ pc'[c].st = t /\ pc'[c].at \in {"save", "persist", "undo"}
                 \/ /\ t \in DOMAIN states /\ states[t].tp # 0 /\ t # mem
                    /\ ~(c \in Callers /\ pc[c].st = t /\ pc[c].at \in {"save", "persist", "undo"})
      <3>1. CASE t \in DOMAIN states
        BY <1>1, <1>2, <3>1
      <3>2. CASE t = Len(states) + 1
        BY <1>1, <3>2
      <3> QED BY <1>1, <3>1, <3>2
    <2> QED BY <2>1, TpKept
  <1> QED BY <1>4, <1>5, <1>6, <1>7, CallerStepInv

\* A step of a call that changes the registry or the database, and no state.
LEMMA EntryStep ==
    ASSUME RegInv, NEW c \in Callers,
           pc' \in [Callers -> Caller], \A d \in Callers \ {c} : pc'[d] = pc[d],
           pc[c].at # "work", pc'[c].at # "work", pc'[c].st \in {0, mem, pc[c].st},
           UNCHANGED <<states, calls, ends>>,
           mem' \in {mem, 0, pc[c].st}, db' = None \/ db' \in RuleDef,
           raced \subseteq raced', raced' \subseteq DOMAIN states,
           \/ rlock \in {c, None} /\ rlock' \in {rlock, None}
           \/ rlock' = rlock /\ mem' = mem /\ Importing',
           mem' # mem => LeavesWhileHeld \subseteq raced',
           CallInv(c)' /\ StarterInv(c)' /\ OwnerInv(c)' /\ StoreInv(c)', TpInv', StoredInv'
    PROVE  RegInv'
  <1>1. /\ RegTypes /\ mem \in 0..Len(states) /\ pc[c].st \in 0..Len(states)
        /\ 0 \in 0..Len(states) /\ Len(states) \in Nat /\ c # None
    BY CallFields DEF RegInv, RegTypes
  <1>2. RegTypes'
    <2>1. ASSUME NEW a \in Callers PROVE pc'[a].st \in 0..Len(states)
      <3>1. CASE a = c
        BY <1>1, <3>1
      <3>2. CASE a # c
        BY <1>1, <3>2 DEF RegTypes
      <3> QED BY <3>1, <3>2
    <2>2. mem' \in 0..Len(states) /\ rlock' \in Callers \cup {None}
      BY <1>1 DEF RegTypes
    <2> QED BY <1>1, <2>1, <2>2 DEF RegTypes
  <1>3. StepKeeps(c)
    <2>1. \A t \in DOMAIN states : StateKept(c, t)
      BY DEF StateKept
    <2>2. \A d \in Callers \ {c} : rlock' = d <=> rlock = d
      BY CallersAssumption
    <2>3. ~(rlock \in Callers \ {c}) \/ (mem' = mem /\ Importing')
      BY CallersAssumption
    <2>4. states' \in Seq(State) /\ Len(states) <= Len(states')
      BY <1>1 DEF RegTypes
    <2> QED BY <2>1, <2>2, <2>3, <2>4 DEF StepKeeps
  <1>4. \A s \in DOMAIN states' : HolderInv(s)'
    BY HoldersKept
  <1> QED BY <1>2, <1>3, <1>4, CallerStepInv

\* The numbers from 1 to n.
LEMMA UpTo ==
    ASSUME NEW n \in Nat
    PROVE  IsFiniteSet(1..n) /\ Cardinality(1..n) = n
  <1>1. 1 \in Int /\ n \in Int
    OBVIOUS
  <1>2. IsFiniteSet(1..n) /\ Cardinality(1..n) = IF 1 > n THEN 0 ELSE n - 1 + 1
    BY <1>1, FS_Interval
  <1> QED BY <1>2

\* The topologies in a sequence are at most as many as its elements.
LEMMA TpsOf ==
    ASSUME NEW n \in Nat, NEW f
    PROVE  LET T == {f[i].tp : i \in 1..n}
           IN  IsFiniteSet(T) /\ Cardinality(T) \in Nat /\ Cardinality(T) <= n
  <1> DEFINE T == {f[i].tp : i \in 1..n}
             g == [i \in 1..n |-> f[i].tp]
  <1>1. IsFiniteSet(1..n) /\ Cardinality(1..n) = n
    BY UpTo
  <1>2. g \in Surjection(1..n, T)
    BY DEF Surjection
  <1>3. IsFiniteSet(T) /\ Cardinality(T) <= Cardinality(1..n)
    BY <1>1, <1>2, FS_Surjection
  <1> QED BY <1>1, <1>3, FS_CardinalityType

\* A number for a new topology can be found: the states and the runs that have ended use
\* fewer than there are to choose from.
LEMMA NewTpIsNat ==
    ASSUME RegTypes
    PROVE  NewTp \in Nat
  <1> DEFINE N == Len(states) + MaxEnds + 1
             A == {states[s].tp : s \in 1..Len(states)}
             B == {ends[e].tp : e \in 1..Len(ends)}
  <1>1. /\ Len(states) \in Nat /\ Len(ends) \in Nat /\ Len(ends) <= MaxEnds /\ MaxEnds \in Nat
        /\ DOMAIN states = 1..Len(states) /\ DOMAIN ends = 1..Len(ends)
    BY BoundsAssumption DEF RegTypes
  <1>2. IsFiniteSet(A) /\ Cardinality(A) <= Len(states) /\ Cardinality(A) \in Nat
    BY <1>1, TpsOf
  <1>3. IsFiniteSet(B) /\ Cardinality(B) <= Len(ends) /\ Cardinality(B) \in Nat
    BY <1>1, TpsOf
  <1>4. /\ IsFiniteSet(UsedTps) /\ Cardinality(UsedTps) \in Nat
        /\ Cardinality(UsedTps) <= Len(states) + Len(ends)
    <2>1. UsedTps = A \cup B
      BY <1>1 DEF UsedTps
    <2>2. IsFiniteSet(A \cup B) /\ IsFiniteSet(A \cap B)
      BY <1>2, <1>3, FS_Union, FS_Subset
    <2>3. Cardinality(A \cup B) = Cardinality(A) + Cardinality(B) - Cardinality(A \cap B)
      BY <1>2, <1>3, FS_Union
    <2>4. Cardinality(A \cup B) \in Nat /\ Cardinality(A \cap B) \in Nat
      BY <2>2, FS_CardinalityType
    <2> DEFINE ka == Cardinality(A) kb == Cardinality(B) k == Cardinality(A \cap B)
    <2>5. ka \in Nat /\ kb \in Nat /\ k \in Nat /\ ka <= Len(states) /\ kb <= Len(ends)
          /\ Cardinality(A \cup B) = ka + kb - k
      BY <1>2, <1>3, <2>3, <2>4
    <2> HIDE DEF A, B, ka, kb, k
    <2>6. Cardinality(A \cup B) <= Len(states) + Len(ends)
      BY <1>1, <2>5
    <2> QED BY <2>1, <2>2, <2>4, <2>6
  <1>5. N \in Nat /\ Cardinality(1..N) = N /\ IsFiniteSet(1..N)
    <2>1. N \in Nat
      BY <1>1
    <2> HIDE DEF N
    <2> QED BY <2>1, UpTo
  <1>6. ~(1..N \subseteq UsedTps)
    <2> SUFFICES ASSUME 1..N \subseteq UsedTps PROVE FALSE
      OBVIOUS
    <2>1. Cardinality(1..N) <= Cardinality(UsedTps)
      BY <1>4, FS_Subset
    <2>2. N <= Cardinality(UsedTps)
      BY <1>5, <2>1
    <2> QED BY <1>1, <1>4, <2>2
  <1>7. \E n \in 1..Len(states) + MaxEnds + 1 : n \notin UsedTps
    BY <1>6
  <1>8. NewTp \in 1..Len(states) + MaxEnds + 1
    BY <1>7 DEF NewTp
  <1> QED BY <1>1, <1>8

LEMMA LoadForCreateStep ==
    ASSUME RegInv, NEW c \in Callers, LoadForCreate(c)
    PROVE  RegInv'
  <1>1. /\ pc[c].at = "load" /\ pc[c].op = "create" /\ rlock = None
        /\ UNCHANGED <<rlock, mem, db, calls, ends, raced, undeleted>>
    BY DEF LoadForCreate, At, RegFree
  <1>2. CASE mem # 0
    <2>1. Go(c, "idle") /\ UNCHANGED states
      BY <1>2 DEF LoadForCreate
    <2> QED BY <1>1, <2>1, GivesUp, CallFields
  <1>3. CASE mem = 0
    <2> DEFINE n == Len(states) + 1
    <2>1. states' = Append(states, NewState(pc[c].new)) /\ GoWith(c, "lock", n)
      BY <1>3 DEF LoadForCreate
    <2>2. n \in Nat /\ n # 0 /\ \A d \in Callers : pc[d].st # n
      BY CallFields
    <2>3. "lock" \in Locations
      BY DEF Locations
    <2>4. Moved(c, "lock", n)
      BY <2>1, <2>2, <2>3, GoneWith, CallFields DEF RegInv
    <2>5. states'[n].tp = 0
      BY <2>1, Appended, CallFields
    <2> HIDE DEF n
    <2>6. Private(c)'
      BY <2>2, <2>4 DEF Private, Moved
    <2>7. CallInv(c)' /\ StarterInv(c)' /\ OwnerInv(c)' /\ StoreInv(c)'
      BY <1>1, <1>3, <2>2, <2>4, <2>5, <2>6, CallFields
         DEF Moved, CallInv, OpsAt, StarterInv, OwnerInv, StoreInv
    <2>8. StoredInv'
      <3>1. db # None => Importing \/ undeleted
        BY <1>3 DEF RegInv, StoredInv
      <3>2. Importing => Importing'
        BY <1>1, <2>4 DEF Importing, Moved
      <3> QED BY <1>1, <3>1, <3>2 DEF StoredInv
    <2>9. pc[c].new \in RuleDef /\ pc'[c].st \in {0, Len(states) + 1}
      BY <2>4, CallFields DEF Moved, n
    <2> QED BY <1>1, <1>3, <2>1, <2>4, <2>7, <2>8, <2>9, AppendStep DEF Moved
  <1> QED BY <1>2, <1>3

LEMMA CompareStep ==
    ASSUME RegInv, NEW c \in Callers, Compare(c)
    PROVE  RegInv'
  <1>1. pc[c].at = "compare" /\ UNCHANGED <<mem, db, calls, ends, raced, undeleted>>
    BY DEF Compare, At
  <1>2. CallInv(c) /\ StoredInv
    BY DEF RegInv
  <1>3. pc[c].op = "upsert" /\ rlock = c
    BY <1>1, <1>2 DEF CallInv, OpsAt
  <1>4. "lock" \in Locations
    BY DEF Locations
  <1>5. ASSUME mem = 0, states' = Append(states, NewState(pc[c].new)),
               GoWith(c, "lock", Len(states) + 1), UNCHANGED rlock
        PROVE  RegInv'
    <2> DEFINE n == Len(states) + 1
    <2>2. n \in Nat /\ n # 0 /\ \A d \in Callers : pc[d].st # n
      BY CallFields
    <2>3. Moved(c, "lock", n)
      BY <1>4, <1>5, <2>2, GoneWith, CallFields DEF RegInv
    <2>4. states'[n].tp = 0
      BY <1>5, Appended, CallFields
    <2> HIDE DEF n
    <2>5. Private(c)'
      BY <2>2, <2>3 DEF Private, Moved
    <2>6. db # None => Importing \/ undeleted
      BY <1>2, <1>5 DEF StoredInv
    <2>7. Importing => Importing'
      BY <1>1, <2>3 DEF Importing, Moved
    <2>8. CallInv(c)' /\ StarterInv(c)' /\ OwnerInv(c)' /\ StoreInv(c)'
      BY <1>1, <1>3, <1>5, <2>2, <2>3, <2>4, <2>5, <2>6, <2>7, CallFields
         DEF Moved, CallInv, OpsAt, StarterInv, OwnerInv, StoreInv
    <2>9. StoredInv'
      BY <1>1, <2>6, <2>7 DEF StoredInv
    <2>10. pc[c].new \in RuleDef /\ pc'[c].st \in {0, Len(states) + 1}
      BY <2>3, CallFields DEF Moved, n
    <2> QED BY <1>1, <1>5, <2>3, <2>8, <2>9, <2>10, AppendStep DEF Moved
  <1>6. ASSUME mem # 0, CanReplace(states[mem].rule.ver, pc[c].new.ver), GoWith(c, "lock", mem),
               UNCHANGED <<rlock, states>>
        PROVE  RegInv'
    <2>1. Moved(c, "lock", mem)
      BY <1>4, <1>6, GoneWith, CallFields DEF RegInv
    <2>2. states[mem] \in State
      BY <1>6, CallFields
    <2>3. states[mem].rule \in RuleDef /\ pc[c].new \in RuleDef
      BY <2>2, CallFields DEF State
    <2>4. states[mem].rule.ver \in Nat /\ pc[c].new.ver \in Nat
      BY <2>3, BoundsAssumption DEF RuleDef
    <2>5. states[mem].rule.ver <= pc[c].new.ver
      BY <1>6, <2>4 DEF CanReplace
    <2>6. db = None \/ mem \in raced \/ Importing \/ undeleted \/ db.ver <= pc[c].new.ver
      <3> SUFFICES ASSUME db # None, db.ver <= states[mem].rule.ver
                   PROVE  db.ver <= pc[c].new.ver
        BY <1>2 DEF StoredInv
      <3>1. db \in RuleDef
        BY DEF RegInv, RegTypes
      <3>2. db.ver \in Nat
        BY <3>1, BoundsAssumption DEF RuleDef
      <3> QED BY <2>4, <2>5, <3>2
    <2>7. Importing => Importing'
      BY <1>1, <2>1 DEF Importing, Moved
    <2>8. CallInv(c)' /\ StarterInv(c)'
      BY <1>1, <1>3, <1>6, <2>1 DEF Moved, CallInv, OpsAt, StarterInv
    <2>9. OwnerInv(c)' /\ StoreInv(c)'
      BY <1>1, <1>3, <1>6, <2>1, <2>6, <2>7 DEF Moved, OwnerInv, StoreInv
    <2>10. SameVersion
      BY <1>1, SameDefinition
    <2> QED BY <1>1, <1>3, <1>4, <1>6, <2>1, <2>8, <2>9, <2>10, QuietMove
  <1>7. ASSUME rlock' = None, Go(c, "idle"), UNCHANGED states
        PROVE  RegInv'
    BY <1>1, <1>3, <1>7, GivesUp
  <1> QED BY <1>5, <1>6, <1>7 DEF Compare

\* What StateStep asks of the lock of the registry and of the call.
LEMMA OnState ==
    ASSUME RegInv, NEW c \in Callers, pc[c].at \in {"lock", "work", "undo", "put", "begin"}
    PROVE  /\ pc[c].st \in DOMAIN states /\ states[pc[c].st] \in State
           /\ states[pc[c].st].rule \in RuleDef /\ states[pc[c].st].tp \in Nat
           /\ states[pc[c].st].busy \in BOOLEAN
           /\ states[pc[c].st].status \in {"stopped", "running", "failed"}
           /\ states[pc[c].st].rule.ver \in Nat /\ pc[c].new.ver \in Nat
           /\ pc[c].st # 0 /\ pc[c].op \in OpsAt(pc[c].at)
  <1>1. pc[c].st # 0 /\ pc[c].op \in OpsAt(pc[c].at)
    BY DEF RegInv, CallInv, WithState
  <1>2. pc[c].st \in DOMAIN states
    BY <1>1, CallFields
  <1>3. states[pc[c].st] \in State
    BY <1>2, CallFields
  <1>4. /\ states[pc[c].st].rule \in RuleDef /\ states[pc[c].st].tp \in Nat
        /\ states[pc[c].st].busy \in BOOLEAN
        /\ states[pc[c].st].status \in {"stopped", "running", "failed"}
    BY <1>3 DEF State
  <1>5. states[pc[c].st].rule.ver \in Nat /\ pc[c].new.ver \in Nat
    BY <1>4, CallFields, BoundsAssumption DEF RuleDef
  <1> QED BY <1>1, <1>2, <1>3, <1>4, <1>5

LEMMA LockRuleStep ==
    ASSUME RegInv, NEW c \in Callers, LockRule(c)
    PROVE  RegInv'
  <1> DEFINE s == pc[c].st
             old == states[s]
             x == [old EXCEPT !.busy = TRUE]
  <1>1. /\ pc[c].at = "lock" /\ ~states[s].busy /\ Go(c, "work")
        /\ UNCHANGED <<rlock, mem, db, calls, ends, raced, undeleted>>
        /\ states' = [states EXCEPT ![s].busy = TRUE]
    BY DEF LockRule, At
  <1>2. /\ s \in DOMAIN states /\ states[s] \in State /\ s # 0
        /\ states[s].rule \in RuleDef /\ states[s].tp \in Nat
        /\ states[s].status \in {"stopped", "running", "failed"}
        /\ pc[c].op \in OpsAt("lock")
    BY <1>1, OnState
  <1>3. x \in State /\ x.rule = states[s].rule /\ x.tp = states[s].tp /\ x.busy
    <2>1. old \in State /\ old = states[s]
      BY <1>2
    <2> HIDE DEF old
    <2>2. x \in State /\ x.rule = old.rule /\ x.tp = old.tp /\ x.busy
      BY <2>1 DEF State
    <2> QED BY <2>1, <2>2
  <1>4. states' = [states EXCEPT ![s] = x]
    BY <1>1
  <1> HIDE DEF x
  <1>5. Moved(c, "work", s)
    <2>1. "work" \in Locations
      BY DEF Locations
    <2> QED BY <1>1, <2>1, GoneWith, CallFields DEF Go, RegInv
  <1>6. states'[s] = x
    BY <1>2, <1>3, <1>4, Written
  <1>7. CallInv(c) /\ StarterInv(c) /\ OwnerInv(c) /\ StoreInv(c)
    BY DEF RegInv
  <1>8. Importing => Importing'
    BY <1>1, <1>5 DEF Importing, Moved
  <1>9. CallInv(c)' /\ StarterInv(c)'
    BY <1>1, <1>2, <1>5, <1>7 DEF Moved, CallInv, OpsAt, StarterInv
  <1>10. OwnerInv(c)'
    <2>1. Private(c) => Private(c)'
      BY <1>5 DEF Private, Moved
    <2> QED BY <1>1, <1>2, <1>3, <1>5, <1>6, <1>7, <2>1 DEF Moved, OwnerInv
  <1>11. StoreInv(c)'
    BY <1>1, <1>2, <1>5, <1>7, <1>8 DEF Moved, StoreInv
  <1>12. StateKept(c, s) /\ LockKept(c, s)
    BY <1>1, <1>3, <1>5, <1>6 DEF StateKept, LockKept, Moved
  <1>13. pc'[c].st \in {0, s} /\ s = pc[c].st
    BY <1>5 DEF Moved
  <1> HIDE DEF s
  <1> QED BY <1>1, <1>2, <1>3, <1>4, <1>5, <1>9, <1>10, <1>11, <1>12, <1>13, StateStep DEF Moved

LEMMA StopStateStep ==
    ASSUME RegInv, NEW c \in Callers, StopState(c)
    PROVE  RegInv'
  <1> DEFINE s == pc[c].st
             x == Stopped(states[s])
             at == IF pc[c].op = "restart" THEN "reload" ELSE "idle"
  <1>1. /\ pc[c].at = "work" /\ pc[c].op \in {"stop", "restart"} /\ Go(c, at)
        /\ UNCHANGED <<rlock, mem, db, calls, ends, raced, undeleted>>
        /\ states' = [states EXCEPT ![s] = x]
    BY DEF StopState, At
  <1>2. s \in DOMAIN states /\ states[s] \in State /\ states[s].rule \in RuleDef /\ s # 0
    BY <1>1, OnState
  <1>3. x \in State /\ x.rule = states[s].rule /\ x.tp = 0 /\ ~x.busy
    BY <1>2 DEF State, Stopped, NewState
  <1> HIDE DEF x
  <1>4. at \in Locations /\ at \in {"reload", "idle"} /\ (at = "reload" => pc[c].op = "restart")
    BY DEF Locations
  <1> HIDE DEF at
  <1>5. Moved(c, at, s)
    BY <1>1, <1>4, GoneWith, CallFields DEF Go, RegInv
  <1>6. states'[s] = x
    BY <1>1, <1>2, <1>3, Written
  <1>7. CallInv(c) /\ StarterInv(c)
    BY DEF RegInv
  <1>8. CallInv(c)' /\ StarterInv(c)' /\ OwnerInv(c)' /\ StoreInv(c)'
    BY <1>1, <1>2, <1>4, <1>5, <1>7
       DEF Moved, CallInv, OpsAt, AllMethods, WithState, StarterInv, OwnerInv, StoreInv
  <1>9. StateKept(c, s) /\ LockKept(c, s)
    BY <1>1, <1>3, <1>4, <1>5, <1>6 DEF StateKept, LockKept, Moved
  <1>10. pc'[c].st \in {0, s} /\ s = pc[c].st
    BY <1>5 DEF Moved
  <1> HIDE DEF s
  <1> QED BY <1>1, <1>2, <1>3, <1>5, <1>8, <1>9, <1>10, StateStep DEF Moved

LEMMA DeleteStateStep ==
    ASSUME RegInv, NEW c \in Callers, DeleteState(c)
    PROVE  RegInv'
  <1> DEFINE s == pc[c].st
             old == states[s]
             x == [old EXCEPT !.tp = 0]
  <1>1. /\ pc[c].at = "undo" /\ ~states[s].busy /\ Go(c, "idle")
        /\ rlock' = IF rlock = c THEN None ELSE rlock
        /\ UNCHANGED <<mem, db, calls, ends, raced, undeleted>>
        /\ states' = [states EXCEPT ![s] = x]
    BY DEF DeleteState, At
  <1>2. s \in DOMAIN states /\ states[s] \in State /\ s # 0
    BY <1>1, OnState
  <1>3. x \in State /\ x.rule = states[s].rule /\ x.tp = 0 /\ x.busy = states[s].busy
    <2>1. old \in State /\ old = states[s]
      BY <1>2
    <2> HIDE DEF old
    <2>2. x \in State /\ x.rule = old.rule /\ x.tp = 0 /\ x.busy = old.busy
      BY <2>1 DEF State
    <2> QED BY <2>1, <2>2
  <1> HIDE DEF x, old
  <1>5. Moved(c, "idle", s)
    <2>1. "idle" \in Locations
      BY DEF Locations
    <2> QED BY <1>1, <2>1, GoneWith, CallFields DEF Go, RegInv
  <1>6. states'[s] = x
    BY <1>1, <1>2, <1>3, Written
  <1>7. rlock' # c /\ (rlock' = rlock \/ (rlock = c /\ rlock' = None))
    BY <1>1, CallFields
  <1>8. CallInv(c)' /\ StarterInv(c)' /\ OwnerInv(c)' /\ StoreInv(c)'
    BY <1>5, <1>7, IdleInv
  <1>9. StateKept(c, s) /\ LockKept(c, s)
    BY <1>1, <1>3, <1>5, <1>6 DEF StateKept, LockKept, Moved
  <1>10. pc'[c].st \in {0, s} /\ s = pc[c].st
    BY <1>5 DEF Moved
  <1> HIDE DEF s
  <1> QED BY <1>1, <1>2, <1>3, <1>5, <1>7, <1>8, <1>9, <1>10, StateStep DEF Moved

LEMMA StartStep ==
    ASSUME RegInv, NEW c \in Callers, Start(c)
    PROVE  RegInv'
  <1> DEFINE s == pc[c].st
  <1>1. /\ pc[c].at = "begin" /\ ~states[s].busy /\ Go(c, "idle")
        /\ UNCHANGED <<rlock, mem, db, calls, ends, raced, undeleted>>
    BY DEF Start, At
  <1>2. /\ s \in DOMAIN states /\ states[s] \in State /\ s # 0
        /\ states[s].rule \in RuleDef /\ states[s].tp \in Nat
        /\ pc[c].op \in {"restart", "import", "patrol"}
    BY <1>1, OnState DEF OpsAt
  <1>3. CallInv(c) /\ StarterInv(c)
    BY DEF RegInv
  <1>4. rlock # c /\ (s = mem \/ s \in raced)
    BY <1>1, <1>2, <1>3 DEF CallInv, StarterInv
  <1>5. CASE UNCHANGED states
    BY <1>1, <1>4, <1>5, GivesUp
  <1>6. ASSUME NEW ok \in BOOLEAN, states' = [states EXCEPT ![s] = Started(@, NewTp, ok)]
        PROVE  RegInv'
    <2> DEFINE x == Started(states[s], NewTp, ok)
    <2>1. x \in State /\ x.rule = states[s].rule /\ ~x.busy /\ states' = [states EXCEPT ![s] = x]
      <3>1. NewTp \in Nat
        BY NewTpIsNat DEF RegInv
      <3> QED BY <1>2, <1>6, <3>1 DEF Started, State
    <2> HIDE DEF x
    <2>2. Moved(c, "idle", s)
      <3>1. "idle" \in Locations
        BY DEF Locations
      <3> QED BY <1>1, <3>1, GoneWith, CallFields DEF Go, RegInv
    <2>3. states'[s] = x
      BY <1>2, <2>1, Written
    <2>4. CallInv(c)' /\ StarterInv(c)' /\ OwnerInv(c)' /\ StoreInv(c)'
      BY <1>1, <1>4, <2>2, IdleInv
    <2>5. states'[s].busy = states[s].busy
      <3>1. states[s].busy = FALSE /\ x.busy = FALSE
        BY <1>1, <1>2, <2>1 DEF State
      <3> QED BY <2>3, <3>1
    <2>6. LockKept(c, s)
      BY <1>1, <2>2, <2>5 DEF LockKept, Moved
    <2>7. StateKept(c, s)
      <3>1. states[s].rule.ver \in Nat
        BY <1>2, BoundsAssumption DEF RuleDef
      <3> QED BY <1>2, <2>1, <2>3, <3>1 DEF StateKept
    <2>8. pc'[c].st \in {0, s} /\ s = pc[c].st /\ pc[c].at \notin {"reload", "register"}
      BY <1>1, <2>2 DEF Moved
    <2> HIDE DEF s
    <2> QED BY <1>1, <1>2, <1>4, <2>1, <2>2, <2>4, <2>6, <2>7, <2>8, StateStep DEF Moved
  <1> QED BY <1>5, <1>6 DEF Start

LEMMA PutRuleStep ==
    ASSUME RegInv, NEW c \in Callers, PutRule(c)
    PROVE  RegInv'
  <1> DEFINE s == pc[c].st
             new == pc[c].new
             old == states[s]
             x == [old EXCEPT !.rule = new]
  <1>1. /\ pc[c].at = "put" /\ ~states[s].busy /\ Go(c, "begin")
        /\ UNCHANGED <<rlock, mem, db, calls, ends, undeleted>>
        /\ states' = [states EXCEPT ![s] = x]
        /\ raced' = IF db = new /\ states[s].rule.ver <= new.ver THEN raced ELSE raced \cup {s}
    BY DEF PutRule, At
  <1>2. /\ s \in DOMAIN states /\ states[s] \in State /\ s # 0 /\ states[s].rule.ver \in Nat
        /\ new.ver \in Nat /\ new \in RuleDef /\ pc[c].op = "restart"
    BY <1>1, OnState, CallFields DEF OpsAt
  <1> HIDE DEF new
  <1>3. x \in State /\ x.rule = new /\ x.tp = states[s].tp /\ x.busy = states[s].busy
    <2>1. old \in State /\ old = states[s]
      BY <1>2
    <2> HIDE DEF old
    <2>2. x \in State /\ x.rule = new /\ x.tp = old.tp /\ x.busy = old.busy
      BY <1>2, <2>1 DEF State
    <2> QED BY <2>1, <2>2
  <1> HIDE DEF x, old
  <1>4. Moved(c, "begin", s)
    <2>1. "begin" \in Locations
      BY DEF Locations
    <2> QED BY <1>1, <2>1, GoneWith, CallFields DEF Go, RegInv
  <1>5. states'[s] = x
    BY <1>1, <1>2, <1>3, Written
  <1>6. raced' \in {raced, raced \cup {s}} /\ (s \in raced' \/ (db = new /\ states[s].rule.ver <= new.ver))
    BY <1>1
  <1>7. CallInv(c) /\ StarterInv(c)
    BY DEF RegInv
  <1>8. CallInv(c)'
    BY <1>1, <1>2, <1>4, <1>7 DEF Moved, CallInv, OpsAt
  <1>9. StarterInv(c)' /\ OwnerInv(c)' /\ StoreInv(c)'
    BY <1>1, <1>2, <1>4, <1>6, <1>7 DEF Moved, StarterInv, OwnerInv, StoreInv
  <1>10. LockKept(c, s)
    BY <1>1, <1>3, <1>4, <1>5 DEF LockKept, Moved
  <1>11. StateKept(c, s)
    BY <1>3, <1>5, <1>6 DEF StateKept
  <1>12. pc'[c].st \in {0, s} /\ s = pc[c].st /\ pc[c].at \notin {"reload", "register"}
    BY <1>1, <1>4 DEF Moved
  <1>13. \/ s # mem \/ x.rule.ver = states[s].rule.ver \/ s \in raced'
         \/ db = None \/ Importing \/ undeleted \/ db.ver <= x.rule.ver
    BY <1>2, <1>3, <1>6
  <1> HIDE DEF s
  <1> QED BY <1>1, <1>2, <1>3, <1>4, <1>6, <1>8, <1>9, <1>10, <1>11, <1>12, <1>13, StateStep
          DEF Moved

\* A plan that fails leaves the definition, but for Triggered of a start.
LEMMA PlanFails ==
    ASSUME RegInv, NEW c \in Callers, pc[c].at = "work", pc[c].op \in {"create", "upsert", "start"},
           NEW r \in RuleDef, r.ver = states[pc[c].st].rule.ver,
           r = states[pc[c].st].rule \/ pc[c].op = "start",
           states' = [states EXCEPT ![pc[c].st] = WithRule(@, r)],
           rlock' = IF rlock = c THEN None ELSE rlock, Go(c, "idle"),
           UNCHANGED <<mem, db, calls, ends, raced, undeleted>>
    PROVE  RegInv'
  <1> DEFINE s == pc[c].st
             x == WithRule(states[s], r)
  <1>1. /\ s \in DOMAIN states /\ states[s] \in State /\ s # 0 /\ states[s].tp \in Nat
        /\ states[s].status \in {"stopped", "running", "failed"} /\ states[s].rule.ver \in Nat
    BY OnState
  <1>2. x \in State /\ x.rule = r /\ x.tp = states[s].tp /\ ~x.busy
    BY <1>1 DEF WithRule, State
  <1>3. states' = [states EXCEPT ![s] = x]
    OBVIOUS
  <1> HIDE DEF x
  <1>4. Moved(c, "idle", s)
    <2>1. "idle" \in Locations
      BY DEF Locations
    <2> QED BY <2>1, GoneWith, CallFields DEF Go, RegInv
  <1>5. states'[s] = x
    BY <1>1, <1>2, <1>3, Written
  <1>6. rlock' # c /\ (rlock' = rlock \/ (rlock = c /\ rlock' = None))
    BY CallFields
  <1>7. CallInv(c)' /\ StarterInv(c)' /\ OwnerInv(c)' /\ StoreInv(c)'
    BY <1>4, <1>6, IdleInv
  <1>8. StateKept(c, s) /\ LockKept(c, s)
    BY <1>1, <1>2, <1>4, <1>5 DEF StateKept, LockKept, Moved
  <1>9. pc'[c].st \in {0, s} /\ s = pc[c].st /\ x.rule.ver = states[s].rule.ver
    BY <1>2, <1>4 DEF Moved
  <1> HIDE DEF s
  <1> QED BY <1>1, <1>2, <1>3, <1>4, <1>6, <1>7, <1>8, <1>9, StateStep DEF Moved

\* The definition is installed, and the rule runs if it is triggered.
LEMMA PlanRuns ==
    ASSUME RegInv, NEW c \in Callers, pc[c].at = "work", pc[c].op \in {"create", "upsert", "start"},
           NEW r \in RuleDef,
           IF pc[c].op = "start" THEN r.ver = states[pc[c].st].rule.ver ELSE r = pc[c].new,
           NEW x \in State, x.rule = r, ~x.busy, states' = [states EXCEPT ![pc[c].st] = x],
           NEW at, Go(c, at), pc[c].op = "create" => at = "save", pc[c].op = "upsert" => at = "persist",
           pc[c].op = "start" => at = "idle",
           UNCHANGED <<rlock, mem, db, calls, ends, raced, undeleted>>
    PROVE  RegInv'
  <1> DEFINE s == pc[c].st
  <1>1. /\ s \in DOMAIN states /\ states[s] \in State /\ s # 0
        /\ states[s].rule.ver \in Nat /\ pc[c].new.ver \in Nat
    BY OnState
  <1>2. at \in Locations /\ at \in {"save", "persist", "idle"}
    BY DEF Locations
  <1>3. Moved(c, at, s)
    BY <1>2, GoneWith, CallFields DEF Go, RegInv
  <1>4. states'[s] = x
    BY <1>1, Written
  <1>5. CallInv(c) /\ StarterInv(c) /\ OwnerInv(c) /\ StoreInv(c)
    BY DEF RegInv
  <1>6. Importing => Importing'
    BY <1>3 DEF Importing, Moved
  <1>7. CallInv(c)' /\ StarterInv(c)'
    BY <1>1, <1>3, <1>5 DEF Moved, CallInv, OpsAt, AllMethods, WithState, StarterInv
  <1>8. OwnerInv(c)'
    <2>1. pc'[c].st = pc[c].st /\ Private(c) => Private(c)'
      BY <1>3 DEF Private, Moved
    <2> QED BY <1>3, <1>5, <2>1 DEF Moved, OwnerInv
  <1>9. StoreInv(c)'
    BY <1>1, <1>3, <1>4, <1>5, <1>6 DEF Moved, StoreInv
  <1>10. StateKept(c, s)
    <2>1. pc[c].op = "upsert" => rlock = c
      BY <1>5 DEF CallInv
    <2> QED BY <1>1, <1>4, <2>1 DEF StateKept
  <1>11. LockKept(c, s)
    BY <1>2, <1>3, <1>4 DEF LockKept, Moved
  <1>12. pc'[c].st \in {0, s} /\ s = pc[c].st
    BY <1>3 DEF Moved
  <1>13. \/ x.tp = 0 \/ s = mem \/ s \in raced'
         \/ pc'[c].st = s /\ pc'[c].at \in {"save", "persist", "undo"}
    BY <1>1, <1>3, <1>5 DEF Moved, StarterInv
  <1>14. \/ s # mem \/ x.rule.ver = states[s].rule.ver \/ s \in raced'
         \/ db = None \/ Importing \/ undeleted \/ db.ver <= x.rule.ver
    BY <1>5 DEF OwnerInv, StoreInv
  <1> HIDE DEF s
  <1> QED BY <1>1, <1>3, <1>7, <1>8, <1>9, <1>10, <1>11, <1>12, <1>13, <1>14, StateStep DEF Moved

LEMMA ValidateAndRunStep ==
    ASSUME RegInv, NEW c \in Callers, ValidateAndRun(c)
    PROVE  RegInv'
  <1> DEFINE s == pc[c].st
             old == states[s].rule
             r == IF pc[c].op = "start" THEN [old EXCEPT !.triggered = TRUE] ELSE pc[c].new
             stopped == IF states[s].tp # 0 THEN Stopped(states[s]) ELSE states[s]
  <1>1. /\ pc[c].at = "work" /\ pc[c].op \in {"create", "upsert", "start"}
        /\ UNCHANGED <<mem, db, calls, ends, raced, undeleted>>
    BY DEF ValidateAndRun, At
  <1>2. /\ s \in DOMAIN states /\ states[s] \in State /\ old \in RuleDef /\ s # 0
        /\ states[s].tp \in Nat /\ states[s].status \in {"stopped", "running", "failed"}
    BY <1>1, OnState
  <1>3. r \in RuleDef /\ IF pc[c].op = "start" THEN r.ver = old.ver ELSE r = pc[c].new
    <2>1. old \in RuleDef /\ pc[c].new \in RuleDef
      BY <1>2, CallFields
    <2> HIDE DEF old
    <2> QED BY <2>1 DEF RuleDef
  <1>4. ASSUME states' = [states EXCEPT ![s] = WithRule(@, IF pc[c].op = "start" THEN r ELSE @.rule)],
               rlock' = IF rlock = c THEN None ELSE rlock, Go(c, "idle")
        PROVE  RegInv'
    <2> DEFINE q == IF pc[c].op = "start" THEN r ELSE old
    <2>1. q \in RuleDef /\ q.ver = old.ver /\ (q = old \/ pc[c].op = "start")
      BY <1>2, <1>3
    <2>2. states' = [states EXCEPT ![s] = WithRule(@, q)]
      BY <1>4
    <2> HIDE DEF q, r
    <2> QED BY <1>1, <1>4, <2>1, <2>2, PlanFails
  <1>5. ASSUME states' = [states EXCEPT ![s] =
                              WithRule(IF r.triggered THEN Started(stopped, NewTp, TRUE)
                                                      ELSE stopped, r)],
               Go(c, CASE pc[c].op = "create" -> "save"
                       [] pc[c].op = "upsert" -> "persist"
                       [] pc[c].op = "start"  -> "idle"), UNCHANGED rlock
        PROVE  RegInv'
    <2> DEFINE at == CASE pc[c].op = "create" -> "save"
                       [] pc[c].op = "upsert" -> "persist"
                       [] pc[c].op = "start"  -> "idle"
               x == WithRule(IF r.triggered THEN Started(stopped, NewTp, TRUE) ELSE stopped, r)
    <2>1. NewTp \in Nat
      BY NewTpIsNat DEF RegInv
    <2>2. stopped.tp \in Nat /\ stopped.status \in {"stopped", "running", "failed"}
      BY <1>2 DEF Stopped, NewState
    <2>3. x \in State /\ x.rule = r /\ ~x.busy
      <3> HIDE DEF r, stopped
      <3> QED BY <1>3, <2>1, <2>2 DEF WithRule, Started, State
    <2>4. /\ pc[c].op = "create" => at = "save"
          /\ pc[c].op = "upsert" => at = "persist"
          /\ pc[c].op = "start" => at = "idle"
      OBVIOUS
    <2>5. states' = [states EXCEPT ![s] = x] /\ Go(c, at)
      BY <1>5
    <2> HIDE DEF at, x, r, stopped
    <2> QED BY <1>1, <1>3, <1>5, <2>3, <2>4, <2>5, PlanRuns
  <1> QED BY <1>4, <1>5 DEF ValidateAndRun
-----------------------------------------------------------------------------
(* Steps that write the registry or the database                           *)

\* Topologies stay where they are: the entry that leaves was touched by a race, and c
\* still answers for its state.
LEMMA TpStays ==
    ASSUME RegInv, NEW c \in Callers, UNCHANGED states,
           pc' \in [Callers -> Caller], \A d \in Callers \ {c} : pc'[d] = pc[d],
           raced \subseteq raced', mem' = mem \/ mem \in raced' \cup {0}
               \/ (pc'[c].st = mem /\ pc'[c].at \in {"save", "persist", "undo"}),
           pc[c].at \in {"save", "persist", "undo"}
               => mem' = pc[c].st \/ (pc'[c].st = pc[c].st /\ pc'[c].at \in {"save", "persist", "undo"})
    PROVE  TpInv'
  <1>1. mem \in 0..Len(states) /\ DOMAIN states = 1..Len(states)
    BY CallFields
  <1>2. ASSUME NEW s \in DOMAIN states'
        PROVE  \/ states'[s].tp = 0 \/ s = mem' \/ s \in raced'
               \/ c \in Callers /\ pc'[c].st = s /\ pc'[c].at \in {"save", "persist", "undo"}
               \/ /\ s \in DOMAIN states /\ states[s].tp # 0 /\ s # mem
                  /\ ~(c \in Callers /\ pc[c].st = s /\ pc[c].at \in {"save", "persist", "undo"})
    <2>1. s \in DOMAIN states /\ s # 0 /\ states'[s] = states[s]
      BY <1>1
    <2>2. CASE s = mem
      BY <2>1, <2>2
    <2>3. CASE s # mem
      BY <2>1, <2>3
    <2> QED BY <2>2, <2>3
  <1> QED BY <1>2, TpKept

LEMMA SaveStep ==
    ASSUME RegInv, NEW c \in Callers, Save(c)
    PROVE  RegInv'
  <1> DEFINE s == pc[c].st
             new == pc[c].new
  <1>1. pc[c].at = "save" /\ rlock = None /\ UNCHANGED <<rlock, states, calls, ends>>
    BY DEF Save, At, RegFree
  <1>2. CallInv(c) /\ OwnerInv(c) /\ StoreInv(c) /\ StoredInv
    BY DEF RegInv
  <1>3. /\ pc[c].op = "create" /\ s # 0 /\ s # mem /\ Private(c) /\ states[s].rule = new
        /\ new \in RuleDef /\ s \in DOMAIN states /\ new.ver \in Nat
    <2>1. pc[c].op = "create" /\ s # 0
      BY <1>1, <1>2 DEF CallInv, OpsAt, WithState
    <2>2. s # mem /\ Private(c) /\ states[s].rule = new
      BY <1>1, <1>2, <2>1 DEF OwnerInv, StoreInv
    <2>3. new \in RuleDef /\ s \in DOMAIN states
      BY <2>1, CallFields
    <2> HIDE DEF s, new
    <2>4. new.ver \in Nat
      BY <2>3, BoundsAssumption DEF RuleDef
    <2> QED BY <2>1, <2>2, <2>3, <2>4
  <1>4. ASSUME new.temp \/ db = None, db' = (IF new.temp THEN db ELSE new), mem' = s, Go(c, "idle"),
               raced' = raced \cup (IF mem = 0 THEN {} ELSE {mem, s}),
               undeleted' = (undeleted /\ new.temp)
        PROVE  RegInv'
    <2>1. /\ db' = (IF new.temp THEN db ELSE new) /\ mem' = s /\ Go(c, "idle")
          /\ raced' = raced \cup (IF mem = 0 THEN {} ELSE {mem, s})
      BY <1>4
    <2>0. new.temp /\ undeleted => undeleted'
      BY <1>4
    <2>2. Moved(c, "idle", s)
      <3>1. "idle" \in Locations
        BY DEF Locations
      <3> QED BY <2>1, <3>1, GoneWith, CallFields DEF Go, RegInv
    <2>3. CallInv(c)' /\ StarterInv(c)' /\ OwnerInv(c)' /\ StoreInv(c)'
      BY <1>1, <2>2, IdleInv, CallFields
    <2>4. raced \subseteq raced' /\ raced' \subseteq DOMAIN states
          /\ (mem # 0 => mem \in raced' /\ s \in raced')
      BY <1>3, <2>1, CallFields DEF RegInv, RegTypes
    <2>5. db' = None \/ db' \in RuleDef
      BY <1>3, <2>1 DEF RegInv, RegTypes
    <2>6. Importing => Importing'
      BY <1>1, <2>2 DEF Importing, Moved
    <2>7. TpInv'
      BY <1>1, <2>1, <2>2, <2>4, TpStays DEF Moved
    <2>8. StoredInv'
      <3> SUFFICES ASSUME db' # None, ~Importing', ~undeleted'
                   PROVE  mem' \in raced' \/ db'.ver <= states'[mem'].rule.ver
        BY <1>3, <2>1 DEF StoredInv
      <3>1. CASE new.temp
        <4>1. mem # 0
          BY <1>2, <2>0, <2>1, <2>6, <3>1 DEF StoredInv
        <4> QED BY <2>1, <2>4, <4>1
      <3>2. CASE ~new.temp
        <4>1. states'[mem'].rule = new /\ db' = new
          BY <1>1, <1>3, <2>1, <3>2
        <4> QED BY <1>3, <4>1
      <3> QED BY <3>1, <3>2
    <2>9. LeavesWhileHeld \subseteq raced'
      BY <2>4 DEF LeavesWhileHeld
    <2>10. mem' \in {mem, 0, pc[c].st} /\ pc'[c].st \in {0, mem, pc[c].st} /\ pc'[c].at # "work"
      BY <2>1, <2>2 DEF Moved
    <2> QED BY <1>1, <2>2, <2>3, <2>4, <2>5, <2>7, <2>8, <2>9, <2>10, EntryStep DEF Moved
  <1>5. ASSUME Go(c, "undo"), UNCHANGED <<db, mem, raced, undeleted>>
        PROVE  RegInv'
    <2>1. Go(c, "undo") /\ UNCHANGED <<db, mem, raced, undeleted>>
      BY <1>5
    <2>2. Moved(c, "undo", s)
      <3>1. "undo" \in Locations
        BY DEF Locations
      <3> QED BY <2>1, <3>1, GoneWith, CallFields DEF Go, RegInv
    <2>3. Private(c)'
      BY <1>3, <2>2 DEF Private, Moved
    <2>4. CallInv(c)' /\ StarterInv(c)' /\ OwnerInv(c)' /\ StoreInv(c)'
      BY <1>1, <1>2, <1>3, <2>1, <2>2, <2>3
         DEF Moved, CallInv, OpsAt, StarterInv, OwnerInv, StoreInv
    <2>5. Importing => Importing'
      BY <1>1, <2>2 DEF Importing, Moved
    <2>6. TpInv'
      BY <1>1, <2>1, <2>2, TpStays DEF Moved
    <2>7. StoredInv'
      BY <1>1, <1>2, <2>1, <2>5 DEF StoredInv
    <2>8. (db' = None \/ db' \in RuleDef) /\ raced' \subseteq DOMAIN states
      BY <2>1 DEF RegInv, RegTypes
    <2>9. mem' \in {mem, 0, pc[c].st} /\ pc'[c].st \in {0, mem, pc[c].st} /\ pc'[c].at # "work"
      BY <2>1, <2>2 DEF Moved
    <2> QED BY <1>1, <2>1, <2>2, <2>4, <2>6, <2>7, <2>8, <2>9, EntryStep DEF Moved
  <1> QED BY <1>4, <1>5 DEF Save

LEMMA PersistStep ==
    ASSUME RegInv, NEW c \in Callers, Persist(c)
    PROVE  RegInv'
  <1> DEFINE s == pc[c].st
             new == pc[c].new
  <1>1. pc[c].at = "persist" /\ UNCHANGED <<states, calls, ends, raced>>
    BY DEF Persist, At
  <1>2. CallInv(c) /\ OwnerInv(c) /\ StoreInv(c) /\ StoredInv
    BY DEF RegInv
  <1>3. /\ pc[c].op = "upsert" /\ s # 0 /\ rlock = c /\ (s = mem \/ (mem = 0 /\ Private(c)))
        /\ (s \in raced \/ states[s].rule.ver >= new.ver)
        /\ new \in RuleDef /\ s \in DOMAIN states /\ new.ver \in Nat /\ states[s].rule.ver \in Nat
    <2>1. pc[c].op = "upsert" /\ s # 0 /\ rlock = c
      BY <1>1, <1>2 DEF CallInv, OpsAt, WithState
    <2>2. (s = mem \/ (mem = 0 /\ Private(c))) /\ (s \in raced \/ states[s].rule.ver >= new.ver)
      BY <1>1, <1>2, <2>1 DEF OwnerInv, StoreInv
    <2>3. new \in RuleDef /\ s \in DOMAIN states /\ states[s] \in State
      BY <2>1, CallFields
    <2>4. states[s].rule \in RuleDef
      BY <2>3 DEF State
    <2> HIDE DEF s, new
    <2>5. new.ver \in Nat /\ states[s].rule.ver \in Nat
      BY <2>3, <2>4, BoundsAssumption DEF RuleDef
    <2> QED BY <2>1, <2>2, <2>3, <2>5
  <1>4. raced \subseteq raced' /\ raced' \subseteq DOMAIN states
    BY <1>1 DEF RegInv, RegTypes
  <1>5. ASSUME db' = (IF new.temp THEN db ELSE new), mem' = s, rlock' = None, Go(c, "idle"),
               undeleted' = (undeleted /\ new.temp)
        PROVE  RegInv'
    <2>1. Moved(c, "idle", s)
      <3>1. "idle" \in Locations
        BY DEF Locations
      <3> QED BY <1>5, <3>1, GoneWith, CallFields DEF Go, RegInv
    <2>2. CallInv(c)' /\ StarterInv(c)' /\ OwnerInv(c)' /\ StoreInv(c)'
      BY <1>5, <2>1, IdleInv, CallFields
    <2>3. db' = None \/ db' \in RuleDef
      BY <1>3, <1>5 DEF RegInv, RegTypes
    <2>4. Importing => Importing'
      BY <1>1, <2>1 DEF Importing, Moved
    <2>5. TpInv'
      BY <1>1, <1>3, <1>4, <1>5, <2>1, TpStays DEF Moved
    <2>6. StoredInv'
      <3> SUFFICES ASSUME db' # None, ~Importing', ~undeleted'
                   PROVE  s \in raced \/ db'.ver <= states[s].rule.ver
        BY <1>1, <1>3, <1>5 DEF StoredInv
      <3>1. CASE new.temp
        <4>1. mem # 0 /\ (mem \in raced \/ db.ver <= states[mem].rule.ver) /\ db' = db
          BY <1>2, <1>5, <2>4, <3>1 DEF StoredInv
        <4> QED BY <1>3, <4>1
      <3>2. CASE ~new.temp
        <4>1. db' = new
          BY <1>5, <3>2
        <4> QED BY <1>3, <4>1
      <3> QED BY <3>1, <3>2
    <2>7. mem' # mem => LeavesWhileHeld \subseteq raced'
      BY <1>3, <1>5 DEF LeavesWhileHeld
    <2>8. mem' \in {mem, 0, pc[c].st} /\ pc'[c].st \in {0, mem, pc[c].st} /\ pc'[c].at # "work"
          /\ rlock \in {c, None} /\ rlock' \in {rlock, None}
      BY <1>3, <1>5, <2>1 DEF Moved
    <2> QED BY <1>1, <1>4, <2>1, <2>2, <2>3, <2>5, <2>6, <2>7, <2>8, EntryStep DEF Moved
  <1>6. ASSUME Go(c, "undo"), UNCHANGED <<rlock, mem, db, undeleted>>
        PROVE  RegInv'
    <2>1. Moved(c, "undo", s)
      <3>1. "undo" \in Locations
        BY DEF Locations
      <3> QED BY <1>6, <3>1, GoneWith, CallFields DEF Go, RegInv
    <2>2. Private(c) => Private(c)'
      BY <1>3, <2>1 DEF Private, Moved
    <2>3. CallInv(c)' /\ StarterInv(c)' /\ OwnerInv(c)' /\ StoreInv(c)'
      BY <1>1, <1>2, <1>3, <1>6, <2>1, <2>2
         DEF Moved, CallInv, OpsAt, StarterInv, OwnerInv, StoreInv
    <2>4. Importing => Importing'
      BY <1>1, <2>1 DEF Importing, Moved
    <2>5. TpInv'
      BY <1>1, <1>4, <1>6, <2>1, TpStays DEF Moved
    <2>6. StoredInv'
      BY <1>1, <1>2, <1>6, <2>4 DEF StoredInv
    <2>7. db' = None \/ db' \in RuleDef
      BY <1>6 DEF RegInv, RegTypes
    <2>8. mem' \in {mem, 0, pc[c].st} /\ pc'[c].st \in {0, mem, pc[c].st} /\ pc'[c].at # "work"
          /\ rlock \in {c, None} /\ rlock' \in {rlock, None}
      BY <1>3, <1>6, <2>1 DEF Moved
    <2> QED BY <1>1, <1>4, <1>6, <2>1, <2>3, <2>5, <2>6, <2>7, <2>8, EntryStep DEF Moved
  <1> QED BY <1>5, <1>6 DEF Persist

LEMMA RemoveStep ==
    ASSUME RegInv, NEW c \in Callers, Remove(c)
    PROVE  RegInv'
  <1>1. pc[c].at = "remove" /\ rlock = None /\ UNCHANGED <<rlock, states, calls, ends>>
    BY DEF Remove, At, RegFree
  <1>2. pc[c].op = "delete"
    BY <1>1 DEF RegInv, CallInv, OpsAt
  <1>3. CASE mem = 0
    <2>1. Go(c, "idle") /\ UNCHANGED <<mem, db, raced, undeleted>>
      BY <1>3 DEF Remove
    <2> QED BY <1>1, <1>2, <2>1, GivesUp, CallFields
  <1>4. CASE mem # 0
    <2>1. /\ mem' = 0 /\ db' \in {db, None} /\ GoWith(c, "undo", mem)
          /\ raced' = raced \cup LeavesWhileHeld
          /\ undeleted' <=> db' # None
      BY <1>4 DEF Remove
    <2>2. Moved(c, "undo", mem)
      <3>1. "undo" \in Locations
        BY DEF Locations
      <3> QED BY <2>1, <3>1, GoneWith, CallFields DEF RegInv
    <2>3. CallInv(c)' /\ StarterInv(c)' /\ OwnerInv(c)' /\ StoreInv(c)'
      BY <1>1, <1>2, <1>4, <2>2, CallFields
         DEF Moved, CallInv, OpsAt, StarterInv, OwnerInv, StoreInv
    <2>4. raced \subseteq raced' /\ raced' \subseteq DOMAIN states
      BY <2>1, CallFields DEF LeavesWhileHeld, RegInv, RegTypes
    <2>5. TpInv'
      BY <1>1, <2>1, <2>2, <2>4, TpStays DEF Moved
    <2>6. StoredInv' /\ (mem' # mem => LeavesWhileHeld \subseteq raced')
      BY <2>1 DEF StoredInv
    <2>7. mem' \in {mem, 0, pc[c].st} /\ pc'[c].st \in {0, mem, pc[c].st} /\ pc'[c].at # "work"
      BY <2>1, <2>2 DEF Moved
    <2>8. db' = None \/ db' \in RuleDef
      BY <2>1 DEF RegInv, RegTypes
    <2> QED BY <1>1, <2>1, <2>2, <2>3, <2>4, <2>5, <2>6, <2>7, <2>8, EntryStep DEF Moved
  <1> QED BY <1>3, <1>4

LEMMA CheckImportStep ==
    ASSUME RegInv, NEW c \in Callers, CheckImport(c)
    PROVE  RegInv'
  <1>1. pc[c].at = "write" /\ UNCHANGED <<rlock, mem, db, states, calls, ends, raced, undeleted>>
    BY DEF CheckImport, At
  <1>2. CallInv(c) /\ StarterInv(c)
    BY DEF RegInv
  <1>3. pc[c].op = "import" /\ rlock # c
    BY <1>1, <1>2 DEF CallInv, OpsAt
  <1>4. CASE Go(c, "idle")
    BY <1>1, <1>3, <1>4, GivesUp
  <1>5. ASSUME NEW at \in {"reload", "store"}, Go(c, at)
        PROVE  RegInv'
    <2>1. at \in Locations /\ at # "work"
      BY DEF Locations
    <2>2. Moved(c, at, pc[c].st)
      BY <1>5, <2>1, GoneWith, CallFields DEF Go, RegInv
    <2>3. CallInv(c)' /\ StarterInv(c)' /\ OwnerInv(c)' /\ StoreInv(c)'
      BY <1>1, <1>2, <1>3, <2>2
         DEF Moved, CallInv, OpsAt, WithState, StarterInv, OwnerInv, StoreInv
    <2>4. SameVersion
      BY <1>1, SameDefinition
    <2> QED BY <1>1, <1>3, <2>1, <2>2, <2>3, <2>4, QuietMove
  <1>6. Go(c, "idle") \/ Go(c, "reload") \/ Go(c, "store")
    BY DEF CheckImport
  <1> QED BY <1>4, <1>5, <1>6

LEMMA StoreImportStep ==
    ASSUME RegInv, NEW c \in Callers, StoreImport(c)
    PROVE  RegInv'
  <1>1. pc[c].at = "store" /\ UNCHANGED <<rlock, mem, states, calls, ends>>
    BY DEF StoreImport, At
  <1>2. CallInv(c) /\ StarterInv(c)
    BY DEF RegInv
  <1>3. pc[c].op = "import" /\ rlock # c
    BY <1>1, <1>2 DEF CallInv, OpsAt
  <1>4. CASE Go(c, "idle") /\ UNCHANGED <<db, undeleted, raced>>
    BY <1>1, <1>3, <1>4, GivesUp
  <1>5. ASSUME db' = pc[c].new, raced' = raced \cup ({mem} \ {0}), Go(c, "reload")
        PROVE  RegInv'
    <2>1. Moved(c, "reload", pc[c].st)
      <3>1. "reload" \in Locations
        BY DEF Locations
      <3> QED BY <1>5, <3>1, GoneWith, CallFields DEF Go, RegInv
    <2>2. raced \subseteq raced' /\ raced' \subseteq DOMAIN states
      BY <1>5, CallFields DEF RegInv, RegTypes
    <2>3. CallInv(c)' /\ StarterInv(c)' /\ OwnerInv(c)' /\ StoreInv(c)'
      BY <1>1, <1>2, <1>3, <2>1, <2>2
         DEF Moved, CallInv, OpsAt, WithState, StarterInv, OwnerInv, StoreInv
    <2>4. db' = None \/ db' \in RuleDef
      BY <1>5, CallFields DEF RegInv, RegTypes
    <2>5. Importing' /\ StoredInv'
      BY <1>3, <2>1 DEF Importing, Moved, StoredInv
    <2>6. TpInv'
      BY <1>1, <2>1, <2>2, TpStays DEF Moved
    <2>7. mem' \in {mem, 0, pc[c].st} /\ pc'[c].st \in {0, mem, pc[c].st} /\ pc'[c].at # "work"
      BY <1>1, <2>1 DEF Moved
    <2> QED BY <1>1, <2>1, <2>2, <2>3, <2>4, <2>5, <2>6, <2>7, EntryStep DEF Moved
  <1> QED BY <1>4, <1>5 DEF StoreImport

LEMMA RegisterStep ==
    ASSUME RegInv, NEW c \in Callers, Register(c)
    PROVE  RegInv'
  <1> DEFINE n == Len(states) + 1
             new == pc[c].new
             at == IF new.triggered THEN "begin" ELSE "idle"
  <1>1. /\ pc[c].at = "register" /\ rlock = None /\ UNCHANGED <<rlock, db, calls, ends, undeleted>>
        /\ states' = Append(states, NewState(new)) /\ mem' = n /\ GoWith(c, at, n)
        /\ raced' = raced \cup ({mem} \ {0}) \cup (IF db = new THEN {} ELSE {n})
    BY DEF Register, At, RegFree
  <1>2. pc[c].op \in {"import", "patrol"}
    BY <1>1 DEF RegInv, CallInv, OpsAt
  <1>3. at \in Locations /\ at \in {"begin", "idle"}
    BY DEF Locations
  <1> HIDE DEF at
  <1>4. n \in Nat /\ n # 0 /\ new \in RuleDef /\ new.ver \in Nat
    <2>1. n \in Nat /\ n # 0 /\ new \in RuleDef
      BY CallFields
    <2> HIDE DEF new
    <2> QED BY <2>1, BoundsAssumption DEF RuleDef
  <1>5. Moved(c, at, n)
    BY <1>1, <1>3, <1>4, GoneWith DEF RegInv
  <1>6. states'[n].rule = new
    BY <1>1, <1>4, Appended
  <1>7. CallInv(c)'
    <2>1. rlock' # c
      BY <1>1, CallFields
    <2> QED BY <1>2, <1>3, <1>4, <1>5, <2>1 DEF Moved, CallInv, OpsAt, AllMethods, WithState
  <1>8. StarterInv(c)' /\ OwnerInv(c)' /\ StoreInv(c)'
    BY <1>1, <1>2, <1>3, <1>5 DEF Moved, StarterInv, OwnerInv, StoreInv
  <1>9. StoredInv'
    BY <1>1, <1>4, <1>6 DEF StoredInv
  <1>10. /\ raced \subseteq raced' /\ raced' \subseteq raced \cup ({mem, Len(states) + 1} \ {0})
         /\ (mem' # mem /\ mem # 0 => mem \in raced')
         /\ pc'[c].st \in {0, Len(states) + 1} /\ pc'[c].at # "work"
         /\ (mem' = mem \/ (mem' = Len(states) + 1 /\ rlock = None))
    <2>1. 0 \notin raced
      BY CallFields DEF RegInv, RegTypes
    <2> QED BY <1>1, <1>3, <1>4, <1>5, <2>1 DEF Moved
  <1> HIDE DEF new, n
  <1> QED BY <1>1, <1>4, <1>5, <1>7, <1>8, <1>9, <1>10, AppendStep DEF Moved
-----------------------------------------------------------------------------
(* Runs that end by themselves                                             *)

\* A step of the goroutine of a run holds all there is of the invariant: it writes no
\* definition, and a topology at most disappears.
LEMMA EndInv ==
    ASSUME RegInv, UNCHANGED <<rlock, mem, pc, calls, raced>>,
           states' \in Seq(State), Len(states') = Len(states),
           \A s \in DOMAIN states : /\ states'[s].rule = states[s].rule
                                    /\ states'[s].tp \in {states[s].tp, 0},
           SameVersion,
           ends' \in Seq(End), Len(ends') <= MaxEnds,
           \A e \in DOMAIN ends' : ends'[e].st \in DOMAIN states,
           \A s \in DOMAIN states : HolderInv(s)'
    PROVE  RegInv'
  <1>1. /\ RegTypes /\ DOMAIN states' = DOMAIN states /\ Len(states) \in Nat
        /\ DOMAIN states = 1..Len(states) /\ mem \in 0..Len(states)
    BY DEF RegInv, RegTypes
  <1>2. RegTypes'
    <2>1. db' = None \/ db' \in RuleDef
      BY DEF SameVersion
    <2> QED BY <1>1, <2>1 DEF RegTypes
  <1>3. Importing' = Importing
    BY DEF Importing
  <1>4. StepKeeps(None)
    <2>1. \A s \in DOMAIN states : StateKept(None, s)
      BY DEF StateKept
    <2>2. None \notin Callers
      BY CallersAssumption
    <2>3. pc' \in [Callers -> Caller] /\ Len(states) <= Len(states')
      BY <1>1 DEF RegTypes
    <2>4. rlock \in Callers \ {None} /\ db' # None
              => Importing' \/ (db # None /\ db'.ver = db.ver /\ undeleted' = undeleted)
      BY <1>3 DEF SameVersion
    <2> QED BY <1>3, <2>1, <2>2, <2>3, <2>4 DEF StepKeeps
  <1>5. ASSUME NEW d \in Callers
        PROVE  CallInv(d)' /\ StarterInv(d)' /\ OwnerInv(d)' /\ StoreInv(d)'
    <2>1. d \in Callers \ {None}
      BY CallersAssumption
    <2> QED BY <1>4, <2>1, OthersKept
  <1>6. TpInv'
    <2>1. ASSUME NEW s \in DOMAIN states', states'[s].tp # 0, s # mem', s \notin raced'
          PROVE  \E c \in Callers : pc'[c].st = s /\ pc'[c].at \in {"save", "persist", "undo"}
      <3>1. states[s].tp # 0 /\ s # mem /\ s \notin raced /\ s \in DOMAIN states
        BY <1>1, <2>1
      <3> QED BY <3>1 DEF RegInv, TpInv
    <2> QED BY <2>1 DEF TpInv
  <1>7. StoredInv'
    <2> SUFFICES ASSUME db' # None, ~Importing, ~undeleted
                 PROVE  mem # 0 /\ (mem \in raced \/ db'.ver <= states'[mem].rule.ver)
      BY <1>3 DEF StoredInv, SameVersion
    <2>0. db # None /\ db'.ver = db.ver
      BY DEF SameVersion
    <2>1. mem # 0 /\ (mem \in raced \/ db.ver <= states[mem].rule.ver)
      BY <2>0 DEF RegInv, StoredInv
    <2>2. states'[mem].rule = states[mem].rule
      BY <1>1, <2>1
    <2> QED BY <2>0, <2>1, <2>2
  <1> QED BY <1>1, <1>2, <1>5, <1>6, <1>7 DEF RegInv

\* The run e has gone on to a.
LEMMA EndMoved ==
    ASSUME RegTypes, NEW e \in DOMAIN ends,
           NEW a \in {"trigger", "rewrite", "close", "lock", "clean", "done"}, GoEnd(e, a)
    PROVE  /\ ends' \in Seq(End) /\ Len(ends') = Len(ends) /\ DOMAIN ends' = DOMAIN ends
           /\ ends'[e].at = a /\ ends'[e].st = ends[e].st
           /\ \A f \in DOMAIN ends \ {e} : ends'[f] = ends[f]
           /\ Len(ends') <= MaxEnds /\ \A f \in DOMAIN ends' : ends'[f].st \in DOMAIN states
  <1> DEFINE old == ends[e]
             x == [old EXCEPT !.at = a]
  <1>1. ends \in Seq(End) /\ old \in End /\ old = ends[e] /\ ends' = [ends EXCEPT ![e] = x]
    BY DEF RegTypes, GoEnd
  <1> HIDE DEF old
  <1>2. x \in End /\ x.at = a /\ x.st = old.st
    BY <1>1 DEF End
  <1> HIDE DEF x
  <1>3. /\ ends' \in Seq(End) /\ Len(ends') = Len(ends) /\ DOMAIN ends' = DOMAIN ends
        /\ ends'[e] = x /\ \A f \in DOMAIN ends \ {e} : ends'[f] = ends[f]
    BY <1>1, <1>2
  <1>4. ASSUME NEW f \in DOMAIN ends PROVE ends'[f].st \in DOMAIN states
    <2>1. ends'[f].st = ends[f].st
      BY <1>1, <1>2, <1>3
    <2> QED BY <2>1 DEF RegTypes
  <1> QED BY <1>1, <1>2, <1>3, <1>4 DEF RegTypes

\* The goroutine takes ruleLock, gives it back, or leaves it alone.
LEMMA EndHoldersKept ==
    ASSUME RegInv, UNCHANGED pc, NEW e \in DOMAIN ends, DOMAIN ends' = DOMAIN ends,
           ends'[e].st = ends[e].st, \A f \in DOMAIN ends \ {e} : ends'[f] = ends[f],
           NEW s, s = ends[e].st,
           \/ ends[e].at # "clean" /\ ends'[e].at # "clean" /\ states'[s].busy = states[s].busy
           \/ ends[e].at # "clean" /\ ends'[e].at = "clean" /\ ~states[s].busy /\ states'[s].busy
           \/ ends[e].at = "clean" /\ ends'[e].at # "clean" /\ ~states'[s].busy,
           NEW t \in DOMAIN states, t # s => states'[t] = states[t]
    PROVE  HolderInv(t)'
  <1>1. CallHolders(t)' = CallHolders(t) /\ HolderInv(t)
    BY DEF CallHolders, RegInv
  <1>2. CASE t # s
    <2>1. EndHolders(t)' = EndHolders(t) /\ states'[t] = states[t]
      BY <1>2 DEF EndHolders
    <2> QED BY <1>1, <2>1 DEF HolderInv
  <1>3. CASE t = s /\ ends[e].at # "clean" /\ ends'[e].at # "clean"
             /\ states'[s].busy = states[s].busy
    <2>1. EndHolders(t)' = EndHolders(t)
      BY <1>3 DEF EndHolders
    <2> QED BY <1>1, <1>3, <2>1 DEF HolderInv
  <1>4. CASE t = s /\ ends[e].at # "clean" /\ ends'[e].at = "clean"
             /\ ~states[s].busy /\ states'[s].busy
    <2>1. CallHolders(t) = {} /\ EndHolders(t) = {}
      BY <1>1, <1>4 DEF HolderInv
    <2>2. EndHolders(t)' = {e}
      BY <1>4, <2>1 DEF EndHolders
    <2> QED BY <1>1, <1>4, <2>1, <2>2 DEF HolderInv
  <1>5. CASE t = s /\ ends[e].at = "clean" /\ ends'[e].at # "clean" /\ ~states'[s].busy
    <2>1. e \in EndHolders(t)
      BY <1>5 DEF EndHolders
    <2>2. EndHolders(t) = {e} /\ CallHolders(t) = {}
      BY <1>1, <2>1 DEF HolderInv
    <2>3. EndHolders(t)' = {}
      BY <1>5, <2>2 DEF EndHolders
    <2> QED BY <1>1, <1>5, <2>2, <2>3 DEF HolderInv
  <1> QED BY <1>2, <1>3, <1>4, <1>5

LEMMA RunEndsStep ==
    ASSUME RegInv, NEW s \in DOMAIN states, NEW eof \in BOOLEAN, RunEnds(s, eof)
    PROVE  RegInv'
  <1> DEFINE x == [at |-> IF eof THEN "trigger" ELSE "close", st |-> s, tp |-> states[s].tp,
                   eof |-> eof]
  <1>1. /\ RegTypes /\ Len(ends) < MaxEnds /\ ends' = Append(ends, x)
        /\ UNCHANGED <<rlock, mem, db, states, pc, calls, raced, undeleted>>
    BY DEF RunEnds, RegInv
  <1>2. /\ ends \in Seq(End) /\ states[s] \in State /\ Len(ends) \in Nat /\ MaxEnds \in Nat
        /\ s \in Nat /\ DOMAIN ends = 1..Len(ends)
    BY <1>1, BoundsAssumption DEF RegTypes
  <1>3. x \in End /\ x.at # "clean" /\ x.st = s
    BY <1>2 DEF State, End
  <1> HIDE DEF x
  <1>4. /\ ends' \in Seq(End) /\ Len(ends') = Len(ends) + 1 /\ ends'[Len(ends) + 1] = x
        /\ DOMAIN ends' = DOMAIN ends \cup {Len(ends) + 1}
        /\ \A f \in DOMAIN ends : ends'[f] = ends[f]
    BY <1>1, <1>2, <1>3
  <1>5. \A e \in DOMAIN ends' : ends'[e].st \in DOMAIN states
    BY <1>1, <1>3, <1>4 DEF RegTypes
  <1>6. ASSUME NEW t \in DOMAIN states PROVE HolderInv(t)'
    <2>1. EndHolders(t)' = EndHolders(t) /\ CallHolders(t)' = CallHolders(t)
      BY <1>1, <1>3, <1>4 DEF EndHolders, CallHolders
    <2>2. HolderInv(t)
      BY DEF RegInv
    <2> QED BY <1>1, <1>4, <2>1, <2>2 DEF HolderInv
  <1>7. SameVersion
    BY <1>1, SameDefinition
  <1>8. states' \in Seq(State) /\ Len(ends') <= MaxEnds
    BY <1>1, <1>2, <1>4 DEF RegTypes
  <1> QED BY <1>1, <1>4, <1>5, <1>6, <1>7, <1>8, EndInv

LEMMA EndTriggerStep ==
    ASSUME RegInv, RewriteInv, NEW e \in DOMAIN ends, EndTrigger(e) \/ EndWrite(e) \/ EndClose(e)
    PROVE  RegInv'
  <1>1. PICK a \in {"rewrite", "close", "lock", "done"} : GoEnd(e, a)
    BY DEF EndTrigger, EndWrite, EndClose
  <1>2. /\ ends[e].at # "clean" /\ RegTypes /\ UNCHANGED <<rlock, mem, states, pc, calls, raced>>
        /\ undeleted' = undeleted /\ (db' = db \/ StoreTrigger)
    BY DEF EndTrigger, EndWrite, EndClose, RegInv
  <1>3. SameVersion
    BY <1>2, TriggerStored, SameDefinition
  <1>4. /\ ends' \in Seq(End) /\ Len(ends') = Len(ends) /\ DOMAIN ends' = DOMAIN ends
        /\ ends'[e].at = a /\ ends'[e].st = ends[e].st
        /\ \A f \in DOMAIN ends \ {e} : ends'[f] = ends[f]
        /\ Len(ends') <= MaxEnds /\ \A f \in DOMAIN ends' : ends'[f].st \in DOMAIN states
    BY <1>1, <1>2, EndMoved
  <1>5. ASSUME NEW t \in DOMAIN states PROVE HolderInv(t)'
    BY <1>1, <1>2, <1>4, EndHoldersKept
  <1>6. states' \in Seq(State)
    BY <1>2 DEF RegTypes
  <1> QED BY <1>2, <1>3, <1>4, <1>5, <1>6, EndInv

LEMMA EndLockStep ==
    ASSUME RegInv, NEW e \in DOMAIN ends, EndLock(e) \/ CleanRule(e)
    PROVE  RegInv'
  <1> DEFINE s == ends[e].st
             old == states[s]
  <1>1. /\ RegTypes /\ s \in DOMAIN states /\ old \in State /\ old = states[s]
        /\ UNCHANGED <<rlock, mem, db, pc, calls, raced, undeleted>>
    BY DEF EndLock, CleanRule, RegInv, RegTypes
  <1>2. /\ old.rule \in RuleDef /\ old.tp \in Nat /\ old.busy \in BOOLEAN
        /\ old.status \in {"stopped", "running", "failed"}
    BY <1>1 DEF State
  <1>3. PICK a \in {"clean", "done"}, x \in State :
            /\ GoEnd(e, a) /\ states' = [states EXCEPT ![s] = x]
            /\ x.rule = old.rule /\ x.tp \in {old.tp, 0}
            /\ \/ ends[e].at # "clean" /\ a = "clean" /\ ~old.busy /\ x.busy
               \/ ends[e].at = "clean" /\ a # "clean" /\ ~x.busy
    <2>1. CASE EndLock(e)
      <3> DEFINE x == [old EXCEPT !.busy = TRUE]
      <3>1. GoEnd(e, "clean") /\ states' = [states EXCEPT ![s] = x] /\ ends[e].at = "lock"
            /\ ~old.busy
        BY <2>1 DEF EndLock
      <3> HIDE DEF old
      <3>2. x \in State /\ x.rule = old.rule /\ x.tp = old.tp /\ x.busy
        BY <1>1 DEF State
      <3> HIDE DEF x
      <3> QED BY <3>1, <3>2
    <2>2. CASE CleanRule(e)
      <3> DEFINE st == IF ends[e].eof THEN "stopped" ELSE "failed"
                 clean == Stopped(old)
                 x == IF old.tp = ends[e].tp THEN [clean EXCEPT !.status = st]
                                             ELSE WithRule(old, old.rule)
      <3>1. GoEnd(e, "done") /\ states' = [states EXCEPT ![s] = x] /\ ends[e].at = "clean"
        BY <2>2 DEF CleanRule
      <3>2. clean \in State /\ clean.rule = old.rule /\ clean.tp = 0 /\ ~clean.busy
        BY <1>2 DEF Stopped, NewState, State
      <3>3. st \in {"stopped", "failed"}
        OBVIOUS
      <3> HIDE DEF old, clean, st
      <3>4. x \in State /\ x.rule = old.rule /\ x.tp \in {old.tp, 0} /\ ~x.busy
        <4>1. CASE old.tp = ends[e].tp
          BY <3>2, <3>3, <4>1 DEF State
        <4>2. CASE old.tp # ends[e].tp
          BY <1>2, <4>2 DEF WithRule, State
        <4> QED BY <4>1, <4>2
      <3> HIDE DEF x
      <3> QED BY <3>1, <3>4
    <2> QED BY <2>1, <2>2
  <1>4. /\ ends' \in Seq(End) /\ Len(ends') = Len(ends) /\ DOMAIN ends' = DOMAIN ends
        /\ ends'[e].at = a /\ ends'[e].st = ends[e].st
        /\ \A f \in DOMAIN ends \ {e} : ends'[f] = ends[f]
        /\ Len(ends') <= MaxEnds /\ \A f \in DOMAIN ends' : ends'[f].st \in DOMAIN states
    BY <1>1, <1>3, EndMoved
  <1>5. /\ states' \in Seq(State) /\ Len(states') = Len(states) /\ states'[s] = x
        /\ \A t \in DOMAIN states \ {s} : states'[t] = states[t]
    BY <1>1, <1>3, Written
  <1>6. ASSUME NEW t \in DOMAIN states PROVE HolderInv(t)'
    <2>1. t # s => states'[t] = states[t]
      BY <1>5
    <2>2. \/ ends[e].at # "clean" /\ ends'[e].at = "clean" /\ ~states[s].busy /\ states'[s].busy
          \/ ends[e].at = "clean" /\ ends'[e].at # "clean" /\ ~states'[s].busy
      BY <1>1, <1>3, <1>4, <1>5
    <2> HIDE DEF s
    <2>3. s = ends[e].st
      BY DEF s
    <2> QED BY <1>1, <1>4, <2>1, <2>2, <2>3, EndHoldersKept
  <1>7. ASSUME NEW t \in DOMAIN states
        PROVE  states'[t].rule = states[t].rule /\ states'[t].tp \in {states[t].tp, 0}
    BY <1>1, <1>3, <1>5
  <1>8. SameVersion
    BY <1>1, SameDefinition
  <1> QED BY <1>1, <1>4, <1>5, <1>6, <1>7, <1>8, EndInv
-----------------------------------------------------------------------------
(* The theorem                                                             *)

LEMMA StartedIsState ==
    ASSUME NEW s, s.rule \in RuleDef, s.tp \in Nat, NEW tp \in Nat, NEW ok \in BOOLEAN
    PROVE  LET y == Started(s, tp, ok)
           IN  y \in State /\ y.rule = s.rule /\ ~y.busy
  BY DEF Started, State

LEMMA RegInitInv ==
    ASSUME RegInit
    PROVE  RegInv
  <1>1. /\ rlock = None /\ (db = None \/ db \in RuleDef) /\ mem = (IF db = None THEN 0 ELSE 1)
        /\ pc = [c \in Callers |-> IdleCaller] /\ calls = [c \in Callers |-> MaxCalls]
        /\ ends = << >> /\ raced = {} /\ states \in Recovered(db)
    BY DEF RegInit
  <1>2. /\ IdleCaller \in Caller /\ IdleCaller.at = "idle" /\ IdleCaller.op = "stop"
        /\ IdleCaller.st = 0
    <2>1. [ver |-> 0, triggered |-> TRUE, temp |-> FALSE] \in RuleDef
      BY BoundsAssumption DEF RuleDef
    <2> QED BY <2>1 DEF IdleCaller, Caller, Locations, AllMethods
  <1>3. /\ pc \in [Callers -> Caller]
        /\ \A c \in Callers : pc[c].at = "idle" /\ pc[c].op = "stop" /\ pc[c].st = 0
    BY <1>1, <1>2
  <1>4. calls \in [Callers -> 0..MaxCalls]
    BY <1>1, BoundsAssumption
  <1>5. /\ states \in Seq(State) /\ Len(states) \in Nat /\ mem \in 0..Len(states)
        /\ DOMAIN states = 1..Len(states) /\ Len(states) <= 1
        /\ (db # None => Len(states) = 1 /\ states[1].rule = db)
        /\ (Len(states) = 1 => db # None /\ ~states[1].busy)
    <2>1. CASE db = None
      BY <1>1, <2>1 DEF Recovered
    <2>2. CASE db # None
      <3>1. PICK x \in State : states = <<x>> /\ x.rule = db /\ ~x.busy
        <4>1. NewState(db) \in State /\ NewState(db).rule = db /\ ~NewState(db).busy
          BY <1>1, <2>2 DEF NewState, State
        <4>2. ASSUME NEW ok \in BOOLEAN
              PROVE  LET y == Started(NewState(db), 1, ok)
                     IN  y \in State /\ y.rule = db /\ ~y.busy
          <5>1. db \in RuleDef
            BY <1>1, <2>2
          <5>2. NewState(db).rule = db /\ NewState(db).tp = 0
            BY DEF NewState
          <5> QED BY <5>1, <5>2, StartedIsState
        <4>3. CASE db.triggered
          <5>1. PICK ok \in BOOLEAN : states = <<Started(NewState(db), 1, ok)>>
            BY <1>1, <2>2, <4>3 DEF Recovered
          <5> QED BY <4>2, <5>1
        <4>4. CASE ~db.triggered
          <5>1. states = <<NewState(db)>>
            BY <1>1, <2>2, <4>4 DEF Recovered
          <5> QED BY <4>1, <5>1
        <4> QED BY <4>3, <4>4
      <3> QED BY <1>1, <2>2, <3>1
    <2> QED BY <2>1, <2>2
  <1>6. RegTypes
    <2>1. ends \in Seq(End) /\ Len(ends) <= MaxEnds /\ DOMAIN ends = {}
      BY <1>1, BoundsAssumption
    <2> QED BY <1>1, <1>3, <1>4, <1>5, <2>1 DEF RegTypes
  <1>7. ASSUME NEW c \in Callers
        PROVE  CallInv(c) /\ StarterInv(c) /\ OwnerInv(c) /\ StoreInv(c)
    BY <1>1, <1>3, CallersAssumption
       DEF CallInv, OpsAt, AllMethods, WithState, StarterInv, OwnerInv, StoreInv
  <1>8. ASSUME NEW s \in DOMAIN states PROVE HolderInv(s)
    <2>1. CallHolders(s) = {} /\ EndHolders(s) = {}
      BY <1>1, <1>3 DEF CallHolders, EndHolders
    <2>2. ~states[s].busy
      BY <1>5
    <2> QED BY <2>1, <2>2 DEF HolderInv
  <1>9. TpInv
    BY <1>1, <1>5 DEF TpInv
  <1>10. StoredInv
    <2> SUFFICES ASSUME db # None
                 PROVE  mem # 0 /\ db.ver <= states[mem].rule.ver
      BY DEF StoredInv
    <2>1. mem = 1 /\ states[mem].rule = db /\ db \in RuleDef
      BY <1>1, <1>5
    <2>2. db.ver \in Nat
      BY <2>1, BoundsAssumption DEF RuleDef
    <2> QED BY <2>1, <2>2
  <1> QED BY <1>6, <1>7, <1>8, <1>9, <1>10 DEF RegInv

LEMMA RegNextInv ==
    ASSUME RegInv, RewriteInv, RegNext \/ UNCHANGED regVars
    PROVE  RegInv'
  <1>1. ASSUME NEW c \in Callers, CallerStep(c) PROVE RegInv'
    BY <1>1, LoadForCreateStep, LoadStep, SetTriggerStep, WriteTriggerStep, SignalStopStep,
       LockRuleStep, ValidateAndRunStep, StopStateStep, DeleteStateStep, StartStep, SaveStep,
       LockRegistryStep, CompareStep, PersistStep, RemoveStep, GetRuleStep, PutRuleStep,
       CheckImportStep, StoreImportStep, InspectStep, RegisterStep DEF CallerStep
  <1>2. ASSUME NEW e \in DOMAIN ends, EndStep(e) PROVE RegInv'
    BY <1>2, EndTriggerStep, EndLockStep DEF EndStep
  <1>3. CASE UNCHANGED regVars
    <2>1. /\ UNCHANGED <<rlock, mem, pc, calls, raced>> /\ UNCHANGED states /\ UNCHANGED ends
          /\ UNCHANGED <<db, undeleted>>
      BY <1>3 DEF regVars
    <2>2. /\ states' \in Seq(State) /\ Len(states') = Len(states) /\ ends' \in Seq(End)
          /\ Len(ends') <= MaxEnds /\ \A e \in DOMAIN ends' : ends'[e].st \in DOMAIN states
      BY <2>1 DEF RegInv, RegTypes
    <2>3. ASSUME NEW s \in DOMAIN states PROVE HolderInv(s)'
      BY <2>1 DEF RegInv, HolderInv, CallHolders, EndHolders
    <2>4. SameVersion
      BY <2>1, SameDefinition
    <2> QED BY <2>1, <2>2, <2>3, <2>4, EndInv
  <1> QED BY <1>1, <1>2, <1>3, RequestStep, RunEndsStep DEF RegNext

\* What the run checks of a state follows.
LEMMA RegInvImplies ==
    ASSUME RegInv, RewriteInv
    PROVE  RegTypeOK /\ StoredIsRegistered /\ RunsOnlyRegistered
  <1>1. ASSUME NEW s \in DOMAIN states
        PROVE  Cardinality(Holders(s)) = IF states[s].busy THEN 1 ELSE 0
    <2>1. Holders(s) = CallHolders(s) \cup EndHolders(s)
      BY DEF Holders, CallHolders, EndHolders
    <2>2. HolderInv(s)
      BY DEF RegInv
    <2>3. CASE states[s].busy
      <3>1. PICK h : Holders(s) = {h}
        BY <2>1, <2>2, <2>3 DEF HolderInv
      <3> QED BY <2>3, <3>1, FS_Singleton
    <2>4. CASE ~states[s].busy
      BY <2>1, <2>2, <2>4, FS_EmptySet DEF HolderInv
    <2> QED BY <2>3, <2>4
  <1>2. RegTypeOK
    BY <1>1 DEF RegInv, RegTypes, RegTypeOK, RewriteInv
  <1>3. StoredIsRegistered
    BY DEF RegInv, StoredInv, Importing, StoredIsRegistered, Quiet, At
  <1>4. RunsOnlyRegistered
    BY DEF RegInv, TpInv, RunsOnlyRegistered, Quiet, At
  <1> QED BY <1>2, <1>3, <1>4

\* Only the call that takes a step goes on.
LEMMA OthersStay ==
    ASSUME RegInv, NEW c \in Callers, CallerStep(c)
    PROVE  \A d \in Callers \ {c} : pc'[d] = pc[d]
  <1>1. ASSUME NEW at, NEW t, GoWith(c, at, t) PROVE \A d \in Callers \ {c} : pc'[d] = pc[d]
    BY <1>1, CallFields DEF GoWith
  <1>2. ASSUME NEW at, Go(c, at) PROVE \A d \in Callers \ {c} : pc'[d] = pc[d]
    BY <1>1, <1>2 DEF Go
  <1>3. ASSUME NEW x, pc' = [pc EXCEPT ![c] = x] PROVE \A d \in Callers \ {c} : pc'[d] = pc[d]
    BY <1>3, CallFields
  <1>4. CASE LoadForCreate(c) \/ Load(c) \/ SetTrigger(c) \/ WriteTrigger(c) \/ SignalStop(c)
             \/ LockRule(c) \/ ValidateAndRun(c) \/ StopState(c)
    BY <1>1, <1>2, <1>4
       DEF LoadForCreate, Load, SetTrigger, WriteTrigger, SignalStop, LockRule, ValidateAndRun, StopState
  <1>5. CASE DeleteState(c) \/ Start(c) \/ Save(c) \/ LockRegistry(c) \/ Compare(c) \/ Persist(c)
             \/ Remove(c) \/ PutRule(c) \/ CheckImport(c) \/ StoreImport(c) \/ Register(c)
    BY <1>1, <1>2, <1>5
       DEF DeleteState, Start, Save, LockRegistry, Compare, Persist, Remove, PutRule, CheckImport,
           StoreImport, Register
  <1>6. CASE GetRuleById(c) \/ Inspect(c)
    BY <1>2, <1>3, <1>6 DEF GetRuleById, Inspect
  <1> QED BY <1>4, <1>5, <1>6 DEF CallerStep

\* Nobody but an import writes the definition while updateTrigger has the lock.
LEMMA RewriteKept ==
    ASSUME RewriteInv, rewrite' = rewrite, undeleted' \in BOOLEAN,
           rewrite # None => /\ rlock' = None /\ db' # None
                             /\ Importing' \/ (db' = db /\ ~Importing)
    PROVE  RewriteInv'
  BY DEF RewriteInv

LEMMA RewriteNext ==
    ASSUME RegInv, RewriteInv, RegNext \/ UNCHANGED regVars
    PROVE  RewriteInv'
  <1>0. undeleted \in BOOLEAN /\ (rewrite # None => rlock = None /\ db # None)
    BY DEF RewriteInv
  <1>1. ASSUME NEW c \in Callers, CallerStep(c) PROVE RewriteInv'
    <2>1. \A d \in Callers \ {c} : pc'[d] = pc[d]
      BY <1>1, OthersStay
    <2>2. ASSUME ~(pc[c].op = "import" /\ pc[c].at \in {"reload", "register"}), Importing
          PROVE  Importing'
      <3>1. PICK a \in Callers : pc[a].op = "import" /\ pc[a].at \in {"reload", "register"}
        BY <2>2 DEF Importing
      <3>2. pc'[a] = pc[a]
        BY <2>1, <2>2, <3>1
      <3> QED BY <3>1, <3>2 DEF Importing
    <2>3. CASE SetTrigger(c)
      <3>1. /\ rlock = None /\ UNCHANGED <<rlock, db, undeleted>> /\ pc[c].at = "trigger"
            /\ rewrite' = TriggerSet(pc[c].op # "stop")
        BY <2>3 DEF SetTrigger, At, RegFree
      <3>2. (pc[c].op # "stop") \in BOOLEAN
        OBVIOUS
      <3>3. rewrite' # None => db # None /\ rewrite' \in RuleDef /\ rewrite'.ver = db.ver
        BY <3>1, <3>2, TriggerKeeps
      <3> QED BY <1>0, <3>1, <3>3 DEF RewriteInv
    <2>4. CASE WriteTrigger(c)
      BY <1>0, <2>4 DEF WriteTrigger, StoreTrigger, RewriteInv
    <2>5. CASE LoadForCreate(c) \/ Load(c) \/ LockRegistry(c) \/ Inspect(c) \/ Register(c)
      BY <1>0, <2>5 DEF LoadForCreate, Load, LockRegistry, Inspect, Register, RegFree, RewriteInv
    <2>6. CASE Save(c) \/ Remove(c)
      <3>1. rewrite' = None /\ undeleted' \in BOOLEAN
        BY <1>0, <2>6 DEF Save, Remove, RegFree
      <3> QED BY <3>1 DEF RewriteInv
    <2>7. CASE SignalStop(c) \/ LockRule(c) \/ ValidateAndRun(c) \/ StopState(c) \/ DeleteState(c)
               \/ Start(c) \/ PutRule(c) \/ CheckImport(c)
      <3>1. /\ UNCHANGED <<db, rewrite, undeleted>> /\ (rlock = None => rlock' = None)
            /\ pc[c].at \notin {"reload", "register"}
        BY <2>7 DEF SignalStop, LockRule, ValidateAndRun, StopState, DeleteState, Start, PutRule,
                    CheckImport, At
      <3> QED BY <1>0, <2>2, <3>1, RewriteKept
    <2>8. CASE Compare(c) \/ Persist(c)
      <3>1. rlock = c
        BY <2>8 DEF Compare, Persist, At, RegInv, CallInv, OpsAt
      <3>2. rewrite' = None
        BY <1>0, <2>8, <3>1, CallFields DEF Compare, Persist
      <3>3. undeleted' \in BOOLEAN
        BY <1>0, <2>8 DEF Compare, Persist
      <3> QED BY <3>2, <3>3 DEF RewriteInv
    <2>9. CASE GetRuleById(c)
      <3>1. pc[c].at = "reload" /\ UNCHANGED <<rlock, db, rewrite, undeleted>>
        BY <2>9 DEF GetRuleById, At
      <3>2. ASSUME rewrite # None, Importing PROVE Importing'
        <4>1. CASE pc[c].op = "import"
          <5>1. pc' = [pc EXCEPT ![c] = [at |-> "register", op |-> @.op, st |-> @.st, new |-> db]]
            BY <1>0, <2>9, <3>2, <4>1 DEF GetRuleById
          <5>2. "register" \in Locations /\ db \in RuleDef
            BY <1>0, <3>2 DEF Locations, RegInv, RegTypes
          <5>3. pc'[c].at = "register" /\ pc'[c].op = "import"
            BY <4>1, <5>1, <5>2, PutCall
          <5> QED BY <5>3 DEF Importing
        <4> QED BY <2>2, <3>2, <4>1
      <3> QED BY <1>0, <3>1, <3>2, RewriteKept
    <2>10. CASE StoreImport(c)
      <3>1. /\ pc[c].at = "store" /\ rewrite' = rewrite /\ rlock' = rlock
            /\ (Go(c, "reload") /\ db' = pc[c].new /\ undeleted' = FALSE)
               \/ UNCHANGED <<db, undeleted>>
        BY <2>10 DEF StoreImport, At
      <3>2. CASE UNCHANGED <<db, undeleted>>
        BY <1>0, <2>2, <3>1, <3>2, RewriteKept
      <3>3. CASE Go(c, "reload") /\ db' = pc[c].new /\ undeleted' = FALSE
        <4>1. pc[c].op = "import"
          BY <3>1 DEF RegInv, CallInv, OpsAt
        <4>2. "reload" \in Locations
          BY DEF Locations
        <4>3. Moved(c, "reload", pc[c].st)
          BY <3>3, <4>2, GoneWith, CallFields DEF Go, RegInv
        <4>4. Importing'
          BY <4>1, <4>3 DEF Moved, Importing
        <4>5. db' # None
          BY <3>3, CallFields, NoEntryAssumption
        <4> QED BY <1>0, <3>1, <3>3, <4>4, <4>5, RewriteKept
      <3> QED BY <3>1, <3>2, <3>3
    <2> QED BY <1>1, <2>3, <2>4, <2>5, <2>6, <2>7, <2>8, <2>9, <2>10 DEF CallerStep
  <1>2. ASSUME NEW e \in DOMAIN ends, EndStep(e) PROVE RewriteInv'
    <2>1. CASE EndTrigger(e)
      <3>1. /\ rlock = None /\ UNCHANGED <<rlock, db, undeleted>> /\ rewrite' = TriggerSet(FALSE)
        BY <2>1 DEF EndTrigger, RegFree
      <3>2. rewrite' # None => db # None /\ rewrite' \in RuleDef /\ rewrite'.ver = db.ver
        BY <3>1, TriggerKeeps
      <3> QED BY <1>0, <3>1, <3>2 DEF RewriteInv
    <2>2. CASE EndWrite(e)
      BY <1>0, <2>2 DEF EndWrite, StoreTrigger, RewriteInv
    <2>3. CASE EndClose(e) \/ EndLock(e) \/ CleanRule(e)
      <3>1. UNCHANGED <<rlock, db, pc, rewrite, undeleted>>
        BY <2>3 DEF EndClose, EndLock, CleanRule
      <3> QED BY <1>0, <3>1, RewriteKept DEF Importing
    <2> QED BY <1>2, <2>1, <2>2, <2>3 DEF EndStep
  <1>3. ASSUME NEW c \in Callers, NEW op \in Methods, Request(c, op) PROVE RewriteInv'
    <2>1. /\ pc[c].at = "idle" /\ UNCHANGED <<rlock, db, rewrite, undeleted>>
          /\ \A d \in Callers \ {c} : pc'[d] = pc[d]
      BY <1>3, CallFields DEF Request, At
    <2>2. Importing => Importing'
      BY <2>1 DEF Importing
    <2> QED BY <1>0, <2>1, <2>2, RewriteKept
  <1>4. ASSUME NEW s \in DOMAIN states, NEW eof \in BOOLEAN, RunEnds(s, eof) PROVE RewriteInv'
    BY <1>0, <1>4, RewriteKept DEF RunEnds, Importing
  <1>5. CASE UNCHANGED regVars
    BY <1>0, <1>5, RewriteKept DEF regVars, Importing
  <1> QED BY <1>1, <1>2, <1>3, <1>4, <1>5 DEF RegNext

\* A version that falls has been written by an import, beside an entry that a race touched,
\* or over a definition that could not be deleted.
LEMMA VersionStep ==
    ASSUME RegInv, RewriteInv, RegNext, db # None, db' # None, db'.ver < db.ver
    PROVE  mem \in raced \/ undeleted \/ \E c \in Callers : pc[c].op = "import"
  <1>1. db \in RuleDef /\ db' # db
    <2>1. db \in RuleDef
      BY DEF RegInv, RegTypes
    <2>2. db.ver \in Nat
      BY <2>1, BoundsAssumption DEF RuleDef
    <2> QED BY <2>1, <2>2
  <1>2. db.ver \in Nat
    BY <1>1, BoundsAssumption DEF RuleDef
  <1>3. ASSUME StoreTrigger PROVE \E d \in Callers : pc[d].op = "import"
    <2>1. db' = rewrite /\ rewrite # None
      BY <1>1, <1>3 DEF StoreTrigger
    <2>2. rewrite.ver = db.ver \/ Importing
      BY <2>1 DEF RewriteInv
    <2> QED BY <1>2, <2>1, <2>2 DEF Importing
  <1>4. ASSUME NEW e \in DOMAIN ends, EndStep(e) PROVE StoreTrigger
    BY <1>1, <1>4 DEF EndStep, EndTrigger, EndWrite, EndClose, EndLock, CleanRule
  <1>5. ASSUME NEW c \in Callers, CallerStep(c)
        PROVE  mem \in raced \/ undeleted \/ \E d \in Callers : pc[d].op = "import"
    <2>1. CASE WriteTrigger(c)
      BY <1>3, <2>1 DEF WriteTrigger
    <2>2. CASE Save(c)
      BY <1>1, <2>2 DEF Save
    <2>3. CASE Persist(c)
      <3>1. db' = pc[c].new /\ pc[c].at = "persist"
        BY <1>1, <2>3 DEF Persist, At
      <3>2. pc[c].op = "upsert"
        BY <3>1 DEF RegInv, CallInv, OpsAt
      <3>3. mem \in raced \/ Importing \/ undeleted \/ db.ver <= pc[c].new.ver
        BY <3>1, <3>2 DEF RegInv, StoreInv
      <3>4. db'.ver \in Nat
        <4>1. db' \in RuleDef
          BY <3>1, CallFields
        <4> QED BY <4>1, BoundsAssumption DEF RuleDef
      <3> QED BY <1>2, <3>1, <3>3, <3>4 DEF Importing
    <2>4. CASE Remove(c)
      BY <1>1, <2>4 DEF Remove
    <2>5. CASE StoreImport(c)
      BY <2>5 DEF StoreImport, At, RegInv, CallInv, OpsAt
    <2>6. CASE LoadForCreate(c) \/ Load(c) \/ SetTrigger(c) \/ SignalStop(c) \/ LockRule(c)
               \/ ValidateAndRun(c) \/ StopState(c) \/ DeleteState(c) \/ Start(c) \/ LockRegistry(c)
               \/ Compare(c) \/ GetRuleById(c) \/ PutRule(c) \/ CheckImport(c) \/ Inspect(c)
               \/ Register(c)
      BY <1>1, <2>6 DEF LoadForCreate, Load, SetTrigger, SignalStop, LockRule, ValidateAndRun,
         StopState, DeleteState, Start, LockRegistry, Compare, GetRuleById, PutRule, CheckImport,
         Inspect, Register
    <2> QED BY <1>5, <2>1, <2>2, <2>3, <2>4, <2>5, <2>6 DEF CallerStep
  <1>6. ASSUME NEW c \in Callers, NEW op \in Methods, Request(c, op) PROVE FALSE
    BY <1>1, <1>6 DEF Request
  <1>7. ASSUME NEW s \in DOMAIN states, NEW eof \in BOOLEAN, RunEnds(s, eof) PROVE FALSE
    BY <1>1, <1>7 DEF RunEnds
  <1> QED BY <1>3, <1>4, <1>5, <1>6, <1>7 DEF RegNext

\* Database, registry and running rules agree once the calls are over, and the version of a
\* rule does not fall, apart from the known races and from a definition that the store has
\* failed to delete: for any number of handlers, calls, versions and runs that end
\* (rule_manager.go:100-330).
THEOREM RegistryIsSound == RegSpec => RegistrySound
  <1>1. RegInit => RegInv /\ RewriteInv
    BY RegInitInv DEF RegInit, RewriteInv
  <1>2. RegInv /\ RewriteInv /\ [RegNext]_regVars => RegInv' /\ RewriteInv'
    BY RegNextInv, RewriteNext
  <1>3. RegInv /\ RewriteInv => RegTypeOK /\ StoredIsRegistered /\ RunsOnlyRegistered
    BY RegInvImplies
  <1>4. RegInv /\ RewriteInv /\ [RegNext]_regVars =>
            [(db # None /\ db' # None /\ db'.ver < db.ver) =>
                \/ mem \in raced \/ undeleted
                \/ \E c \in Callers : pc[c].op = "import"]_regVars
    BY VersionStep
  <1> QED BY <1>1, <1>2, <1>3, <1>4, PTL DEF RegSpec, RegistrySound, VersionNeverFalls

=============================================================================
