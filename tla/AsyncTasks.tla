----------------------------- MODULE AsyncTasks -----------------------------
(***************************************************************************)
(* Imports that run in the background: AsyncManager of                     *)
(* internal/pkg/async/async.go, as async_rest.go uses it, and InitManager  *)
(* when the server starts (server.go).                                     *)
(*                                                                         *)
(* The status of a task is in the database; what cancels it is in memory   *)
(* and gone after a crash.  To cancel a task without it is a call of nil,  *)
(* which takes the server down when InitManager makes it, and is caught    *)
(* when a REST handler does.                                               *)
(***************************************************************************)
EXTENDS Naturals, FiniteSets

CONSTANTS
    Tasks,        \* generateTaskID's: one for each second
    MaxCrashes    \* bound: crashes of the server other than those of its start

ASSUME TasksAssumption == IsFiniteSet(Tasks) /\ MaxCrashes \in Nat

VARIABLES
    serverUp,   \* InitManager is done
    toCheck,    \* the tasks that InitManager has still to look at
    taskStatus, \* the database: "none" is no entry
    cancels,    \* taskCancel: the tasks that can be cancelled
    ctxDone,    \* the tasks whose context is done
    workers,    \* the goroutine of each task
    crashes

asyncVars == <<serverUp, toCheck, taskStatus, cancels, ctxDone, workers, crashes>>

Statuses == {"none", "register", "running", "finish", "error", "cancel"}

AsyncTypeOK ==
    /\ serverUp \in BOOLEAN
    /\ toCheck \subseteq Tasks
    /\ taskStatus \in [Tasks -> Statuses]
    /\ cancels \subseteq Tasks /\ ctxDone \subseteq Tasks
    \* A task that is worked on can be cancelled.
    /\ \A t \in Tasks : workers[t] # "none" => t \in cancels
    /\ workers \in [Tasks -> {"none", "starts", "imports"}]
    /\ crashes \in 0..MaxCrashes

AsyncInit ==
    /\ serverUp = TRUE /\ toCheck = {}
    /\ taskStatus = [t \in Tasks |-> "none"]
    /\ cancels = {} /\ ctxDone = {}
    /\ workers = [t \in Tasks |-> "none"]
    /\ crashes = 0
-----------------------------------------------------------------------------

\* RegisterTask, and the goroutine of handleDataImportAsyncTask.
RegisterTask(t) ==
    /\ serverUp /\ taskStatus[t] = "none"
    /\ taskStatus' = [taskStatus EXCEPT ![t] = "register"]
    /\ cancels' = cancels \cup {t}
    /\ workers' = [workers EXCEPT ![t] = "starts"]
    /\ UNCHANGED <<serverUp, toCheck, ctxDone, crashes>>

StartTask(t) ==
    /\ workers[t] = "starts"
    /\ taskStatus' = [taskStatus EXCEPT ![t] = "running"]
    /\ workers' = [workers EXCEPT ![t] = "imports"]
    /\ UNCHANGED <<serverUp, toCheck, cancels, ctxDone, crashes>>

\* handleConfigurationImport returns, whether its context is done or not:
\* FinishTask or TaskFailed.
EndTask(t) ==
    /\ workers[t] = "imports"
    /\ \E s \in {"finish", "error"} : taskStatus' = [taskStatus EXCEPT ![t] = s]
    /\ workers' = [workers EXCEPT ![t] = "none"]
    /\ UNCHANGED <<serverUp, toCheck, cancels, ctxDone, crashes>>

\* CancelTask, from REST: of any task there is.
CancelTask(t) ==
    /\ serverUp /\ taskStatus[t] # "none"
    /\ taskStatus' = [taskStatus EXCEPT ![t] = "cancel"]
    /\ ctxDone' = ctxDone \cup ({t} \cap cancels)
    /\ UNCHANGED <<serverUp, toCheck, cancels, workers, crashes>>

\* What is in memory is gone, and the server starts again.
GoDown ==
    /\ serverUp' = FALSE
    /\ toCheck' = Tasks
    /\ cancels' = {} /\ ctxDone' = {}
    /\ workers' = [t \in Tasks |-> "none"]

CrashServer ==
    /\ crashes < MaxCrashes
    /\ crashes' = crashes + 1
    /\ GoDown
    /\ UNCHANGED taskStatus

\* InitManager looks at a task that was not running.
PassTask(t) ==
    /\ t \in toCheck /\ taskStatus[t] # "running"
    /\ toCheck' = toCheck \ {t}
    /\ UNCHANGED <<serverUp, taskStatus, cancels, ctxDone, workers, crashes>>

\* Mutant: nil is called before the status is stored.
CancelLeftoverFirst(t) ==
    /\ t \in toCheck /\ taskStatus[t] = "running"
    /\ GoDown
    /\ UNCHANGED <<taskStatus, crashes>>

\* InitManager cancels a task that was running: it is stored, and nil is called.
CancelLeftover(t) ==
    /\ t \in toCheck /\ taskStatus[t] = "running"
    /\ taskStatus' = [taskStatus EXCEPT ![t] = "cancel"]
    /\ GoDown
    /\ UNCHANGED crashes

EndInit ==
    /\ ~serverUp /\ toCheck = {}
    /\ serverUp' = TRUE
    /\ UNCHANGED <<toCheck, taskStatus, cancels, ctxDone, workers, crashes>>

InitManager == EndInit \/ \E t \in Tasks : PassTask(t) \/ CancelLeftover(t)
Work(t)     == StartTask(t) \/ EndTask(t)

AsyncNext ==
    \/ \E t \in Tasks : RegisterTask(t) \/ Work(t) \/ CancelTask(t)
    \/ CrashServer
    \/ InitManager

AsyncSpec == AsyncInit /\ [][AsyncNext]_asyncVars
-----------------------------------------------------------------------------
(* Properties                                                              *)

\* When the server is up, a task that is said to be running is worked on
\* (async.go:59-71): what a crash cut off is not said to run for ever.
RunningIsWorkedOn ==
    serverUp => \A t \in Tasks : taskStatus[t] = "running" => workers[t] = "imports"

\* An import that goes on while its task is said to be cancelled knows of it
\* (async.go:112-125).
CancelIsHeard ==
    \A t \in Tasks : taskStatus[t] = "cancel" /\ workers[t] # "none" => t \in ctxDone

\* The tasks that take down the start of the server.
Leftovers == {t \in Tasks : taskStatus[t] = "running"}

\* The server comes up in the end (async.go:38-73, 112-125): each start that a
\* leftover task takes down has one of them less to follow it.
FewerEachStart ==
    [][~serverUp /\ toCheck # Tasks /\ toCheck' = Tasks /\ crashes' = crashes
        => Leftovers' \subseteq Leftovers /\ Leftovers' # Leftovers]_asyncVars

\* A task that was registered ends.
\* (The code does not satisfy this: README, section 8.)
EveryTaskEnds ==
    \A t \in Tasks :
        taskStatus[t] = "register" ~> taskStatus[t] \in {"finish", "error", "cancel"}

\* A cancelled task stays so.
\* (The code does not satisfy this: README, section 8.)
CancelIsFinal ==
    [][\A t \in Tasks : taskStatus[t] = "cancel" => taskStatus'[t] = "cancel"]_asyncVars

\* The server does not go down by itself.
\* (The code does not satisfy this: README, section 8.)
StartSucceeds == \A t \in toCheck : taskStatus[t] # "running"

\* What is stored of a task agrees with what works on it, over crashes and cancellations,
\* and each start that a leftover takes down leaves one of them less (async.go:38-125).
TasksSound == [](AsyncTypeOK /\ RunningIsWorkedOn /\ CancelIsHeard) /\ FewerEachStart
=============================================================================
