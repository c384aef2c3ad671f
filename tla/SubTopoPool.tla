----------------------------- MODULE SubTopoPool -----------------------------
(***************************************************************************)
(* Shared streams: internal/topo/subtopo.go and subtopo_pool.go, as the    *)
(* planner (planner_source.go) and Topo (Open, doClose) use them.          *)
(*                                                                         *)
(* The rules that read a shared stream run one SrcSubTopo together, which  *)
(* the pool finds by the name of the stream.  It opens with the first rule *)
(* and is destroyed with the last.  The source of a shared stream may be a *)
(* SrcSubTopo again, that of a shared connection (chained).  Planning,     *)
(* opening and closing of the runs of several rules interleave, and the    *)
(* source may fail at any time.                                            *)
(***************************************************************************)
EXTENDS Naturals, Sequences

CONSTANTS
    SubRules,     \* rules that read the stream
    MaxTopos,     \* bound: topologies planned for each rule
    MaxSubs       \* bound: subtopologies made

ASSUME SubRulesAssumption == SubRules # {} /\ MaxTopos \in Nat /\ MaxSubs \in Nat

Runs  == SubRules \X (1..MaxTopos)      \* <<ruleId, runId>>
Names == {"stream", "conn"}
\* The owner under which a shared stream refers to its connection.
StreamOwner == <<"$$subtopo_stream", 0>>

VARIABLES
    chained,   \* whether the stream reads a shared connection
    subs,      \* every SrcSubTopo made
    pool,      \* subTopoPool: the index in subs for a name, 0 if there is none
    runs       \* every topology

subVars == <<chained, subs, pool, runs>>

SubTopo == [name   : Names,
            opened : {"init", "open", "closed"},
            failed : BOOLEAN,              \* history: it closed by an error
            refs   : SUBSET (Runs \cup {StreamOwner}),
            chans  : SUBSET (Runs \cup {StreamOwner}), \* refs with an errCh
            src    : 0..MaxSubs,           \* the subtopology it reads, if any
            err    : BOOLEAN]              \* an error of src waits in errCh

RunPc == {"new", "conn", "planned", "reject", "open", "closed", "chain",
          "abandon", "done", "deaf", "late"}
SubRun == [pc : RunPc, sub : 0..MaxSubs, conn : 0..MaxSubs, told : BOOLEAN]

SubTypeOK ==
    /\ chained \in BOOLEAN
    /\ subs \in Seq(SubTopo) /\ Len(subs) <= MaxSubs
    /\ pool \in [Names -> 0..Len(subs)]
    /\ runs \in [Runs -> SubRun]
    /\ \A i \in DOMAIN subs : subs[i].chans \subseteq subs[i].refs

New == [pc |-> "new", sub |-> 0, conn |-> 0, told |-> FALSE]

SubInit ==
    /\ chained \in BOOLEAN
    /\ subs = << >>
    /\ pool = [n \in Names |-> 0]
    /\ runs = [x \in Runs |-> New]
-----------------------------------------------------------------------------
(* Operations of a SrcSubTopo                                              *)

\* updateRef: a closed subtopology takes no reference; a reference that is
\* made by a planner has no channel yet, and replaces one that has.
Referred(s, owner, withChan) ==
    IF s.opened = "closed" THEN s
    ELSE [s EXCEPT !.refs = @ \cup {owner},
                   !.chans = IF withChan THEN @ \cup {owner} ELSE @ \ {owner}]

\* GetOrCreateSubTopo and the reference that it takes, under the lock of the
\* pool: the resulting subtopologies; the index is that of Found.
Found(n) == IF pool[n] = 0 THEN Len(subs) + 1 ELSE pool[n]
GetOrCreate(n, owner, src) ==
    LET new == [name |-> n, opened |-> "init", failed |-> FALSE, refs |-> {},
                chans |-> {}, src |-> src, err |-> FALSE]
        all == IF pool[n] = 0 THEN Append(subs, new) ELSE subs
    IN [all EXCEPT ![Found(n)] = Referred(@, owner, FALSE)]

\* Mutant: the reference of the whole rule is removed.
RemoveRuleRef(s, owner) ==
    LET left == {r \in s.refs : r[1] # owner[1]} IN
    [s EXCEPT !.refs = left, !.chans = @ \cap left,
              !.opened = IF left = {} THEN "closed" ELSE @]

\* removeRef: without references the subtopology is closed.  An owner whose
\* rule is not referred to changes nothing.
RemoveRef(s, owner) ==
    IF \A r \in s.refs : r[1] # owner[1] THEN s
    ELSE [s EXCEPT !.refs = @ \ {owner}, !.chans = @ \ {owner},
                   !.opened = IF s.refs = {owner} THEN "closed" ELSE @]

Destroyed(i, owner) == subs[i].refs # {} /\ RemoveRef(subs[i], owner).refs = {}

\* CloseSubTopo up to the end of its locks: the last reference evicts it.
CloseSub(i, owner) ==
    /\ subs' = [subs EXCEPT ![i] = RemoveRef(@, owner)]
    /\ pool' = IF Destroyed(i, owner) THEN [pool EXCEPT ![subs[i].name] = 0]
                                      ELSE pool

\* SrcSubTopo.Open: nothing happens if it is closed.
OpenedBy(all, i, owner) ==
    [all EXCEPT ![i] = IF @.opened = "closed" THEN @
                       ELSE [Referred(@, owner, TRUE) EXCEPT !.opened = "open"]]
-----------------------------------------------------------------------------
(* Planning                                                                *)

\* A topology that has ended forgets what it used.
GoRun(x, at) == runs' = [runs EXCEPT ![x] =
    IF at = "done" THEN [New EXCEPT !.pc = "done"] ELSE [@ EXCEPT !.pc = at]]

CanMake(n) == pool[n] # 0 \/ Len(subs) < MaxSubs

\* splitSource of a chained stream takes the connection in the name of the
\* stream, before it looks for the stream.
PlanConn(x) ==
    /\ runs[x].pc = "new" /\ chained /\ CanMake("conn")
    /\ subs' = GetOrCreate("conn", StreamOwner, 0)
    /\ pool' = [pool EXCEPT !["conn"] = Found("conn")]
    /\ runs' = [runs EXCEPT ![x].pc = "conn", ![x].conn = Found("conn")]
    /\ UNCHANGED chained

\* A node between the connection and the stream cannot be made: the deferred
\* Close gives the connection back in the name of the stream.
PlanFails(x) ==
    /\ runs[x].pc = "conn"
    /\ CloseSub(runs[x].conn, StreamOwner)
    /\ GoRun(x, "done")
    /\ UNCHANGED chained

\* The stream is found or made; one that exists may be in the other mode.
PlanStream(x) ==
    /\ runs[x].pc = IF chained THEN "conn" ELSE "new"
    /\ CanMake("stream")
    /\ subs' = GetOrCreate("stream", x, runs[x].conn)
    /\ pool' = [pool EXCEPT !["stream"] = Found("stream")]
    /\ \E mismatch \in BOOLEAN :
         /\ mismatch => pool["stream"] # 0
         /\ runs' = [runs EXCEPT ![x].pc = IF mismatch THEN "reject" ELSE "planned",
                                ![x].sub = Found("stream")]
    /\ UNCHANGED chained

\* The rule is rejected: it leaves the stream, and the deferred Close gives
\* the connection back.
Reject(x) ==
    /\ runs[x].pc = "reject"
    /\ CloseSub(runs[x].sub, x)
    /\ GoRun(x, IF Destroyed(runs[x].sub, x) /\ chained THEN "chain"
                ELSE IF chained THEN "abandon" ELSE "done")
    /\ UNCHANGED chained

Abandon(x) ==
    /\ runs[x].pc = "abandon"
    /\ CloseSub(runs[x].conn, StreamOwner)
    /\ GoRun(x, "done")
    /\ UNCHANGED chained
-----------------------------------------------------------------------------
(* Running                                                                 *)

\* Topo.Open.  The first rule to open the stream opens its source, in the name
\* of the stream; one that comes when the source has failed hears nothing, not
\* even of the failure.  A topology that was cancelled before runTopo opened it is
\* opened all the same, and nobody is left to close it.
OpenRun(x) ==
    LET i == runs[x].sub
        opened == OpenedBy(subs, i, x) IN
    /\ runs[x].pc \in {"planned", "closed"}
    /\ subs' = IF subs[i].opened = "init" /\ subs[i].src # 0
               THEN OpenedBy(opened, subs[i].src, StreamOwner) ELSE opened
    /\ GoRun(x, IF runs[x].pc = "closed" THEN "late"
                ELSE IF subs[i].opened = "closed" THEN "deaf" ELSE "open")
    /\ UNCHANGED <<chained, pool>>

\* Topo.doClose, of a run or of a topology that was only validated.
CloseRun(x) ==
    LET i == runs[x].sub IN
    /\ runs[x].pc \in {"planned", "open", "deaf"}
    /\ CloseSub(i, x)
    /\ GoRun(x, IF subs[i].src # 0 /\ Destroyed(i, x) THEN "chain"
                ELSE IF runs[x].pc = "planned" THEN "closed" ELSE "done")
    /\ UNCHANGED chained

\* The source of a destroyed stream is closed after the locks are released.
CloseChained(x) ==
    /\ runs[x].pc = "chain"
    /\ CloseSub(subs[runs[x].sub].src, StreamOwner)
    /\ GoRun(x, "done")
    /\ UNCHANGED chained

\* The source fails, or the error of the connection arrives: the subtopology
\* is closed and every owner with a channel is told.
SourceFails(i) ==
    /\ subs[i].opened = "open"
    /\ subs[i].src = 0 \/ subs[i].err
    /\ subs' = [j \in DOMAIN subs |->
           IF j = i THEN [subs[i] EXCEPT !.opened = "closed", !.failed = TRUE]
           ELSE IF subs[j].src = i /\ StreamOwner \in subs[i].chans
                   /\ subs[j].opened = "open"
           THEN [subs[j] EXCEPT !.err = TRUE]
           ELSE subs[j]]
    /\ runs' = [x \in Runs |-> [runs[x] EXCEPT !.told = @ \/ x \in subs[i].chans]]
    /\ UNCHANGED <<chained, pool>>
-----------------------------------------------------------------------------
(* Specification                                                           *)

RunSteps(x) ==
    \/ PlanConn(x) \/ PlanFails(x) \/ PlanStream(x) \/ Reject(x) \/ Abandon(x)
    \/ OpenRun(x) \/ CloseRun(x) \/ CloseChained(x)

SubNext ==
    \/ \E x \in Runs : RunSteps(x)
    \/ \E i \in DOMAIN subs : SourceFails(i)

SubSpec == SubInit /\ [][SubNext]_subVars
-----------------------------------------------------------------------------
(* Properties                                                              *)

\* A subtopology that is not closed is the one in the pool, so that no stream
\* is ever read twice, and one without references is not in the pool: the
\* eviction is atomic and leaves no zombie.
PoolHoldsLive ==
    \A i \in DOMAIN subs :
        /\ subs[i].opened # "closed" => pool[subs[i].name] = i
        /\ subs[i].refs = {} => pool[subs[i].name] # i

\* Whoever has planned or opened a topology on a stream is referred to by it,
\* unless the source had failed, so that no other rule, and no older run of the
\* same rule, can close the stream under it; and nobody else is referred to.
RefsAreUsers ==
    \A x \in Runs, i \in DOMAIN subs : subs[i].name = "stream" =>
        /\ runs[x].pc \in {"planned", "open"} /\ runs[x].sub = i /\ ~subs[i].failed
               => x \in subs[i].refs
        /\ x \in subs[i].refs
               => runs[x].sub = i /\ runs[x].pc \in {"planned", "open", "deaf", "reject", "late"}

\* When the source of a stream fails, every rule that had opened the stream
\* before learns it, whichever rules come and go at the same time.
FailureIsTold ==
    \A x \in Runs : runs[x].pc = "open" /\ subs[runs[x].sub].failed => runs[x].told

\* When all topologies are closed nothing is left of the stream; only one that
\* was opened after it had been closed keeps it alive.
LastOneDestroys ==
    (\A x \in Runs : runs[x].pc \in {"new", "closed", "done"})
        => /\ pool["stream"] = 0
           /\ \A i \in DOMAIN subs : subs[i].name = "stream" => subs[i].opened = "closed"

\* A shared stream is in the pool as long as a rule uses it and runs once; it refers to
\* its users, tells them of a failure, and goes with the last of them
\* (subtopo.go:60-210, subtopo_pool.go:30-160).
SharedStreamSound ==
    /\ SubTypeOK
    /\ PoolHoldsLive /\ RefsAreUsers
    /\ FailureIsTold /\ LastOneDestroys
=============================================================================
