-------------------------- MODULE RuleStateProofs --------------------------
(***************************************************************************)
(* Proofs of the safety properties of RuleState, for any number of         *)
(* callers, rules, calls and reports.                                      *)
(***************************************************************************)
EXTENDS RuleState, SequenceTheorems, TLAPS

(* Facts about sequences that the steps below use.                         *)

\* Replacing one element of a sequence.
LEMMA SeqExcept ==
    ASSUME NEW S, NEW s \in Seq(S), NEW i \in DOMAIN s, NEW e \in S
    PROVE  /\ [s EXCEPT ![i] = e] \in Seq(S)
           /\ DOMAIN [s EXCEPT ![i] = e] = DOMAIN s
           /\ Len([s EXCEPT ![i] = e]) = Len(s)
  BY ExceptSeq

\* Rebuilding every element of a sequence.
LEMMA SeqRebuild ==
    ASSUME NEW S, NEW s \in Seq(S), NEW f \in [DOMAIN s -> S]
    PROVE  f \in Seq(S) /\ Len(f) = Len(s)
  OBVIOUS

\* DrainError respects the capacity of the channel.
LEMMA DrainErrorType ==
    ASSUME NEW drain \in Drains, NEW e \in Outcome
    PROVE  DrainError(drain, e) \in Drains
  BY DEF DrainError, Drains, DrainCap

LEMMA CleanedType ==
    ASSUME NEW tp \in Topo
    PROVE  Cleaned(tp) \in Topo
  <1>1. DrainError(tp.drain, "nil") \in Drains
    BY DrainErrorType DEF Topo, Outcome
  <1> QED BY <1>1 DEF Cleaned, Topo

-----------------------------------------------------------------------------
(* Type correctness                                                        *)

LEMMA TriggeredType ==
    ASSUME NEW a \in ActionSignal, st \in RunState, q \in Seq(ActionSignal)
    PROVE  /\ TriggeredState(st, q, a) \in RunState
           /\ TriggeredQueue(st, q, a) \in Seq(ActionSignal)
  BY DEF TriggeredState, TriggeredQueue, MustAct, Announced, Proceeds, Defers,
         ActionSignal, RunState

LEMMA UnlockType ==
    ASSUME TypeOK, Unlock
    PROVE  /\ cs' \in Cs /\ cs'.tp = 0
           /\ pc' \in [Callers -> [at : CallerPc, op : Methods]]
           /\ runs' \in Seq(Run) /\ Len(runs') = Len(runs)
           /\ \A r \in DOMAIN runs' : runs'[r].tp = runs[r].tp
           /\ \A r \in DOMAIN runs' : runs'[r].tp \in DOMAIN topos
           /\ \A c \in Callers : pc'[c].op = pc[c].op /\ pc'[c].at \in {pc[c].at, "idle"}
           /\ \A c \in Callers : pc'[c].at = "trigger" => pc'[c].op \in ActionSignal
  <1>1. cs' \in Cs /\ cs'.tp = 0
    BY DEF Unlock, FreeCs, Cs, CsPc, AtRest
  <1>2. pc' \in [Callers -> [at : CallerPc, op : Methods]]
    BY DEF Unlock, TypeOK, CallerPc
  <1>3. runs' \in [DOMAIN runs -> Run]
    <2>1. \A r \in DOMAIN runs : runs[r] \in Run
      BY DEF TypeOK
    <2>2. \A r \in DOMAIN runs : [runs[r] EXCEPT !.pc = "done"] \in Run
      BY <2>1 DEF Run, RunPc
    <2> QED BY <2>1, <2>2 DEF Unlock
  <1>4. runs' \in Seq(Run) /\ Len(runs') = Len(runs)
    BY <1>3, SeqRebuild DEF TypeOK
  <1>5. \A r \in DOMAIN runs' : runs'[r].tp = runs[r].tp
    BY DEF Unlock, TypeOK, Run
  <1>6. \A r \in DOMAIN runs' : runs'[r].tp \in DOMAIN topos
    BY <1>5 DEF Unlock, TypeOK
  <1>7. \A c \in Callers : pc'[c].op = pc[c].op /\ pc'[c].at \in {pc[c].at, "idle"}
    <2>1. \A c \in Callers : pc[c] \in [at : CallerPc, op : Methods]
      BY DEF TypeOK
    <2> QED BY <2>1 DEF Unlock
  <1>8. \A c \in Callers : pc'[c].at = "trigger" => pc'[c].op \in ActionSignal
    BY <1>7 DEF TypeOK
  <1> QED BY <1>1, <1>2, <1>4, <1>5, <1>6, <1>7, <1>8

\* A step that changes the record of one run, but not its topology.
LEMMA RunType ==
    ASSUME TypeOK, NEW r \in DOMAIN runs, NEW run \in Run, run.tp = runs[r].tp,
           runs' = [runs EXCEPT ![r] = run]
    PROVE  /\ runs' \in Seq(Run) /\ Len(runs') = Len(runs)
           /\ \A s \in DOMAIN runs' : runs'[s].tp = runs[s].tp
  BY SeqExcept DEF TypeOK

LEMMA GotoRunType ==
    ASSUME TypeOK, NEW r \in DOMAIN runs, NEW at \in RunPc, GotoRun(r, at)
    PROVE  /\ runs' \in Seq(Run) /\ Len(runs') = Len(runs)
           /\ \A s \in DOMAIN runs' : runs'[s].tp = runs[s].tp
  <1>1. runs[r] \in Run
    BY DEF TypeOK
  <1>2. [runs[r] EXCEPT !.pc = at] \in Run
    BY <1>1 DEF Run
  <1> QED BY <1>1, <1>2, SeqExcept DEF TypeOK, GotoRun, Run

LEMMA SpawnRunType ==
    ASSUME TypeOK, NEW tp \in Nat, SpawnRun(tp)
    PROVE  /\ runs' \in Seq(Run)
           /\ DOMAIN runs' = DOMAIN runs \cup {Len(runs) + 1}
           /\ \A s \in DOMAIN runs : runs'[s] = runs[s]
           /\ runs'[Len(runs) + 1] = [tp |-> tp, pc |-> "open", err |-> "nil"]
           /\ \A s \in DOMAIN runs' : runs'[s].tp \in DOMAIN topos \cup {tp}
  <1>1. [tp |-> tp, pc |-> "open", err |-> "nil"] \in Run
    BY DEF Run, RunPc, Outcome
  <1>2. /\ runs' \in Seq(Run)
        /\ DOMAIN runs' = DOMAIN runs \cup {Len(runs) + 1}
        /\ \A s \in DOMAIN runs : runs'[s] = runs[s]
        /\ runs'[Len(runs) + 1] = [tp |-> tp, pc |-> "open", err |-> "nil"]
    BY <1>1 DEF TypeOK, SpawnRun
  <1>3. \A s \in DOMAIN runs' : runs'[s].tp \in DOMAIN topos \cup {tp}
    BY <1>2 DEF TypeOK
  <1> QED BY <1>2, <1>3

\* A step that replaces one topology.
LEMMA TopoType ==
    ASSUME TypeOK, NEW i \in DOMAIN topos, NEW tp \in Topo,
           topos' = [topos EXCEPT ![i] = tp]
    PROVE  topos' \in Seq(Topo) /\ Len(topos') = Len(topos)
  BY SeqExcept DEF TypeOK

LEMMA NewTopoType ==
    ASSUME TypeOK, topos' = Append(topos, NewTopo)
    PROVE  /\ topos' \in Seq(Topo) /\ Len(topos') = Len(topos) + 1
           /\ topos'[Len(topos) + 1] = NewTopo
           /\ \A i \in DOMAIN topos : topos'[i] = topos[i]
  <1>1. NewTopo \in Topo
    BY DEF NewTopo, Topo, Outcome, Drains, DrainCap
  <1> QED BY <1>1 DEF TypeOK

LEMMA TypeInit == Init => TypeOK
  <1> SUFFICES ASSUME Init PROVE TypeOK
    OBVIOUS
  <1>1. FreeCs \in Cs /\ cs = FreeCs /\ cs.tp = 0
    BY DEF Init, FreeCs, Cs, CsPc, AtRest
  <1>2. /\ pc \in [Callers -> [at : CallerPc, op : Methods]]
        /\ \A c \in Callers : pc[c].at = "idle"
    BY DEF Init, CallerPc, Methods, ActionSignal
  <1>3. topos \in Seq(Topo) /\ runs \in Seq(Run) /\ Len(topos) = 0 /\ DOMAIN runs = {}
    BY DEF Init
  <1>4. /\ st \in RunState /\ q \in Seq(ActionSignal) /\ rule \in Rules
        /\ topology = 0
    BY DEF Init, RunState
  <1>6. crashed \in BOOLEAN
    BY DEF Init
  <1>5. calls \in [Callers -> 0..MaxCalls] /\ reports \in 0..MaxReports
    BY BoundsAssumption DEF Init
  <1> QED BY <1>1, <1>2, <1>3, <1>4, <1>5, <1>6 DEF TypeOK

\* What the steps of a caller leave alone or change in a typed way.
LEMMA CallType ==
    ASSUME TypeOK, NEW c \in Callers, NEW op \in Operations, Call(c, op)
    PROVE  TypeOK'
  <1>1. [op |-> op, at |-> IF op \in ActionSignal THEN "trigger" ELSE "lock"]
            \in [at : CallerPc, op : Methods]
    BY OperationsAssumption DEF CallerPc
  <1>2. calls' \in [Callers -> 0..MaxCalls]
    BY BoundsAssumption DEF Call, TypeOK
  <1>3. /\ pc' \in [Callers -> [at : CallerPc, op : Methods]]
        /\ \A d \in Callers : pc'[d].at = "trigger" => pc'[d].op \in ActionSignal
    BY <1>1 DEF Call, TypeOK
  <1> QED BY <1>2, <1>3 DEF Call, TypeOK

\* A step that moves caller c, without sending it back to "trigger".
LEMMA PcType ==
    ASSUME TypeOK, NEW c \in Callers, NEW at \in CallerPc \ {"trigger"},
           pc' = [pc EXCEPT ![c].at = at]
    PROVE  /\ pc' \in [Callers -> [at : CallerPc, op : Methods]]
           /\ \A d \in Callers : pc'[d].at = "trigger" => pc'[d].op \in ActionSignal
           /\ \A d \in Callers : pc'[d].op = pc[d].op
           /\ \A d \in Callers \ {c} : pc'[d] = pc[d]
           /\ pc'[c].at = at
  <1>1. \A d \in Callers : pc[d] \in [at : CallerPc, op : Methods]
    BY DEF TypeOK
  <1>2. /\ [pc[c] EXCEPT !.at = at] \in [at : CallerPc, op : Methods]
        /\ [pc[c] EXCEPT !.at = at].at = at
        /\ [pc[c] EXCEPT !.at = at].op = pc[c].op
    BY <1>1
  <1>3. pc' = [pc EXCEPT ![c] = [pc[c] EXCEPT !.at = at]]
    OBVIOUS
  <1> QED BY <1>1, <1>2, <1>3 DEF TypeOK

\* Moving the holder of ruleLock.
LEMMA GotoCsType ==
    ASSUME cs \in Cs, NEW at \in CsPc, GotoCs(at)
    PROVE  /\ cs' \in Cs
           /\ cs'.pc = at /\ cs'.to = cs.to /\ cs'.then = cs.then /\ cs'.tp = cs.tp
  BY DEF GotoCs, Cs

LEMMA AimType ==
    ASSUME cs \in Cs, NEW at \in CsPc, NEW to \in AtRest \cup {"Running"},
           cs' = [cs EXCEPT !.pc = at, !.to = to]
    PROVE  /\ cs' \in Cs
           /\ cs'.pc = at /\ cs'.to = to /\ cs'.then = cs.then /\ cs'.tp = cs.tp
  BY DEF Cs

LEMMA TransitType ==
    ASSUME cs \in Cs, NEW to \in AtRest \cup {"Running"}, Transit(to)
    PROVE  /\ cs' \in Cs
           /\ cs'.pc = "transit" /\ cs'.to = to /\ cs'.then = cs.then /\ cs'.tp = cs.tp
  BY AimType DEF Transit, CsPc

LEMMA CallerStepType ==
    ASSUME TypeOK, NEW c \in Callers, CallerStep(c)
    PROVE  TypeOK'
  <1> USE DEF Lock, Locked, Return
  <1>c. cs \in Cs /\ pc[c].op \in Methods
    BY DEF TypeOK
  <1>1. CASE TriggerAction(c)
    <2>1. pc[c].op \in ActionSignal
      BY <1>1 DEF TriggerAction, TypeOK
    <2>2. st' \in RunState /\ q' \in Seq(ActionSignal)
      BY <2>1, <1>1, TriggeredType DEF TriggerAction, TypeOK
    <2>3. (IF MustAct(st, q, pc[c].op) THEN "lock" ELSE "idle")
              \in CallerPc \ {"trigger"}
      BY DEF CallerPc
    <2>4. pc' = [pc EXCEPT ![c].at = IF MustAct(st, q, pc[c].op) THEN "lock" ELSE "idle"]
      BY <1>1 DEF TriggerAction
    <2> QED BY <1>1, <2>2, <2>3, <2>4, PcType DEF TriggerAction, TypeOK
  <1>p. ASSUME Return(c) \/ Locked(c)
        PROVE  /\ pc' \in [Callers -> [at : CallerPc, op : Methods]]
               /\ \A d \in Callers : pc'[d].at = "trigger" => pc'[d].op \in ActionSignal
    BY <1>p, PcType DEF CallerPc
  <1>2. CASE LockedStart(c)
    <2>1. UNCHANGED cs \/ Transit("ScheduledStop") \/ GotoCs("start")
      BY <1>2 DEF LockedStart
    <2>2. cs' \in Cs /\ cs'.tp = cs.tp
      BY <2>1, <1>c, TransitType, GotoCsType DEF CsPc, AtRest
    <2> QED BY <1>2, <2>2, <1>p DEF LockedStart, TypeOK
  <1>3. CASE LockedStop(c)
    <2>1. PICK to \in AtRest : cs' = [cs EXCEPT !.pc = "stop", !.to = to]
      BY <1>3 DEF LockedStop, AtRest
    <2>2. cs' \in Cs /\ cs'.tp = cs.tp
      BY <2>1, <1>c, AimType DEF CsPc
    <2> QED BY <1>3, <2>2, <1>p DEF LockedStop, TypeOK
  <1>4. CASE LockedValidateAndRun(c)
    <2>1. CASE Return(c) /\ UNCHANGED <<rule, cs, topos>>
      BY <1>4, <2>1, <1>p DEF LockedValidateAndRun, TypeOK
    <2>2. CASE ~(Return(c) /\ UNCHANGED <<rule, cs, topos>>)
      <3>1. topos' \in Seq(Topo) /\ Len(topos') = Len(topos) + 1
        BY <1>4, <2>2, NewTopoType DEF LockedValidateAndRun
      <3>2. cs' \in Cs /\ cs'.tp = Len(topos) + 1
        BY <1>4, <2>2 DEF LockedValidateAndRun, Cs, CsPc, AtRest, TypeOK
      <3>3. rule' \in Rules
        BY <1>4, <2>2 DEF LockedValidateAndRun, TypeOK
      <3>4. Locked(c) /\ UNCHANGED <<st, q, topology, runs, calls, reports, crashed>>
        BY <1>4, <2>2 DEF LockedValidateAndRun
      <3>5. topology' \in 0..Len(topos') /\ cs'.tp \in 0..Len(topos')
        BY <3>1, <3>2, <3>4 DEF TypeOK
      <3> QED BY <3>1, <3>2, <3>3, <3>4, <3>5, <1>p DEF TypeOK
    <2> QED BY <2>1, <2>2
  <1>5. CASE LockedSetRule(c)
    BY <1>5, <1>p DEF LockedSetRule, TypeOK
  <1>6. CASE LockedDelete(c)
    <2>1. UNCHANGED cs \/ GotoCs("cancel")
      BY <1>6 DEF LockedDelete
    <2>2. cs' \in Cs /\ cs'.tp = cs.tp
      BY <2>1, <1>c, GotoCsType DEF CsPc
    <2> QED BY <1>6, <2>2, <1>p DEF LockedDelete, TypeOK
  <1> QED BY <1>1, <1>2, <1>3, <1>4, <1>5, <1>6 DEF CallerStep

\* A topology in another state, with other operators, cleaned or drained.
LEMMA TopoFieldType ==
    ASSUME TypeOK, NEW i \in DOMAIN topos
    PROVE  /\ \A x \in {"Initialized", "Opened", "Closed"} :
                 [topos[i] EXCEPT !.state = x] \in Topo
           /\ \A x \in {"none", "up", "down"} : [topos[i] EXCEPT !.ops = x] \in Topo
           /\ \A x \in Drains : [topos[i] EXCEPT !.drain = x] \in Topo
           /\ \A x \in {"none", "up", "down"}, y \in Drains :
                 [topos[i] EXCEPT !.ops = x, !.drain = y] \in Topo
           /\ Cleaned(topos[i]) \in Topo
           /\ topos[i].drain \in Drains
  <1>1. topos[i] \in Topo
    BY DEF TypeOK
  <1> HIDE DEF TypeOK
  <1>2. \A x \in {"Initialized", "Opened", "Closed"} : [topos[i] EXCEPT !.state = x] \in Topo
    BY <1>1 DEF Topo
  <1>3. \A x \in {"none", "up", "down"} : [topos[i] EXCEPT !.ops = x] \in Topo
    BY <1>1 DEF Topo
  <1>4. \A x \in Drains : [topos[i] EXCEPT !.drain = x] \in Topo
    BY <1>1 DEF Topo
  <1>5. \A x \in {"none", "up", "down"}, y \in Drains :
          [topos[i] EXCEPT !.ops = x, !.drain = y] \in Topo
    BY <1>1 DEF Topo
  <1>6. Cleaned(topos[i]) \in Topo
    BY <1>1, CleanedType
  <1>7. topos[i].drain \in Drains
    BY <1>1 DEF Topo
  <1> QED BY <1>2, <1>3, <1>4, <1>5, <1>6, <1>7

LEMMA HolderStepType ==
    ASSUME TypeOK, HolderStep, HolderInv
    PROVE  TypeOK'
  <1>c. cs \in Cs
    BY DEF TypeOK
  <1>1. CASE DoStart
    <2>1. cs' \in Cs /\ cs'.tp = cs.tp
      BY <1>1, <1>c, TransitType DEF DoStart, AtRest
    <2>2. CASE Transit("StoppedByErr") /\ UNCHANGED <<topology, topos, runs>>
      BY <1>1, <2>1, <2>2 DEF DoStart, TypeOK, envVars
    <2>3. CASE /\ topos' = Append(topos, NewTopo) /\ topology' = Len(topos) + 1
               /\ SpawnRun(Len(topos) + 1)
      <3>1. Len(topos) + 1 \in Nat
        BY DEF TypeOK
      <3>2. topos' \in Seq(Topo) /\ Len(topos') = Len(topos) + 1
        BY <2>3, NewTopoType
      <3>a. DOMAIN topos' = DOMAIN topos \cup {Len(topos) + 1}
        BY <3>2 DEF TypeOK
      <3>3. runs' \in Seq(Run) /\ \A r \in DOMAIN runs' : runs'[r].tp \in DOMAIN topos'
        BY <2>3, <3>1, <3>a, SpawnRunType
      <3> QED BY <1>1, <2>1, <2>3, <3>1, <3>2, <3>3 DEF DoStart, TypeOK, envVars
    <2>4. CASE topology # 0 /\ SpawnRun(topology) /\ UNCHANGED <<topology, topos>>
      <3>1. topology \in DOMAIN topos
        BY <2>4 DEF TypeOK
      <3>2. runs' \in Seq(Run) /\ \A r \in DOMAIN runs' : runs'[r].tp \in DOMAIN topos'
        <4>1. topology \in Nat
          BY DEF TypeOK
        <4>2. runs' \in Seq(Run) /\ \A r \in DOMAIN runs' : runs'[r].tp \in DOMAIN topos \cup {topology}
          BY <2>4, <4>1, SpawnRunType
        <4> QED BY <2>4, <3>1, <4>2
      <3> QED BY <1>1, <2>1, <2>4, <3>2 DEF DoStart, TypeOK, envVars
    <2> QED BY <1>1, <2>2, <2>3, <2>4 DEF DoStart
  <1>2. CASE DoStop
    <2>0. cs.to \in AtRest \cup {"Running"}
      BY <1>c DEF Cs
    <2>1. cs' \in Cs /\ cs'.tp = cs.tp
      BY <1>2, <1>c, <2>0, TransitType, GotoCsType DEF DoStop, CsPc
    <2>2. CASE UNCHANGED topos
      BY <1>2, <2>1, <2>2 DEF DoStop, TypeOK, envVars
    <2>3. CASE /\ topology # 0 /\ UNCHANGED topology
               /\ topos' = [topos EXCEPT ![topology].state = "Closed"]
      <3>1. topology \in DOMAIN topos
        BY <2>3 DEF TypeOK
      <3>2. topos' \in Seq(Topo) /\ Len(topos') = Len(topos)
        BY <2>3, <3>1, TopoFieldType, TopoType
      <3> QED BY <1>2, <2>1, <2>3, <3>2 DEF DoStop, TypeOK, envVars
    <2> QED BY <1>2, <2>2, <2>3 DEF DoStop
  <1>3. CASE DoClean
    <2>1. cs' \in Cs /\ cs'.tp = cs.tp
      BY <1>3, <1>c, TransitType DEF DoClean, Cs
    <2>2. topology \in DOMAIN topos
      BY <1>3 DEF DoClean, HolderInv, TypeOK
    <2>3. topos' \in Seq(Topo) /\ Len(topos') = Len(topos)
      BY <1>3, <2>2, TopoFieldType, TopoType DEF DoClean
    <2> QED BY <1>3, <2>1, <2>3 DEF DoClean, TypeOK, envVars
  <1>4. CASE DoCancel
    <2>2. topology \in DOMAIN topos
      BY <1>4 DEF DoCancel, HolderInv, TypeOK
    <2>1. topos[topology] \in Topo
      BY <2>2 DEF TypeOK
    <2>3. Cleaned([topos[topology] EXCEPT !.state = "Closed"]) \in Topo
      BY <2>1, <2>2, TopoFieldType, CleanedType
    <2>4. topos' \in Seq(Topo) /\ Len(topos') = Len(topos)
      BY <1>4, <2>2, <2>3, TopoType DEF DoCancel, TypeOK
    <2>5. Unlock
      BY <1>4 DEF DoCancel
    <2>6. DOMAIN topos' = DOMAIN topos
      BY <2>4 DEF TypeOK
    <2> QED BY <1>4, <2>4, <2>5, <2>6, UnlockType DEF DoCancel, TypeOK
  <1>5. CASE DoTransit
    <2>1. cs' \in Cs /\ cs'.tp = cs.tp
      BY <1>5, <1>c, GotoCsType DEF DoTransit, CsPc
    <2>2. st' \in RunState
      BY <1>5, <1>c DEF DoTransit, Cs, AtRest, RunState
    <2> QED BY <1>5, <2>1, <2>2 DEF DoTransit, TypeOK, envVars
  <1>6. CASE NextAction
    <2>0. Head(q) \in ActionSignal /\ q' \in Seq(ActionSignal)
      BY <1>6 DEF NextAction, TypeOK
    <2>1. cs' \in Cs /\ cs'.tp = cs.tp
      <3>1. CASE Head(q) \in {"start", "scheduledStart"}
        BY <1>6, <1>c, <3>1, GotoCsType DEF NextAction, CsPc, GotoCs
      <3>2. CASE Head(q) = "stop"
        BY <1>6, <1>c, <3>2, AimType DEF NextAction, CsPc, AtRest
      <3>3. CASE Head(q) = "scheduledStop"
        BY <1>6, <1>c, <3>3, AimType DEF NextAction, CsPc, AtRest
      <3> QED BY <2>0, <3>1, <3>2, <3>3 DEF ActionSignal
    <2> QED BY <1>6, <2>0, <2>1 DEF NextAction, TypeOK, envVars
  <1>7. CASE NoNextAction
    <2>1. CASE Unlock
      BY <1>7, <2>1, UnlockType DEF NoNextAction, TypeOK
    <2>2. CASE GotoCs("install") /\ UNCHANGED <<pc, runs>>
      <3>1. cs' \in Cs /\ cs'.tp = cs.tp
        BY <2>2, <1>c, GotoCsType DEF CsPc
      <3> QED BY <1>7, <2>2, <3>1 DEF NoNextAction, TypeOK
    <2> QED BY <1>7, <2>1, <2>2 DEF NoNextAction
  <1>8. CASE Install
    <2>1. CASE Unlock /\ UNCHANGED topology
      BY <1>8, <2>1, UnlockType DEF Install, TypeOK
    <2>2. CASE /\ topology' = cs.tp /\ SpawnRun(cs.tp) /\ UNCHANGED pc
               /\ cs' = [cs EXCEPT !.pc = "transit", !.to = "Running",
                                   !.then = "release"]
      <3>1. cs' \in Cs /\ cs'.tp = cs.tp
        BY <2>2, <1>c DEF Cs, CsPc
      <3>2. cs.tp \in DOMAIN topos /\ cs.tp \in Nat
        BY <1>8 DEF Install, HolderInv, TypeOK
      <3>3. runs' \in Seq(Run) /\ \A r \in DOMAIN runs' : runs'[r].tp \in DOMAIN topos
        <4>1. runs' \in Seq(Run) /\ \A r \in DOMAIN runs' : runs'[r].tp \in DOMAIN topos \cup {cs.tp}
          BY <2>2, <3>2, SpawnRunType
        <4> QED BY <3>2, <4>1
      <3> QED BY <1>8, <2>2, <3>1, <3>2, <3>3 DEF Install, TypeOK
    <2> QED BY <1>8, <2>1, <2>2 DEF Install
  <1> QED BY <1>1, <1>2, <1>3, <1>4, <1>5, <1>6, <1>7, <1>8 DEF HolderStep

\* A step of a run leaves the rule and its callers alone, except for cleanRule.
LEMMA RunStepType ==
    ASSUME TypeOK, NEW r \in DOMAIN runs, RunStep(r)
    PROVE  TypeOK'
  <1> DEFINE tp == runs[r].tp
  <1>a. /\ tp \in DOMAIN topos /\ runs[r] \in Run /\ topos[tp] \in Topo
        /\ runs[r].err \in Outcome
    <2>1. tp \in DOMAIN topos /\ runs[r] \in Run
      BY DEF TypeOK
    <2>2. topos[tp] \in Topo
      BY <2>1 DEF TypeOK
    <2> QED BY <2>1, <2>2 DEF Run
  <1>b. ASSUME NEW at \in RunPc, GotoRun(r, at)
        PROVE  runs' \in Seq(Run) /\ \A s \in DOMAIN runs' : runs'[s].tp \in DOMAIN topos
    <2>1. /\ runs' \in Seq(Run) /\ Len(runs') = Len(runs)
          /\ \A s \in DOMAIN runs' : runs'[s].tp = runs[s].tp
      BY <1>b, GotoRunType
    <2>2. DOMAIN runs' = DOMAIN runs
      BY <2>1 DEF TypeOK
    <2> QED BY <2>1, <2>2 DEF TypeOK
  <1>c. ASSUME NEW t \in Topo, topos' = [topos EXCEPT ![tp] = t]
        PROVE  topos' \in Seq(Topo) /\ Len(topos') = Len(topos) /\ DOMAIN topos' = DOMAIN topos
    BY <1>a, <1>c, TopoType DEF TypeOK
  <1> HIDE DEF tp
  <1>1. CASE Open(r)
    <2>1. runs' \in Seq(Run) /\ \A s \in DOMAIN runs' : runs'[s].tp \in DOMAIN topos
      BY <1>1, <1>b DEF Open, RunPc
    <2>2. topos' \in Seq(Topo) /\ Len(topos') = Len(topos) /\ DOMAIN topos' = DOMAIN topos
      <3>1. CASE UNCHANGED topos
        BY <3>1 DEF TypeOK
      <3>2. CASE topos' = [topos EXCEPT ![tp].state = "Opened"]
        <4>1. [topos[tp] EXCEPT !.state = "Opened"] \in Topo
          BY <1>a, TopoFieldType
        <4> QED BY <3>2, <4>1, <1>c
      <3> QED BY <1>1, <3>1, <3>2 DEF Open, tp
    <2> QED BY <1>1, <2>1, <2>2 DEF Open, TypeOK, envVars
  <1>2. CASE Spawn(r)
    <2>1. runs' \in Seq(Run) /\ \A s \in DOMAIN runs' : runs'[s].tp \in DOMAIN topos
      BY <1>2, <1>b DEF Spawn, RunPc
    <2>2. PICK x \in {"up", "down"}, y \in {topos[tp].drain, DrainError(topos[tp].drain, "err")} :
            topos' = [topos EXCEPT ![tp].ops = x, ![tp].drain = y]
      BY <1>2 DEF Spawn, tp
    <2>3. y \in Drains
      BY <1>a, TopoFieldType, DrainErrorType DEF Outcome
    <2>4. [topos[tp] EXCEPT !.ops = x, !.drain = y] \in Topo
      BY <1>a, <2>3, TopoFieldType
    <2>5. topos' = [topos EXCEPT ![tp] = [topos[tp] EXCEPT !.ops = x, !.drain = y]]
      BY <2>2, <1>a DEF TypeOK
    <2>6. topos' \in Seq(Topo) /\ Len(topos') = Len(topos) /\ DOMAIN topos' = DOMAIN topos
      BY <2>4, <2>5, <1>c
    <2> QED BY <1>2, <2>1, <2>6 DEF Spawn, TypeOK, envVars
  <1>3. CASE Receive(r)
    <2>1. topos[tp].drain \in Drains /\ topos[tp].drain # << >>
      BY <1>3, <1>a, TopoFieldType DEF Receive, tp
    <2>2. Tail(topos[tp].drain) \in Drains /\ Head(topos[tp].drain) \in Outcome
      <3> DEFINE d == topos[tp].drain
      <3>1. d \in Seq(Outcome) /\ Len(d) <= DrainCap /\ d # << >>
        BY <2>1 DEF Drains
      <3> HIDE DEF d
      <3>2. Tail(d) \in Seq(Outcome) /\ Len(Tail(d)) = Len(d) - 1 /\ Head(d) \in Outcome
        BY <3>1
      <3>3. Len(Tail(d)) <= DrainCap
        BY <3>1, <3>2 DEF DrainCap
      <3> QED BY <3>2, <3>3 DEF Drains, d
    <2>3. [topos[tp] EXCEPT !.drain = Tail(topos[tp].drain)] \in Topo
      BY <1>a, <2>2, TopoFieldType
    <2>4. topos' \in Seq(Topo) /\ Len(topos') = Len(topos) /\ DOMAIN topos' = DOMAIN topos
      BY <1>3, <2>3, <1>c DEF Receive, tp
    <2> DEFINE run == [runs[r] EXCEPT !.err = Head(topos[tp].drain), !.pc = "check"]
    <2>5. runs' = [runs EXCEPT ![r] = run]
      BY <1>3 DEF Receive, tp
    <2>7. run \in Run
      BY <1>a, <2>2 DEF Run, RunPc
    <2>8. run.tp = runs[r].tp
      BY <1>a DEF Run
    <2> HIDE DEF run
    <2>6. runs' \in Seq(Run) /\ \A s \in DOMAIN runs' : runs'[s].tp \in DOMAIN topos
      <3>1. /\ runs' \in Seq(Run) /\ Len(runs') = Len(runs)
            /\ \A s \in DOMAIN runs' : runs'[s].tp = runs[s].tp
        BY <2>5, <2>7, <2>8, RunType
      <3>2. DOMAIN runs' = DOMAIN runs
        BY <3>1 DEF TypeOK
      <3> QED BY <3>1, <3>2 DEF TypeOK
    <2> QED BY <1>3, <2>4, <2>6 DEF Receive, TypeOK, envVars
  <1>4. CASE CheckClosed(r)
    <2>1. runs' \in Seq(Run) /\ \A s \in DOMAIN runs' : runs'[s].tp \in DOMAIN topos
      BY <1>4, <1>b DEF CheckClosed, RunPc
    <2> QED BY <1>4, <2>1 DEF CheckClosed, TypeOK, envVars
  <1>5. CASE CloseRun(r)
    <2>1. runs' \in Seq(Run) /\ \A s \in DOMAIN runs' : runs'[s].tp \in DOMAIN topos
      BY <1>5, <1>b DEF CloseRun, RunPc
    <2>2. topos' \in Seq(Topo) /\ Len(topos') = Len(topos) /\ DOMAIN topos' = DOMAIN topos
      <3>1. CASE UNCHANGED topos
        BY <3>1 DEF TypeOK
      <3>2. CASE topos' = [topos EXCEPT ![tp].state = "Closed"]
        <4>1. [topos[tp] EXCEPT !.state = "Closed"] \in Topo
          BY <1>a, TopoFieldType
        <4> QED BY <3>2, <4>1, <1>c
      <3> QED BY <1>5, <3>1, <3>2 DEF CloseRun, tp
    <2> QED BY <1>5, <2>1, <2>2 DEF CloseRun, TypeOK, envVars
  <1>6. CASE CleanRun(r)
    <2>1. runs' \in Seq(Run) /\ \A s \in DOMAIN runs' : runs'[s].tp \in DOMAIN topos
      BY <1>6, <1>b DEF CleanRun, RunPc
    <2>2. topos' \in Seq(Topo) /\ Len(topos') = Len(topos) /\ DOMAIN topos' = DOMAIN topos
      BY <1>6, <1>a, <1>c, TopoFieldType DEF CleanRun, tp
    <2> QED BY <1>6, <2>1, <2>2 DEF CleanRun, TypeOK, envVars
  <1>7. CASE CleanRule(r)
    <2>1. runs' \in Seq(Run) /\ \A s \in DOMAIN runs' : runs'[s].tp \in DOMAIN topos
      BY <1>7, <1>b DEF CleanRule, RunPc
    <2>2. cs' \in Cs /\ cs'.tp = cs.tp
      BY <1>7, TransitType DEF CleanRule, TypeOK, AtRest
    <2>3. crashed' \in BOOLEAN
      BY <1>7 DEF CleanRule, TypeOK
    <2>4. topology' \in Nat /\ topology' \in 0..Len(topos)
      BY <1>7 DEF CleanRule, TypeOK
    <2>5. UNCHANGED <<st, q, rule, topos, pc, calls, reports>>
      BY <1>7 DEF CleanRule, envVars
    <2> HIDE DEF Cs, Run, Topo
    <2> QED BY <2>1, <2>2, <2>3, <2>4, <2>5 DEF TypeOK
  <1> QED BY <1>1, <1>2, <1>3, <1>4, <1>5, <1>6, <1>7 DEF RunStep

LEMMA NodeType ==
    ASSUME TypeOK, NEW i \in DOMAIN topos, Report(i) \/ NodesExit(i)
    PROVE  TypeOK'
  <1>1. CASE Report(i)
    <2>1. PICK e \in {"err", "eof"} : topos' = [topos EXCEPT ![i].drain = DrainError(@, e)]
      BY <1>1 DEF Report
    <2>2. [topos[i] EXCEPT !.drain = DrainError(topos[i].drain, e)] \in Topo
      BY TopoFieldType, DrainErrorType DEF Outcome
    <2>3. topos' \in Seq(Topo) /\ Len(topos') = Len(topos) /\ DOMAIN topos' = DOMAIN topos
      BY <2>1, <2>2, TopoType DEF TypeOK
    <2>4. reports' \in 0..MaxReports
      BY <1>1, BoundsAssumption DEF Report, TypeOK
    <2> QED BY <1>1, <2>3, <2>4 DEF Report, TypeOK
  <1>2. CASE NodesExit(i)
    <2>1. topos' \in Seq(Topo) /\ Len(topos') = Len(topos) /\ DOMAIN topos' = DOMAIN topos
      BY <1>2, TopoFieldType, TopoType DEF NodesExit, TypeOK
    <2> QED BY <1>2, <2>1 DEF NodesExit, TypeOK, envVars
  <1> QED BY <1>1, <1>2

\* Every step keeps the types, given what the holder of ruleLock knows.
LEMMA TypeStep ==
    ASSUME TypeOK, HolderInv, [Next]_vars
    PROVE  TypeOK'
  <1>1. CASE UNCHANGED vars
    BY <1>1 DEF vars, TypeOK
  <1> QED
    BY <1>1, CallType, CallerStepType, HolderStepType, RunStepType, NodeType
    DEF Next, Finished
-----------------------------------------------------------------------------
(* The state of the rule                                                   *)

LEMMA StateInit == Init => StateInv
  BY DEF Init, StateInv, OwnedInv, DeferredInv, CallsInv, HolderInv, MatchInv,
         FreeCs, AtRest

\* Steps that do not concern the rule.
LEMMA StateFrame ==
    ASSUME StateInv, UNCHANGED <<st, q, topology, cs, pc>>
    PROVE  StateInv'
  BY DEF StateInv, OwnedInv, DeferredInv, CallsInv, HolderInv, MatchInv, Waiting

\* Unlock does not affect those who wait.
LEMMA UnlockWaiting ==
    ASSUME TypeOK, Unlock
    PROVE  \A c \in Callers : pc[c].at = "lock" => pc'[c] = pc[c]
  BY DEF Unlock, TypeOK

\* Whoever holds ruleLock may release it where nothing is owed.
LEMMA UnlockState ==
    ASSUME TypeOK, StateInv, Unlock, UNCHANGED <<st, q>>,
           cs.pc \in {"pop", "install", "cancel"},
           cs.pc = "pop" => q = << >>,
           \/ cs.pc # "cancel" /\ UNCHANGED topology
           \/ cs.pc = "cancel" /\ topology' = 0
    PROVE  StateInv'
  <1>1. cs' = FreeCs
    BY DEF Unlock
  <1>2. OwnedInv'
    BY <1>1, UnlockWaiting DEF StateInv, OwnedInv, Waiting
  <1>3. CallsInv'
    BY UnlockType DEF StateInv, CallsInv
  <1>4. DeferredInv' /\ HolderInv' /\ MatchInv'
    BY <1>1 DEF StateInv, DeferredInv, HolderInv, MatchInv, FreeCs, AtRest
  <1> QED BY <1>2, <1>3, <1>4 DEF StateInv

LEMMA CallState ==
    ASSUME TypeOK, StateInv, NEW c \in Callers, NEW op \in Operations, Call(c, op)
    PROVE  StateInv'
  <1>1. /\ \A d \in Callers \ {c} : pc'[d] = pc[d]
        /\ pc'[c].op = op /\ pc[c].at = "idle"
        /\ UNCHANGED <<st, q, topology, cs>>
    BY DEF Call, TypeOK
  <1>2. OwnedInv'
    BY <1>1 DEF StateInv, OwnedInv, Waiting
  <1>3. CallsInv'
    BY <1>1 DEF StateInv, CallsInv
  <1>4. DeferredInv' /\ HolderInv' /\ MatchInv'
    BY <1>1 DEF StateInv, DeferredInv, HolderInv, MatchInv
  <1> QED BY <1>2, <1>3, <1>4 DEF StateInv

\* TriggerAction announces a transient state, and then its caller waits for
\* ruleLock; or it defers the signal, and then the state is transient.
LEMMA TriggerState ==
    ASSUME TypeOK, StateInv, NEW c \in Callers, TriggerAction(c)
    PROVE  StateInv'
  <1> DEFINE a == pc[c].op
             at == IF MustAct(st, q, a) THEN "lock" ELSE "idle"
  <1>0. a \in ActionSignal /\ UNCHANGED <<topology, cs>>
    BY DEF TriggerAction, TypeOK
  <1>1. /\ \A d \in Callers : pc'[d].op = pc[d].op
        /\ \A d \in Callers \ {c} : pc'[d] = pc[d]
        /\ pc'[c].at = at /\ pc[c].at = "trigger"
    <2>1. at \in CallerPc \ {"trigger"}
      BY DEF CallerPc
    <2>2. pc' = [pc EXCEPT ![c].at = at] /\ pc[c].at = "trigger"
      BY DEF TriggerAction
    <2> HIDE DEF at
    <2> QED BY <2>1, <2>2, PcType
  <1>2. CASE MustAct(st, q, a)
    <2>1. /\ q = << >> /\ q' = q /\ st \in Proceeds(a) /\ st' = Announced(a)
      <3>1. q = << >> /\ st \in Proceeds(a) /\ st' = Announced(a)
        BY <1>2 DEF TriggerAction, MustAct, TriggeredState
      <3>2. st \notin Defers(a)
        BY <1>0, <3>1 DEF Proceeds, Defers, ActionSignal
      <3> QED BY <3>1, <3>2 DEF TriggerAction, TriggeredQueue
    <2>2. /\ a \in {"start", "scheduledStart"} => st \in AtRest /\ st' = "Starting"
          /\ a \in {"stop", "scheduledStop"} =>
                st \in {"Running", "ScheduledStop"} /\ st' = "Stopping"
      BY <1>0, <2>1 DEF Proceeds, Announced, ActionSignal, AtRest
    <2>3. pc'[c].at = "lock" /\ pc'[c].op = a
      BY <1>1, <1>2
    <2>4. OwnedInv'
      <3>2. CASE a \in {"start", "scheduledStart"}
        BY <2>2, <2>3, <3>2 DEF OwnedInv, Waiting
      <3>3. CASE a \in {"stop", "scheduledStop"}
        BY <2>2, <2>3, <3>3 DEF OwnedInv, Waiting
      <3> QED BY <1>0, <3>2, <3>3 DEF ActionSignal
    <2>5. DeferredInv'
      BY <2>1 DEF DeferredInv
    <2>6. MatchInv'
      BY <1>0, <2>2 DEF StateInv, MatchInv, AtRest, ActionSignal
    <2>7. HolderInv' /\ CallsInv'
      BY <1>0, <1>1 DEF StateInv, HolderInv, CallsInv
    <2> QED BY <2>4, <2>5, <2>6, <2>7 DEF StateInv
  <1>3. CASE ~MustAct(st, q, a)
    <2>1. st' = st
      BY <1>3 DEF TriggerAction, TriggeredState
    <2>2. q' # << >> => q # << >> \/ st \in {"Starting", "Stopping"}
      BY DEF TriggerAction, TriggeredQueue, Defers
    <2>3. OwnedInv'
      BY <1>0, <1>1, <2>1 DEF StateInv, OwnedInv, Waiting
    <2>4. DeferredInv'
      BY <1>0, <2>1, <2>2 DEF StateInv, DeferredInv
    <2>5. MatchInv' /\ HolderInv'
      BY <1>0, <2>1 DEF StateInv, MatchInv, HolderInv
    <2>6. CallsInv'
      BY <1>1 DEF StateInv, CallsInv
    <2> QED BY <2>3, <2>4, <2>5, <2>6 DEF StateInv
  <1> QED BY <1>2, <1>3

\* A caller that takes ruleLock.
LEMMA LockedState ==
    ASSUME TypeOK, StateInv, NEW c \in Callers, CallerStep(c), ~TriggerAction(c)
    PROVE  StateInv'
  <1>c. /\ cs \in Cs /\ cs.pc = "free" /\ pc[c].at = "lock" /\ UNCHANGED <<st, q, topology>>
        /\ pc[c].op \in Operations
    BY DEF TypeOK, CallerStep, LockedStart, LockedStop, LockedValidateAndRun,
           LockedSetRule, LockedDelete, Lock, LockFree, StateInv, CallsInv
  <1>p. ASSUME Return(c) \/ Locked(c)
        PROVE  /\ \A d \in Callers : pc'[d].op = pc[d].op
               /\ \A d \in Callers \ {c} : pc'[d] = pc[d]
               /\ CallsInv'
    <2>1. PICK at \in {"idle", "locked"} : pc' = [pc EXCEPT ![c].at = at]
      BY <1>p DEF Return, Locked
    <2>2. at \in CallerPc \ {"trigger"}
      BY DEF CallerPc
    <2>3. /\ \A d \in Callers : pc'[d].op = pc[d].op
          /\ \A d \in Callers \ {c} : pc'[d] = pc[d]
      BY <2>1, <2>2, PcType
    <2>4. CallsInv'
      BY <2>3, <1>c DEF StateInv, CallsInv
    <2> QED BY <2>3, <2>4
  <1>1. CASE LockedStart(c)
    <2>1. pc[c].op \in {"start", "scheduledStart"}
      BY <1>1 DEF LockedStart, Lock
    <2>2. CASE st # "Starting" /\ Return(c) /\ UNCHANGED cs
      <3>1. OwnedInv'
        BY <1>c, <1>p, <2>1, <2>2 DEF StateInv, OwnedInv, Waiting
      <3>2. DeferredInv' /\ HolderInv' /\ MatchInv'
        BY <1>c, <2>2 DEF StateInv, DeferredInv, HolderInv, MatchInv
      <3> QED BY <1>p, <2>2, <3>1, <3>2 DEF StateInv
    <2>3. CASE st = "Starting" /\ Locked(c) /\ (Transit("ScheduledStop") \/ GotoCs("start"))
      <3>1. /\ cs'.pc \in {"transit", "start"} /\ cs'.then = cs.then /\ cs'.tp = cs.tp
            /\ cs'.pc = "transit" => cs'.to = "ScheduledStop"
        BY <1>c, <2>3, TransitType, GotoCsType DEF AtRest, CsPc
      <3>2. topology = 0
        BY <1>c, <2>3 DEF StateInv, MatchInv
      <3>3. OwnedInv' /\ DeferredInv' /\ HolderInv' /\ MatchInv'
        BY <1>c, <3>1, <3>2 DEF StateInv, OwnedInv, DeferredInv, HolderInv, MatchInv
      <3> QED BY <1>p, <2>3, <3>3 DEF StateInv
    <2> QED BY <1>1, <2>2, <2>3 DEF LockedStart
  <1>2. CASE LockedStop(c)
    <2>1. PICK to \in AtRest : cs' = [cs EXCEPT !.pc = "stop", !.to = to]
      BY <1>2 DEF LockedStop, AtRest
    <2>2. /\ cs'.pc = "stop" /\ cs'.to \in AtRest /\ cs'.then = cs.then /\ cs'.tp = cs.tp
      BY <1>c, <2>1, AimType DEF CsPc
    <2>3. OwnedInv' /\ DeferredInv' /\ HolderInv' /\ MatchInv'
      BY <1>c, <2>2 DEF StateInv, OwnedInv, DeferredInv, HolderInv, MatchInv
    <2> QED BY <1>2, <1>p, <2>3 DEF LockedStop, StateInv
  <1>3. CASE LockedValidateAndRun(c)
    <2>0. pc[c].op \notin ActionSignal
      BY <1>3 DEF LockedValidateAndRun, Lock, ActionSignal
    <2>1. CASE Return(c) /\ UNCHANGED cs
      <3>1. OwnedInv'
        BY <1>c, <1>p, <2>0, <2>1 DEF StateInv, OwnedInv, Waiting, ActionSignal
      <3>2. DeferredInv' /\ HolderInv' /\ MatchInv'
        BY <1>c, <2>1 DEF StateInv, DeferredInv, HolderInv, MatchInv
      <3> QED BY <1>p, <2>1, <3>1, <3>2 DEF StateInv
    <2>2. CASE /\ Locked(c)
               /\ \E next \in {"install", "discard"} :
                     cs' = [pc |-> IF topology # 0 THEN "stop" ELSE "install",
                            to |-> "Stopped", then |-> next, tp |-> Len(topos) + 1]
      <3>1. /\ cs'.pc = IF topology # 0 THEN "stop" ELSE "install"
            /\ cs'.to = "Stopped" /\ cs'.then # "release" /\ cs'.tp # 0
        BY <2>2 DEF TypeOK
      <3>2. OwnedInv'
        BY <1>c, <1>p, <2>0, <2>2 DEF StateInv, OwnedInv, Waiting, ActionSignal
      <3>3. DeferredInv' /\ HolderInv' /\ MatchInv'
        <4>1. CASE topology # 0 /\ cs'.pc = "stop"
          BY <1>c, <3>1, <4>1 DEF StateInv, DeferredInv, HolderInv, MatchInv, AtRest
        <4>2. CASE topology = 0 /\ cs'.pc = "install"
          BY <1>c, <3>1, <4>2 DEF StateInv, DeferredInv, HolderInv, MatchInv
        <4> QED BY <3>1, <4>1, <4>2
      <3> QED BY <1>p, <2>2, <3>2, <3>3 DEF StateInv
    <2> QED BY <1>3, <2>1, <2>2 DEF LockedValidateAndRun
  <1>4. CASE LockedSetRule(c)
    <2>1. pc[c].op \notin ActionSignal /\ Return(c) /\ UNCHANGED cs
      BY <1>4 DEF LockedSetRule, Lock, ActionSignal
    <2>2. OwnedInv'
      BY <1>c, <1>p, <2>1 DEF StateInv, OwnedInv, Waiting, ActionSignal
    <2>3. DeferredInv' /\ HolderInv' /\ MatchInv'
      BY <1>c, <2>1 DEF StateInv, DeferredInv, HolderInv, MatchInv
    <2> QED BY <1>p, <2>1, <2>2, <2>3 DEF StateInv
  <1>5. CASE LockedDelete(c)
    <2>0. pc[c].op = "delete" /\ pc[c].op \notin ActionSignal
      BY <1>5 DEF LockedDelete, Lock, ActionSignal
    <2>1. (Return(c) /\ UNCHANGED cs) \/ (topology # 0 /\ Locked(c) /\ GotoCs("cancel"))
      BY <1>5 DEF LockedDelete
    <2>2. /\ cs'.pc \in {"free", "cancel"} /\ cs'.to = cs.to /\ cs'.then = cs.then
          /\ cs'.tp = cs.tp /\ (cs'.pc = "cancel" => topology # 0)
      BY <1>c, <2>1, GotoCsType DEF CsPc
    <2>3. OwnedInv'
      BY <1>c, <1>p, <2>0, <2>1 DEF StateInv, OwnedInv, Waiting, ActionSignal
    <2>4. DeferredInv' /\ HolderInv' /\ MatchInv'
      BY <1>c, <2>0, <2>2 DEF StateInv, DeferredInv, HolderInv, MatchInv
    <2> QED BY <1>p, <2>1, <2>3, <2>4 DEF StateInv
  <1> QED BY <1>1, <1>2, <1>3, <1>4, <1>5 DEF CallerStep

\* The holder of ruleLock: every transition ends at rest or running, with or
\* without a topology accordingly.
LEMMA HolderState ==
    ASSUME TypeOK, StateInv, HolderStep
    PROVE  StateInv'
  <1>c. cs \in Cs /\ cs.to \in AtRest \cup {"Running"}
    BY DEF TypeOK, Cs
  <1>f. ASSUME UNCHANGED pc
        PROVE  /\ CallsInv'
               /\ \A c \in Callers : pc'[c] = pc[c]
    BY <1>f DEF StateInv, CallsInv
  <1>t. ASSUME NEW to \in AtRest \cup {"Running"}, Transit(to), UNCHANGED <<st, pc>>,
               to = "Running" <=> topology' # 0
        PROVE  StateInv'
    <2>1. cs'.pc = "transit" /\ cs'.to = to /\ cs'.then = cs.then /\ cs'.tp = cs.tp
      BY <1>c, <1>t, TransitType
    <2>2. OwnedInv' /\ DeferredInv' /\ HolderInv' /\ MatchInv'
      BY <1>t, <2>1 DEF StateInv, OwnedInv, DeferredInv, HolderInv, MatchInv
    <2> QED BY <1>f, <1>t, <2>2 DEF StateInv
  <1>1. CASE DoStart
    <2>1. UNCHANGED <<st, pc>>
      BY <1>1 DEF DoStart, envVars
    <2>2. \/ Transit("StoppedByErr") /\ topology' = 0
          \/ Transit("Running") /\ topology' # 0
      BY <1>1 DEF DoStart, TypeOK
    <2> QED BY <2>1, <2>2, <1>t DEF AtRest
  <1>2. CASE DoStop
    <2>1. UNCHANGED <<st, q, pc>> /\ cs.pc = "stop" /\ cs.to \in AtRest
      BY <1>2 DEF DoStop, envVars, StateInv, HolderInv
    <2>2. CASE topology' = 0 /\ Transit(cs.to)
      BY <2>1, <2>2, <1>t DEF AtRest
    <2>3. CASE GotoCs("clean") /\ UNCHANGED topology /\ topology # 0
      <3>1. cs'.pc = "clean" /\ cs'.to = cs.to /\ cs'.then = cs.then /\ cs'.tp = cs.tp
        BY <1>c, <2>3, GotoCsType DEF CsPc
      <3>2. OwnedInv' /\ DeferredInv' /\ HolderInv' /\ MatchInv'
        BY <2>1, <2>3, <3>1 DEF StateInv, OwnedInv, DeferredInv, HolderInv, MatchInv
      <3> QED BY <1>f, <2>1, <3>2 DEF StateInv
    <2> QED BY <1>2, <2>2, <2>3 DEF DoStop
  <1>3. CASE DoClean
    BY <1>3, <1>t DEF DoClean, envVars, StateInv, HolderInv, AtRest
  <1>4. CASE DoCancel
    BY <1>4, UnlockState DEF DoCancel
  <1>5. CASE DoTransit
    <2>1. cs'.pc = "pop" /\ cs'.to = cs.to /\ cs'.then = cs.then /\ cs'.tp = cs.tp
      BY <1>5, <1>c, GotoCsType DEF DoTransit, CsPc
    <2>2. st' = cs.to /\ cs.pc = "transit" /\ UNCHANGED <<q, topology, pc>>
      BY <1>5 DEF DoTransit, envVars
    <2>3. OwnedInv' /\ DeferredInv' /\ HolderInv' /\ MatchInv'
      BY <1>c, <2>1, <2>2 DEF StateInv, OwnedInv, DeferredInv, HolderInv, MatchInv, AtRest
    <2> QED BY <1>f, <2>2, <2>3 DEF StateInv
  <1>6. CASE NextAction
    <2>0. Head(q) \in ActionSignal /\ UNCHANGED <<st, topology, pc>>
      BY <1>6 DEF NextAction, TypeOK, envVars
    <2>1. /\ cs'.pc \in {"start", "stop"} /\ cs'.then = cs.then /\ cs'.tp = cs.tp
          /\ cs'.pc = "stop" => cs'.to \in AtRest
      <3>1. CASE Head(q) \in {"start", "scheduledStart"}
        BY <1>6, <1>c, <3>1, GotoCsType DEF NextAction, CsPc, GotoCs
      <3>2. CASE Head(q) = "stop"
        BY <1>6, <1>c, <3>2, AimType DEF NextAction, CsPc, AtRest
      <3>3. CASE Head(q) = "scheduledStop"
        BY <1>6, <1>c, <3>3, AimType DEF NextAction, CsPc, AtRest
      <3> QED BY <2>0, <3>1, <3>2, <3>3 DEF ActionSignal
    <2>2. OwnedInv' /\ DeferredInv' /\ HolderInv' /\ MatchInv'
      BY <2>0, <2>1 DEF StateInv, OwnedInv, DeferredInv, HolderInv, MatchInv
    <2> QED BY <1>f, <2>0, <2>2 DEF StateInv
  <1>7. CASE NoNextAction
    <2>1. CASE Unlock
      BY <1>7, <2>1, UnlockState DEF NoNextAction
    <2>2. CASE cs.then # "release" /\ GotoCs("install") /\ UNCHANGED pc
      <3>1. cs'.pc = "install" /\ cs'.to = cs.to /\ cs'.then = cs.then /\ cs'.tp = cs.tp
        BY <2>2, <1>c, GotoCsType DEF CsPc
      <3>2. cs.pc = "pop" /\ q = << >> /\ UNCHANGED <<st, q, topology>>
        BY <1>7 DEF NoNextAction
      <3>3. OwnedInv' /\ DeferredInv' /\ HolderInv' /\ MatchInv'
        BY <2>2, <3>1, <3>2, <1>f DEF StateInv, OwnedInv, DeferredInv, HolderInv, MatchInv, Waiting
      <3> QED BY <1>f, <2>2, <3>3 DEF StateInv
    <2> QED BY <1>7, <2>1, <2>2 DEF NoNextAction
  <1>8. CASE Install
    <2>1. CASE Unlock /\ UNCHANGED topology
      BY <1>8, <2>1, UnlockState DEF Install
    <2>2. CASE /\ topology' = cs.tp /\ UNCHANGED pc
               /\ cs' = [cs EXCEPT !.pc = "transit", !.to = "Running",
                                   !.then = "release"]
      <3>1. cs'.pc = "transit" /\ cs'.to = "Running" /\ cs'.then = "release" /\ cs'.tp = cs.tp
        BY <2>2, <1>c DEF Cs
      <3>2. topology' # 0
        BY <1>8, <2>2 DEF Install, StateInv, HolderInv
      <3>3. OwnedInv' /\ DeferredInv' /\ HolderInv' /\ MatchInv'
        BY <3>1, <3>2 DEF OwnedInv, DeferredInv, HolderInv, MatchInv
      <3> QED BY <1>f, <2>2, <3>3 DEF StateInv
    <2> QED BY <1>8, <2>1, <2>2 DEF Install
  <1> QED BY <1>1, <1>2, <1>3, <1>4, <1>5, <1>6, <1>7, <1>8 DEF HolderStep

\* cleanRule leaves the rule without a topology on its way to rest.
LEMMA CleanRuleState ==
    ASSUME TypeOK, StateInv, NEW r \in DOMAIN runs, CleanRule(r)
    PROVE  StateInv'
  <1>1. CASE UNCHANGED <<topology, cs>>
    BY <1>1, StateFrame DEF CleanRule, envVars
  <1>2. CASE /\ topology' = 0
             /\ Transit(IF runs[r].err = "err" THEN "StoppedByErr" ELSE "Stopped")
    <2>1. /\ cs'.pc = "transit" /\ cs'.to \in AtRest /\ cs'.to # "Running"
          /\ cs'.then = cs.then /\ cs'.tp = cs.tp
      BY <1>2, TransitType DEF AtRest, TypeOK
    <2>2. UNCHANGED <<st, q, pc>> /\ cs.pc = "free"
      BY DEF CleanRule, envVars, LockFree
    <2>3. OwnedInv' /\ DeferredInv' /\ HolderInv' /\ MatchInv'
      BY <1>2, <2>1, <2>2 DEF StateInv, OwnedInv, DeferredInv, HolderInv, MatchInv
    <2>4. CallsInv'
      BY <2>2 DEF StateInv, CallsInv
    <2> QED BY <2>3, <2>4 DEF StateInv
  <1> QED BY <1>1, <1>2 DEF CleanRule

LEMMA StateStep ==
    ASSUME TypeOK, StateInv, [Next]_vars
    PROVE  StateInv'
  <1>1. CASE UNCHANGED vars
    BY <1>1, StateFrame DEF vars
  <1>2. ASSUME NEW r \in DOMAIN runs, RunStep(r) PROVE StateInv'
    BY <1>2, CleanRuleState, StateFrame
    DEF RunStep, Open, Spawn, Receive, CheckClosed, CloseRun, CleanRun, envVars
  <1>3. ASSUME NEW i \in DOMAIN topos, Report(i) \/ NodesExit(i) PROVE StateInv'
    BY <1>3, StateFrame DEF Report, NodesExit, envVars
  <1>4. ASSUME NEW c \in Callers, CallerStep(c) PROVE StateInv'
    BY <1>4, TriggerState, LockedState
  <1> QED BY <1>1, <1>2, <1>3, <1>4, CallState, HolderState DEF Next, Finished
-----------------------------------------------------------------------------
(* The runs of a topology                                                  *)

\* What a step may change without disturbing the runs of any topology: neither
\* the states of the topologies nor where a run is.
LEMMA RunFrame ==
    ASSUME TypeOK, RunInv, UNCHANGED <<topology, runs>>,
           DOMAIN topos' = DOMAIN topos,
           \A i \in DOMAIN topos : /\ topos'[i].state = topos[i].state
                                   /\ topos'[i].done = topos[i].done,
           cs.pc = "clean" <=> cs'.pc = "clean",
           cs'.then \in {cs.then, "release"}, cs'.tp = cs.tp
    PROVE  RunInv'
  <1>t. /\ \A r \in DOMAIN runs : runs[r].tp \in DOMAIN topos
        /\ topology # 0 => topology \in DOMAIN topos
        /\ cs.tp # 0 => cs.tp \in DOMAIN topos
    BY DEF TypeOK
  <1>1. RunsInv'
    BY <1>t DEF RunInv, RunsInv
  <1>2. SupervisedInv'
    BY DEF RunInv, SupervisedInv, Supervises
  <1>3. PlannedInv'
    BY <1>t DEF RunInv, PlannedInv
  <1>4. ClosingInv'
    BY <1>t DEF RunInv, ClosingInv, ClosedOnce
  <1> QED BY <1>1, <1>2, <1>3, <1>4 DEF RunInv

\* A run moves on, and neither the topologies nor ruleLock change hands.
LEMMA RunMoves ==
    ASSUME TypeOK, RunInv, NEW r \in DOMAIN runs, NEW at,
           runs[r].pc \notin {"clean", "lock"}, at \notin {"open", "clean"},
           topos[runs[r].tp].state # "Initialized",
           at = "lock" => topos[runs[r].tp].state = "Closed",
           topos[runs[r].tp].state = "Opened" => at \in {"spawn", "recv", "check", "close"},
           UNCHANGED <<topology, cs>>,
           DOMAIN runs' = DOMAIN runs, runs'[r].pc = at,
           \A s \in DOMAIN runs : runs'[s].tp = runs[s].tp,
           \A s \in DOMAIN runs \ {r} : runs'[s].pc = runs[s].pc,
           DOMAIN topos' = DOMAIN topos,
           \A i \in DOMAIN topos : /\ topos'[i].state = topos[i].state
                                   /\ topos'[i].done = topos[i].done
    PROVE  RunInv'
  <1>t. \A s \in DOMAIN runs : runs[s].tp \in DOMAIN topos
    BY DEF TypeOK
  <1>1. RunsInv'
    BY <1>t DEF RunInv, RunsInv
  <1>2. SupervisedInv'
    <2> SUFFICES ASSUME NEW i \in DOMAIN topos,
                        topos[i].state = "Opened" \/ (topology = i /\ cs.pc # "clean")
                 PROVE  \E s \in DOMAIN runs : Supervises(s, i)'
      BY DEF SupervisedInv
    <2>1. PICK s \in DOMAIN runs : Supervises(s, i)
      BY DEF RunInv, SupervisedInv
    <2>2. Supervises(s, i)'
      BY <2>1 DEF Supervises
    <2> QED BY <2>2
  <1>3. PlannedInv'
    BY DEF RunInv, PlannedInv
  <1>4. ClosingInv'
    BY <1>t DEF RunInv, ClosingInv
  <1> QED BY <1>1, <1>2, <1>3, <1>4 DEF RunInv

\* Unlock ends the runs that held ruleLock; they supervised nothing any more.
LEMMA UnlockRuns ==
    ASSUME TypeOK, RunInv, Unlock, cs.pc # "clean", UNCHANGED <<topology, topos>>
    PROVE  RunInv'
  <1>t. \A s \in DOMAIN runs : runs[s].tp \in DOMAIN topos
    BY DEF TypeOK
  <1>c. cs'.pc = "free" /\ cs'.then = "release"
    BY DEF Unlock, FreeCs
  <1>r. /\ DOMAIN runs' = DOMAIN runs
        /\ \A s \in DOMAIN runs :
              /\ runs'[s].tp = runs[s].tp
              /\ runs[s].pc # "locked" => runs'[s].pc = runs[s].pc
              /\ runs[s].pc = "locked" => runs'[s].pc = "done"
    <2>1. \A s \in DOMAIN runs : runs[s] \in Run
      BY DEF TypeOK
    <2> QED BY <2>1 DEF Unlock, Run
  <1>1. RunsInv'
    BY <1>t, <1>r DEF RunInv, RunsInv
  <1>2. SupervisedInv'
    <2> SUFFICES ASSUME NEW i \in DOMAIN topos, topos[i].state = "Opened" \/ topology = i
                 PROVE  \E s \in DOMAIN runs : Supervises(s, i)'
      BY <1>r DEF SupervisedInv
    <2>1. PICK s \in DOMAIN runs : Supervises(s, i)
      BY DEF RunInv, SupervisedInv
    <2>2. Supervises(s, i)'
      BY <2>1, <1>r DEF Supervises
    <2> QED BY <2>2
  <1>3. PlannedInv'
    BY <1>c DEF PlannedInv
  <1>4. ClosingInv'
    BY <1>t, <1>r, <1>c DEF RunInv, ClosingInv
  <1> QED BY <1>1, <1>2, <1>3, <1>4 DEF RunInv

\* GotoRun moves one run; what the lemmas above ask of runs'.
LEMMA GotoRunMoves ==
    ASSUME TypeOK, NEW r \in DOMAIN runs, NEW at \in RunPc, GotoRun(r, at)
    PROVE  /\ DOMAIN runs' = DOMAIN runs /\ runs'[r].pc = at
           /\ \A s \in DOMAIN runs : runs'[s].tp = runs[s].tp
           /\ \A s \in DOMAIN runs \ {r} : runs'[s].pc = runs[s].pc
  <1>1. \A s \in DOMAIN runs : runs[s] \in Run
    BY DEF TypeOK
  <1> QED BY <1>1 DEF GotoRun, Run

\* A new run starts with Open.
LEMMA SpawnRunMoves ==
    ASSUME TypeOK, NEW tp \in Nat, SpawnRun(tp)
    PROVE  \E n : /\ n \notin DOMAIN runs /\ DOMAIN runs' = DOMAIN runs \cup {n}
                  /\ runs'[n].tp = tp /\ runs'[n].pc = "open"
                  /\ \A s \in DOMAIN runs : runs'[s] = runs[s]
  <1> DEFINE n == Len(runs) + 1
  <1>1. n \notin DOMAIN runs
    BY DEF TypeOK
  <1>2. /\ DOMAIN runs' = DOMAIN runs \cup {n}
        /\ \A s \in DOMAIN runs : runs'[s] = runs[s]
        /\ runs'[n] = [tp |-> tp, pc |-> "open", err |-> "nil"]
    BY SpawnRunType
  <1>3. runs'[n].tp = tp /\ runs'[n].pc = "open"
    BY <1>2
  <1> HIDE DEF n
  <1> QED BY <1>1, <1>2, <1>3

\* The first Open opens the topology, and its run goes on to start the nodes.
LEMMA OpenRun ==
    ASSUME TypeOK, RunInv, NEW r \in DOMAIN runs, Open(r)
    PROVE  RunInv'
  <1> DEFINE tp == runs[r].tp
  <1>t. /\ \A s \in DOMAIN runs : runs[s].tp \in DOMAIN topos
        /\ runs[r].pc = "open" /\ UNCHANGED <<topology, cs>>
    BY DEF TypeOK, Open
  <1>1. CASE topos[tp].state = "Initialized"
    <2>1. /\ DOMAIN runs' = DOMAIN runs /\ runs'[r].pc = "spawn"
          /\ \A s \in DOMAIN runs : runs'[s].tp = runs[s].tp
          /\ \A s \in DOMAIN runs \ {r} : runs'[s].pc = runs[s].pc
      <3>1. GotoRun(r, "spawn")
        BY <1>1 DEF Open
      <3> QED BY <3>1, GotoRunMoves DEF RunPc
    <2>2. /\ DOMAIN topos' = DOMAIN topos /\ topos'[tp].state = "Opened"
          /\ topos'[tp].done = topos[tp].done
          /\ \A i \in DOMAIN topos \ {tp} : topos'[i] = topos[i]
      <3>1. \A i \in DOMAIN topos : topos[i] \in Topo
        BY DEF TypeOK
      <3> QED BY <1>1, <1>t, <3>1 DEF Open, Topo
    <2>3. \A s \in DOMAIN runs : runs[s].tp = tp => runs[s].pc = "open"
      BY <1>1 DEF RunInv, RunsInv
    <2>4. ~topos[tp].done
      BY <1>1, <1>t DEF RunInv, ClosingInv
    <2>5. RunsInv'
      BY <1>t, <2>1, <2>2, <2>3 DEF RunInv, RunsInv
    <2>6. SupervisedInv'
      <3> SUFFICES ASSUME NEW i \in DOMAIN topos,
                          topos'[i].state = "Opened" \/ (topology = i /\ cs.pc # "clean")
                   PROVE  \E s \in DOMAIN runs : Supervises(s, i)'
        BY <1>t, <2>1, <2>2 DEF SupervisedInv
      <3>1. CASE i = tp
        <4>1. Supervises(r, i)'
          BY <3>1, <2>1, <2>2 DEF Supervises
        <4> QED BY <4>1
      <3>2. CASE i # tp
        <4>1. PICK s \in DOMAIN runs : Supervises(s, i)
          BY <3>2, <2>2 DEF RunInv, SupervisedInv
        <4>2. s # r
          BY <3>2, <4>1 DEF Supervises
        <4>3. Supervises(s, i)'
          BY <3>2, <4>1, <4>2, <2>1, <2>2 DEF Supervises
        <4> QED BY <4>3
      <3> QED BY <3>1, <3>2
    <2>7. PlannedInv'
      BY <1>t, <2>1, <2>2 DEF RunInv, PlannedInv
    <2>8. ClosingInv'
      <3>1. cs.pc = "clean" => topology # tp
        BY <1>1 DEF RunInv, ClosingInv
      <3> QED BY <1>t, <2>1, <2>2, <2>3, <2>4, <3>1 DEF RunInv, ClosingInv
    <2> QED BY <2>5, <2>6, <2>7, <2>8 DEF RunInv
  <1>2. CASE topos[tp].state # "Initialized"
    <2>1. /\ DOMAIN runs' = DOMAIN runs /\ runs'[r].pc = "recv"
          /\ \A s \in DOMAIN runs : runs'[s].tp = runs[s].tp
          /\ \A s \in DOMAIN runs \ {r} : runs'[s].pc = runs[s].pc
      <3>1. GotoRun(r, "recv")
        BY <1>2 DEF Open
      <3> QED BY <3>1, GotoRunMoves DEF RunPc
    <2>2. UNCHANGED topos
      BY <1>2 DEF Open
    <2> QED BY <1>2, <1>t, <2>1, <2>2, RunMoves
  <1> QED BY <1>1, <1>2

\* Whoever wins the compare-and-swap closes the topology and cleans up; a run
\* that loses it goes straight to cleanRule.
LEMMA CloseRunRun ==
    ASSUME TypeOK, RunInv, NEW r \in DOMAIN runs, CloseRun(r)
    PROVE  RunInv'
  <1> DEFINE tp == runs[r].tp
  <1>t. /\ \A s \in DOMAIN runs : runs[s].tp \in DOMAIN topos
        /\ runs[r].pc = "close" /\ UNCHANGED <<topology, cs>>
    BY DEF TypeOK, CloseRun
  <1>1. CASE topos[tp].state = "Opened"
    <2>1. /\ DOMAIN runs' = DOMAIN runs /\ runs'[r].pc = "clean"
          /\ \A s \in DOMAIN runs : runs'[s].tp = runs[s].tp
          /\ \A s \in DOMAIN runs \ {r} : runs'[s].pc = runs[s].pc
      <3>1. GotoRun(r, "clean")
        BY <1>1 DEF CloseRun
      <3> QED BY <3>1, GotoRunMoves DEF RunPc
    <2>2. /\ DOMAIN topos' = DOMAIN topos /\ topos'[tp].state = "Closed"
          /\ topos'[tp].done = topos[tp].done
          /\ \A i \in DOMAIN topos \ {tp} : topos'[i] = topos[i]
      <3>1. \A i \in DOMAIN topos : topos[i] \in Topo
        BY DEF TypeOK
      <3> QED BY <1>1, <1>t, <3>1 DEF CloseRun, Topo
    <2>3. \A s \in DOMAIN runs : runs[s].tp = tp => runs[s].pc # "clean"
      BY <1>1 DEF RunInv, RunsInv
    <2>4. ~topos[tp].done
      BY <1>1, <1>t DEF RunInv, ClosingInv
    <2>5. RunsInv'
      BY <1>t, <2>1, <2>2, <2>3 DEF RunInv, RunsInv
    <2>6. SupervisedInv'
      <3> SUFFICES ASSUME NEW i \in DOMAIN topos,
                          topos'[i].state = "Opened" \/ (topology = i /\ cs.pc # "clean")
                   PROVE  \E s \in DOMAIN runs : Supervises(s, i)'
        BY <1>t, <2>1, <2>2 DEF SupervisedInv
      <3>1. CASE i = tp
        <4>1. Supervises(r, i)'
          BY <3>1, <2>1, <2>2 DEF Supervises
        <4> QED BY <4>1
      <3>2. CASE i # tp
        <4>1. PICK s \in DOMAIN runs : Supervises(s, i)
          BY <3>2, <2>2 DEF RunInv, SupervisedInv
        <4>2. s # r
          BY <3>2, <4>1 DEF Supervises
        <4>3. Supervises(s, i)'
          BY <3>2, <4>1, <4>2, <2>1, <2>2 DEF Supervises
        <4> QED BY <4>3
      <3> QED BY <3>1, <3>2
    <2>7. PlannedInv'
      BY <1>t, <2>1, <2>2 DEF RunInv, PlannedInv
    <2>8. ClosingInv'
      <3>1. cs.pc = "clean" => topology # tp
        BY <1>1 DEF RunInv, ClosingInv
      <3> QED BY <1>t, <2>1, <2>2, <2>3, <2>4, <3>1 DEF RunInv, ClosingInv
    <2> QED BY <2>5, <2>6, <2>7, <2>8 DEF RunInv
  <1>2. CASE topos[tp].state # "Opened"
    <2>1. /\ DOMAIN runs' = DOMAIN runs /\ runs'[r].pc = "lock"
          /\ \A s \in DOMAIN runs : runs'[s].tp = runs[s].tp
          /\ \A s \in DOMAIN runs \ {r} : runs'[s].pc = runs[s].pc
      <3>1. GotoRun(r, "lock")
        BY <1>2 DEF CloseRun
      <3> QED BY <3>1, GotoRunMoves DEF RunPc
    <2>2. UNCHANGED topos
      BY <1>2 DEF CloseRun
    <2>3. topos[tp].state = "Closed"
      <3>1. topos[tp] \in Topo
        BY <1>t DEF TypeOK
      <3>2. topos[tp].state # "Initialized"
        BY <1>t DEF RunInv, RunsInv
      <3> QED BY <1>2, <3>1, <3>2 DEF Topo
    <2> QED BY <1>t, <2>1, <2>2, <2>3, RunMoves
  <1> QED BY <1>1, <1>2

\* The run that closed the topology is the only one that cleans it up.
LEMMA CleanRunRun ==
    ASSUME TypeOK, RunInv, NEW r \in DOMAIN runs, CleanRun(r)
    PROVE  RunInv'
  <1> DEFINE tp == runs[r].tp
  <1>t. /\ \A s \in DOMAIN runs : runs[s].tp \in DOMAIN topos
        /\ runs[r].pc = "clean" /\ UNCHANGED <<topology, cs>>
    BY DEF TypeOK, CleanRun
  <1>1. /\ DOMAIN runs' = DOMAIN runs /\ runs'[r].pc = "lock"
        /\ \A s \in DOMAIN runs : runs'[s].tp = runs[s].tp
        /\ \A s \in DOMAIN runs \ {r} : runs'[s].pc = runs[s].pc
    BY GotoRunMoves DEF CleanRun, RunPc
  <1>2. /\ DOMAIN topos' = DOMAIN topos /\ topos'[tp].state = topos[tp].state
        /\ \A i \in DOMAIN topos \ {tp} : topos'[i] = topos[i]
    <2>1. topos[tp] \in Topo
      BY <1>t DEF TypeOK
    <2>2. Cleaned(topos[tp]).state = topos[tp].state
      BY <2>1 DEF Cleaned, Topo
    <2> QED BY <1>t, <2>2 DEF CleanRun, TypeOK
  <1>3. topos[tp].state = "Closed"
    BY <1>t DEF RunInv, RunsInv
  <1>4. \A s \in DOMAIN runs : runs[s].tp = tp /\ runs[s].pc = "clean" => s = r
    BY <1>t DEF RunInv, ClosingInv
  <1>5. RunsInv'
    BY <1>t, <1>1, <1>2, <1>3 DEF RunInv, RunsInv
  <1>6. SupervisedInv'
    <2> SUFFICES ASSUME NEW i \in DOMAIN topos,
                        topos'[i].state = "Opened" \/ (topology = i /\ cs.pc # "clean")
                 PROVE  \E s \in DOMAIN runs : Supervises(s, i)'
      BY <1>t, <1>1, <1>2 DEF SupervisedInv
    <2>1. topos'[i].state = topos[i].state
      BY <1>2
    <2>2. PICK s \in DOMAIN runs : Supervises(s, i)
      BY <2>1 DEF RunInv, SupervisedInv
    <2>3. Supervises(s, i)'
      BY <2>1, <2>2, <1>1, <1>t DEF Supervises
    <2> QED BY <2>3
  <1>7. PlannedInv'
    BY <1>t, <1>1, <1>2 DEF RunInv, PlannedInv
  <1>8. ClosingInv'
    <2>1. \A i \in DOMAIN topos : topos'[i].state = topos[i].state
      BY <1>2
    <2> QED BY <1>t, <1>1, <1>2, <1>3, <1>4, <2>1 DEF RunInv, ClosingInv
  <1> QED BY <1>5, <1>6, <1>7, <1>8 DEF RunInv

\* cleanRule: the run that gives up its topology leaves no topology behind; one
\* that finds another topology has nothing to supervise.
LEMMA CleanRuleRun ==
    ASSUME TypeOK, RunInv, NEW r \in DOMAIN runs, CleanRule(r)
    PROVE  RunInv'
  <1> DEFINE tp == runs[r].tp
  <1>t. /\ \A s \in DOMAIN runs : runs[s].tp \in DOMAIN topos
        /\ cs.pc = "free" /\ runs[r].pc = "lock" /\ UNCHANGED topos
        /\ 0 \notin DOMAIN topos
    BY DEF TypeOK, CleanRule, LockFree
  <1>p. PICK at \in {"locked", "done"} : GotoRun(r, at)
    BY DEF CleanRule
  <1>1. /\ DOMAIN runs' = DOMAIN runs /\ runs'[r].pc \in {"locked", "done"}
        /\ \A s \in DOMAIN runs : runs'[s].tp = runs[s].tp
        /\ \A s \in DOMAIN runs \ {r} : runs'[s].pc = runs[s].pc
    BY <1>p, GotoRunMoves DEF RunPc
  <1>2. topology' # tp /\ topology' \in {topology, 0}
    BY <1>t DEF CleanRule
  <1>c. cs'.pc # "clean" /\ cs'.then = cs.then /\ cs'.tp = cs.tp
    <2>1. cs \in Cs
      BY DEF TypeOK
    <2> QED BY <1>t, <2>1, TransitType DEF CleanRule, AtRest
  <1>3. topos[tp].state = "Closed"
    BY <1>t DEF RunInv, RunsInv
  <1>5. RunsInv'
    BY <1>t, <1>1, <1>3 DEF RunInv, RunsInv
  <1>6. SupervisedInv'
    <2> SUFFICES ASSUME NEW i \in DOMAIN topos,
                        topos[i].state = "Opened" \/ topology' = i
                 PROVE  \E s \in DOMAIN runs : Supervises(s, i)'
      BY <1>t, <1>1 DEF SupervisedInv
    <2>1. i # tp /\ (topos[i].state = "Opened" \/ topology = i)
      BY <1>2, <1>3, <1>t
    <2>2. PICK s \in DOMAIN runs : Supervises(s, i)
      BY <2>1, <1>t DEF RunInv, SupervisedInv
    <2>3. s # r
      BY <2>1, <2>2 DEF Supervises
    <2>4. Supervises(s, i)'
      BY <2>2, <2>3, <1>1, <1>t DEF Supervises
    <2> QED BY <2>4
  <1>7. PlannedInv'
    BY <1>t, <1>1, <1>2, <1>c DEF RunInv, PlannedInv
  <1>8. ClosingInv'
    BY <1>t, <1>1, <1>c DEF RunInv, ClosingInv
  <1> QED BY <1>5, <1>6, <1>7, <1>8 DEF RunInv

\* Every step of a run.
LEMMA RunStepRun ==
    ASSUME TypeOK, RunInv, NEW r \in DOMAIN runs, RunStep(r)
    PROVE  RunInv'
  <1> DEFINE tp == runs[r].tp
  <1>t. tp \in DOMAIN topos /\ runs[r] \in Run /\ topos[tp] \in Topo
    <2>1. tp \in DOMAIN topos /\ runs[r] \in Run
      BY DEF TypeOK
    <2> QED BY <2>1 DEF TypeOK
  <1>n. runs[r].pc # "open" => topos[tp].state # "Initialized"
    BY DEF RunInv, RunsInv
  <1>1. CASE Spawn(r)
    <2>1. /\ runs[r].pc = "spawn" /\ UNCHANGED <<topology, cs>> /\ GotoRun(r, "recv")
      BY <1>1 DEF Spawn
    <2>2. /\ DOMAIN topos' = DOMAIN topos
          /\ \A i \in DOMAIN topos : /\ topos'[i].state = topos[i].state
                                     /\ topos'[i].done = topos[i].done
      <3>1. \A i \in DOMAIN topos : topos[i] \in Topo
        BY DEF TypeOK
      <3>2. PICK x \in {"up", "down"}, y \in {topos[tp].drain, DrainError(topos[tp].drain, "err")} :
              topos' = [topos EXCEPT ![tp].ops = x, ![tp].drain = y]
        BY <1>1 DEF Spawn
      <3>3. topos' = [topos EXCEPT ![tp] = [topos[tp] EXCEPT !.ops = x, !.drain = y]]
        BY <1>t, <3>2 DEF TypeOK
      <3>4. /\ [topos[tp] EXCEPT !.ops = x, !.drain = y].state = topos[tp].state
            /\ [topos[tp] EXCEPT !.ops = x, !.drain = y].done = topos[tp].done
        BY <1>t DEF Topo
      <3> QED BY <3>1, <3>3, <3>4
    <2>3. /\ DOMAIN runs' = DOMAIN runs /\ runs'[r].pc = "recv"
          /\ \A s \in DOMAIN runs : runs'[s].tp = runs[s].tp
          /\ \A s \in DOMAIN runs \ {r} : runs'[s].pc = runs[s].pc
      BY <2>1, GotoRunMoves DEF RunPc
    <2> QED BY <1>n, <2>1, <2>2, <2>3, RunMoves
  <1>2. CASE Receive(r)
    <2>1. /\ runs[r].pc = "recv" /\ UNCHANGED <<topology, cs>>
      BY <1>2 DEF Receive
    <2>2. /\ DOMAIN topos' = DOMAIN topos
          /\ \A i \in DOMAIN topos : /\ topos'[i].state = topos[i].state
                                     /\ topos'[i].done = topos[i].done
      <3>1. \A y : /\ [topos[tp] EXCEPT !.drain = y].state = topos[tp].state
                   /\ [topos[tp] EXCEPT !.drain = y].done = topos[tp].done
        BY <1>t DEF Topo
      <3>2. topos' = [topos EXCEPT ![tp] = [topos[tp] EXCEPT !.drain = Tail(topos[tp].drain)]]
        BY <1>2 DEF Receive
      <3> QED BY <3>1, <3>2
    <2>3. /\ DOMAIN runs' = DOMAIN runs /\ runs'[r].pc = "check"
          /\ \A s \in DOMAIN runs : runs'[s].tp = runs[s].tp
          /\ \A s \in DOMAIN runs \ {r} : runs'[s].pc = runs[s].pc
      <3>1. \A s \in DOMAIN runs : runs[s] \in Run
        BY DEF TypeOK
      <3> QED BY <1>2, <3>1 DEF Receive, Run
    <2> QED BY <1>n, <2>1, <2>2, <2>3, RunMoves
  <1>3. CASE CheckClosed(r)
    <2> DEFINE at == IF topos[tp].state = "Closed" THEN "done" ELSE "close"
    <2>1. /\ runs[r].pc = "check" /\ UNCHANGED <<topology, cs, topos>> /\ GotoRun(r, at)
      BY <1>3 DEF CheckClosed
    <2>2. /\ at \in RunPc /\ at \notin {"open", "clean", "lock"}
          /\ topos[tp].state = "Opened" => at = "close"
      BY DEF RunPc
    <2> HIDE DEF at
    <2>3. /\ DOMAIN runs' = DOMAIN runs /\ runs'[r].pc = at
          /\ \A s \in DOMAIN runs : runs'[s].tp = runs[s].tp
          /\ \A s \in DOMAIN runs \ {r} : runs'[s].pc = runs[s].pc
      BY <2>1, <2>2, GotoRunMoves
    <2> QED BY <1>n, <2>1, <2>2, <2>3, RunMoves
  <1> QED BY <1>1, <1>2, <1>3, OpenRun, CloseRunRun, CleanRunRun, CleanRuleRun DEF RunStep

\* Whoever holds ruleLock spawns a run for the topology it makes that of the
\* rule: a new one, or one that the rule already had.
LEMMA SpawnRuns ==
    ASSUME TypeOK, RunInv, NEW tp \in Nat, SpawnRun(tp), topology' = tp,
           tp \in DOMAIN topos', topos'[tp].state = "Initialized" \/ topology = tp,
           tp \notin DOMAIN topos => topos'[tp].state = "Initialized" /\ ~topos'[tp].done,
           DOMAIN topos \subseteq DOMAIN topos', DOMAIN topos' \subseteq DOMAIN topos \cup {tp},
           \A i \in DOMAIN topos : topos'[i] = topos[i],
           cs.pc # "clean", cs'.pc # "clean",
           cs'.then # "release" => cs'.then = cs.then /\ tp # cs.tp, cs'.tp = cs.tp
    PROVE  RunInv'
  <1>t. \A s \in DOMAIN runs : runs[s].tp \in DOMAIN topos
    BY DEF TypeOK
  <1>r. PICK n : /\ n \notin DOMAIN runs /\ DOMAIN runs' = DOMAIN runs \cup {n}
                 /\ runs'[n].tp = tp /\ runs'[n].pc = "open"
                 /\ \A s \in DOMAIN runs : runs'[s] = runs[s]
    BY SpawnRunMoves
  <1>1. RunsInv'
    BY <1>t, <1>r DEF RunInv, RunsInv
  <1>2. SupervisedInv'
    <2> SUFFICES ASSUME NEW i \in DOMAIN topos', topos'[i].state = "Opened" \/ tp = i
                 PROVE  \E s \in DOMAIN runs' : Supervises(s, i)'
      BY DEF SupervisedInv
    <2>1. CASE i = tp /\ topos'[tp].state = "Initialized"
      <3>1. Supervises(n, i)'
        BY <2>1, <1>r DEF Supervises
      <3> QED BY <3>1, <1>r
    <2>2. CASE ~(i = tp /\ topos'[tp].state = "Initialized")
      <3>0. i \in DOMAIN topos
        BY <2>2
      <3>1. topos[i].state = "Opened" \/ topology = i
        BY <2>2, <3>0
      <3>2. PICK s \in DOMAIN runs : Supervises(s, i)
        BY <3>0, <3>1 DEF RunInv, SupervisedInv
      <3>3. Supervises(s, i)'
        BY <3>0, <3>2, <1>r DEF Supervises
      <3> QED BY <3>2, <3>3, <1>r
    <2> QED BY <2>1, <2>2
  <1>3. PlannedInv'
    BY <1>r DEF RunInv, PlannedInv
  <1>4. ClosingInv'
    BY <1>t, <1>r DEF RunInv, ClosingInv
  <1> QED BY <1>1, <1>2, <1>3, <1>4 DEF RunInv

\* doStop, doClean and Cancel: the topology of the rule is closed or forgotten.
LEMMA DoStopRun ==
    ASSUME TypeOK, RunInv, DoStop
    PROVE  RunInv'
  <1>t. /\ \A s \in DOMAIN runs : runs[s].tp \in DOMAIN topos
        /\ topology # 0 => topology \in DOMAIN topos
        /\ 0 \notin DOMAIN topos
        /\ cs.pc = "stop" /\ UNCHANGED runs /\ cs \in Cs
    BY DEF TypeOK, DoStop
  <1>1. CASE topology # 0 /\ topos[topology].state = "Opened"
    <2>1. /\ DOMAIN topos' = DOMAIN topos /\ topos'[topology].state = "Closed"
          /\ topos'[topology].done = topos[topology].done
          /\ \A i \in DOMAIN topos \ {topology} : topos'[i] = topos[i]
      <3>1. \A i \in DOMAIN topos : topos[i] \in Topo
        BY DEF TypeOK
      <3> QED BY <1>1, <1>t, <3>1 DEF DoStop, Topo
    <2>2. /\ topology' = topology /\ cs'.pc = "clean"
          /\ cs'.then = cs.then /\ cs'.tp = cs.tp
      BY <1>1, <1>t, GotoCsType DEF DoStop, CsPc
    <2>3. \A s \in DOMAIN runs : runs[s].tp = topology => runs[s].pc # "clean"
      BY <1>1 DEF RunInv, RunsInv
    <2>4. ~topos[topology].done
      BY <1>1, <1>t DEF RunInv, ClosingInv
    <2>5. RunsInv'
      BY <1>t, <2>1 DEF RunInv, RunsInv
    <2>6. SupervisedInv'
      <3> SUFFICES ASSUME NEW i \in DOMAIN topos, topos'[i].state = "Opened"
                   PROVE  \E s \in DOMAIN runs : Supervises(s, i)'
        BY <1>t, <2>1, <2>2 DEF SupervisedInv
      <3>1. i # topology
        BY <2>1
      <3>2. PICK s \in DOMAIN runs : Supervises(s, i)
        BY <2>1, <3>1 DEF RunInv, SupervisedInv
      <3>3. Supervises(s, i)'
        BY <1>t, <2>1, <3>1, <3>2 DEF Supervises
      <3> QED BY <3>3
    <2>7. PlannedInv'
      BY <1>t, <2>1, <2>2 DEF RunInv, PlannedInv
    <2>8. ClosingInv'
      BY <1>1, <1>t, <2>1, <2>2, <2>3, <2>4 DEF RunInv, ClosingInv
    <2> QED BY <2>5, <2>6, <2>7, <2>8 DEF RunInv
  <1>2. CASE ~(topology # 0 /\ topos[topology].state = "Opened")
    <2>1. /\ topology' = 0 /\ UNCHANGED topos
          /\ cs'.pc = "transit" /\ cs'.then = cs.then /\ cs'.tp = cs.tp
      <3>1. cs.to \in AtRest \cup {"Running"}
        BY <1>t DEF Cs
      <3> QED BY <1>2, <1>t, <3>1, TransitType DEF DoStop
    <2>2. RunsInv'
      BY <1>t, <2>1 DEF RunInv, RunsInv
    <2>3. SupervisedInv'
      <3> SUFFICES ASSUME NEW i \in DOMAIN topos, topos[i].state = "Opened"
                   PROVE  \E s \in DOMAIN runs : Supervises(s, i)'
        BY <1>t, <2>1 DEF SupervisedInv
      <3>1. PICK s \in DOMAIN runs : Supervises(s, i)
        BY DEF RunInv, SupervisedInv
      <3>2. Supervises(s, i)'
        BY <1>t, <2>1, <3>1 DEF Supervises
      <3> QED BY <3>2
    <2>4. PlannedInv'
      BY <1>t, <2>1 DEF RunInv, PlannedInv
    <2>5. ClosingInv'
      BY <1>t, <2>1 DEF RunInv, ClosingInv
    <2> QED BY <2>2, <2>3, <2>4, <2>5 DEF RunInv
  <1> QED BY <1>1, <1>2

\* The topology of the rule is closed and its context cancelled, by DoClean
\* or DoCancel; runs only finish.
LEMMA ForgetRun ==
    ASSUME TypeOK, RunInv, topology \in DOMAIN topos, topology' = 0,
           DOMAIN topos' = DOMAIN topos,
           \/ topos'[topology] = topos[topology]
           \/ /\ topos'[topology].state = "Closed" /\ topos[topology].state # "Initialized"
              /\ \A s \in DOMAIN runs : runs[s].tp = topology => runs[s].pc # "clean",
           \A i \in DOMAIN topos \ {topology} : topos'[i] = topos[i],
           DOMAIN runs' = DOMAIN runs,
           \A s \in DOMAIN runs :
              /\ runs'[s].tp = runs[s].tp
              /\ runs[s].pc # "locked" => runs'[s].pc = runs[s].pc
              /\ runs[s].pc = "locked" => runs'[s].pc \in {"locked", "done"},
           cs'.pc # "clean", cs'.then \in {cs.then, "release"},
           cs'.then # "release" => cs'.tp = cs.tp
    PROVE  RunInv'
  <1>t. /\ \A s \in DOMAIN runs : runs[s].tp \in DOMAIN topos
        /\ 0 \notin DOMAIN topos
    BY DEF TypeOK
  <1>1. RunsInv'
    <2> SUFFICES ASSUME NEW s \in DOMAIN runs
                 PROVE  LET state == topos'[runs[s].tp].state IN
                        /\ runs'[s].pc # "open" => state # "Initialized"
                        /\ runs'[s].pc \in {"clean", "lock"} => state = "Closed"
      BY DEF RunsInv
    <2>1. /\ runs[s].pc # "open" => topos[runs[s].tp].state # "Initialized"
          /\ runs[s].pc \in {"clean", "lock"} => topos[runs[s].tp].state = "Closed"
      BY DEF RunInv, RunsInv
    <2>2. /\ runs'[s].pc # "open" => runs[s].pc # "open"
          /\ runs'[s].pc \in {"clean", "lock"} => runs[s].pc \in {"clean", "lock"}
      OBVIOUS
    <2>3. CASE runs[s].tp = topology
      BY <2>1, <2>2, <2>3
    <2>4. CASE runs[s].tp # topology
      BY <2>1, <2>2, <2>4, <1>t
    <2> QED BY <2>3, <2>4
  <1>2. SupervisedInv'
    <2> SUFFICES ASSUME NEW i \in DOMAIN topos, topos'[i].state = "Opened"
                 PROVE  \E s \in DOMAIN runs : Supervises(s, i)'
      BY <1>t DEF SupervisedInv
    <2>1. topos[i] = topos'[i]
      OBVIOUS
    <2>2. PICK s \in DOMAIN runs : Supervises(s, i)
      BY <2>1 DEF RunInv, SupervisedInv
    <2>3. Supervises(s, i)'
      BY <2>1, <2>2 DEF Supervises
    <2> QED BY <2>3
  <1>3. PlannedInv'
    BY <1>t DEF RunInv, PlannedInv
  <1>4. ClosingInv'
    BY <1>t DEF RunInv, ClosingInv
  <1> QED BY <1>1, <1>2, <1>3, <1>4 DEF RunInv

\* Every step of the holder of ruleLock.
LEMMA HolderStepRun ==
    ASSUME TypeOK, StateInv, RunInv, HolderStep
    PROVE  RunInv'
  <1>c. cs \in Cs
    BY DEF TypeOK
  <1>t. /\ topology # 0 => topology \in DOMAIN topos
        /\ \A i \in DOMAIN topos : topos[i] \in Topo
        /\ topology \in Nat /\ Len(topos) + 1 \in Nat
        /\ Len(topos) + 1 \notin DOMAIN topos
    BY DEF TypeOK
  <1>1. CASE DoStart
    <2>0. cs.pc = "start"
      BY <1>1 DEF DoStart
    <2>1. cs'.pc = "transit" /\ cs'.then = cs.then /\ cs'.tp = cs.tp
      BY <1>1, <1>c, TransitType DEF DoStart, AtRest
    <2>2. CASE UNCHANGED <<topology, topos, runs>>
      BY <2>0, <2>1, <2>2, RunFrame
    <2>3. CASE /\ topos' = Append(topos, NewTopo) /\ topology' = Len(topos) + 1
               /\ SpawnRun(Len(topos) + 1)
      <3> DEFINE n == Len(topos) + 1
      <3>1. /\ n \in Nat /\ n \notin DOMAIN topos /\ DOMAIN topos' = DOMAIN topos \cup {n}
            /\ topos'[n] = NewTopo /\ \A i \in DOMAIN topos : topos'[i] = topos[i]
        BY <2>3, <1>t, NewTopoType DEF TypeOK
      <3>2. topos'[n].state = "Initialized" /\ ~topos'[n].done
        BY <3>1 DEF NewTopo
      <3>3. topology' = n /\ SpawnRun(n)
        BY <2>3
      <3> HIDE DEF n
      <3>4. cs.then # "release" => n # cs.tp
        BY <3>1 DEF RunInv, PlannedInv
      <3> QED BY <2>0, <2>1, <3>1, <3>2, <3>3, <3>4, SpawnRuns
    <2>4. CASE topology # 0 /\ SpawnRun(topology) /\ UNCHANGED <<topology, topos>>
      <3>1. cs.then # "release" => topology # cs.tp
        BY DEF RunInv, PlannedInv
      <3> QED BY <1>t, <2>0, <2>1, <2>4, <3>1, SpawnRuns
    <2> QED BY <1>1, <2>2, <2>3, <2>4 DEF DoStart
  <1>2. CASE DoStop
    BY <1>2, DoStopRun
  <1>3. CASE DoClean
    <2>1. topology \in DOMAIN topos /\ topos[topology].state = "Closed"
      BY <1>3 DEF DoClean, RunInv, ClosingInv
    <2>2. \A s \in DOMAIN runs : runs[s].tp = topology => runs[s].pc # "clean"
      BY <1>3 DEF DoClean, RunInv, ClosingInv
    <2>3. /\ DOMAIN topos' = DOMAIN topos /\ topos'[topology].state = "Closed"
          /\ \A i \in DOMAIN topos \ {topology} : topos'[i] = topos[i]
      <3>1. Cleaned(topos[topology]).state = "Closed"
        BY <2>1, <1>t DEF Cleaned, Topo
      <3> QED BY <1>3, <2>1, <3>1 DEF DoClean
    <2>4. cs'.pc = "transit" /\ cs'.then = cs.then /\ cs'.tp = cs.tp
      <3>1. cs.to \in AtRest \cup {"Running"}
        BY <1>c DEF Cs
      <3> QED BY <1>3, <1>c, <3>1, TransitType DEF DoClean
    <2>5. topology' = 0 /\ UNCHANGED runs
      BY <1>3 DEF DoClean
    <2> QED BY <2>1, <2>2, <2>3, <2>4, <2>5, ForgetRun
  <1>4. CASE DoCancel
    <2>1. topology \in DOMAIN topos
      BY <1>4, <1>t DEF DoCancel, StateInv, HolderInv
    <2>2. /\ DOMAIN topos' = DOMAIN topos
          /\ \A i \in DOMAIN topos \ {topology} : topos'[i] = topos[i]
          /\ \/ topos'[topology] = topos[topology]
             \/ topos'[topology].state = "Closed" /\ topos[topology].state = "Opened"
      <3>1. Cleaned([topos[topology] EXCEPT !.state = "Closed"]).state = "Closed"
        BY <2>1, <1>t DEF Cleaned, Topo
      <3> QED BY <1>4, <2>1, <3>1 DEF DoCancel
    <2>3. topos[topology].state = "Opened" =>
            \A s \in DOMAIN runs : runs[s].tp = topology => runs[s].pc # "clean"
      BY DEF RunInv, RunsInv
    <2>4. cs'.pc = "free" /\ cs'.then = "release" /\ topology' = 0
      BY <1>4 DEF DoCancel, Unlock, FreeCs
    <2>5. /\ DOMAIN runs' = DOMAIN runs
          /\ \A s \in DOMAIN runs :
                /\ runs'[s].tp = runs[s].tp
                /\ runs[s].pc # "locked" => runs'[s].pc = runs[s].pc
                /\ runs[s].pc = "locked" => runs'[s].pc \in {"locked", "done"}
      <3>1. \A s \in DOMAIN runs : runs[s] \in Run
        BY DEF TypeOK
      <3> QED BY <1>4, <3>1 DEF DoCancel, Unlock, Run
    <2> QED BY <2>1, <2>2, <2>3, <2>4, <2>5, ForgetRun
  <1>5. CASE DoTransit
    BY <1>5, <1>c, RunFrame, GotoCsType DEF DoTransit, CsPc
  <1>6. CASE NextAction
    <2>1. cs'.pc # "clean" /\ cs'.then = cs.then /\ cs'.tp = cs.tp
      <3>0. Head(q) \in ActionSignal
        BY <1>6 DEF NextAction, TypeOK
      <3>1. CASE Head(q) \in {"start", "scheduledStart"}
        BY <1>6, <1>c, <3>1, GotoCsType DEF NextAction, CsPc, GotoCs
      <3>2. CASE Head(q) = "stop"
        BY <1>6, <1>c, <3>2, AimType DEF NextAction, CsPc, AtRest
      <3>3. CASE Head(q) = "scheduledStop"
        BY <1>6, <1>c, <3>3, AimType DEF NextAction, CsPc, AtRest
      <3> QED BY <3>0, <3>1, <3>2, <3>3 DEF ActionSignal
    <2> QED BY <1>6, <2>1, RunFrame DEF NextAction
  <1>7. CASE NoNextAction
    <2>1. CASE Unlock
      BY <1>7, <2>1, UnlockRuns DEF NoNextAction
    <2>2. CASE GotoCs("install") /\ UNCHANGED <<pc, runs>>
      BY <1>7, <1>c, <2>2, RunFrame, GotoCsType DEF NoNextAction, CsPc
    <2> QED BY <1>7, <2>1, <2>2 DEF NoNextAction
  <1>8. CASE Install
    <2>1. CASE Unlock /\ UNCHANGED topology
      BY <1>8, <2>1, UnlockRuns DEF Install
    <2>2. CASE /\ topology' = cs.tp /\ SpawnRun(cs.tp)
               /\ cs' = [cs EXCEPT !.pc = "transit", !.to = "Running",
                                   !.then = "release"]
      <3>1. cs'.pc = "transit" /\ cs'.then = "release" /\ cs'.tp = cs.tp
        BY <2>2, <1>c DEF Cs
      <3>2. /\ cs.tp \in DOMAIN topos /\ cs.tp \in Nat
            /\ topos[cs.tp].state = "Initialized"
        BY <1>8, <1>c DEF Install, StateInv, HolderInv, RunInv, PlannedInv, Cs
      <3>3. cs.pc = "install" /\ UNCHANGED topos
        BY <1>8 DEF Install
      <3> QED BY <2>2, <3>1, <3>2, <3>3, SpawnRuns
    <2> QED BY <1>8, <2>1, <2>2 DEF Install
  <1> QED BY <1>1, <1>2, <1>3, <1>4, <1>5, <1>6, <1>7, <1>8 DEF HolderStep

\* validate() adds a topology that no run knows; the other callers disturb no
\* topology when they take ruleLock.
LEMMA CallerStepRun ==
    ASSUME TypeOK, RunInv, NEW c \in Callers, CallerStep(c)
    PROVE  RunInv'
  <1>c. cs \in Cs
    BY DEF TypeOK
  <1>1. CASE UNCHANGED <<topos, cs>>
    <2>1. UNCHANGED <<topology, runs>>
      BY <1>1 DEF CallerStep, TriggerAction, LockedStart, LockedStop,
                  LockedValidateAndRun, LockedSetRule, LockedDelete
    <2> QED BY <1>1, <2>1, RunFrame
  <1>2. CASE LockedStart(c) /\ cs' # cs
    <2>1. cs.pc = "free" /\ (Transit("ScheduledStop") \/ GotoCs("start"))
      BY <1>2 DEF LockedStart, Lock, LockFree
    <2>2. cs'.pc \in {"transit", "start"} /\ cs'.then = cs.then /\ cs'.tp = cs.tp
      BY <2>1, <1>c, TransitType, GotoCsType DEF CsPc, AtRest
    <2> QED BY <1>2, <2>1, <2>2, RunFrame DEF LockedStart
  <1>3. CASE LockedStop(c)
    <2>1. cs.pc = "free"
      BY <1>3 DEF LockedStop, Lock, LockFree
    <2>2. cs'.pc = "stop" /\ cs'.then = cs.then /\ cs'.tp = cs.tp
      BY <1>3, <1>c DEF LockedStop, Cs
    <2> QED BY <1>3, <2>1, <2>2, RunFrame DEF LockedStop
  <1>4. CASE LockedValidateAndRun(c) /\ cs' # cs
    <2> DEFINE n == Len(topos) + 1
    <2>1. /\ cs.pc = "free" /\ UNCHANGED <<topology, runs>>
          /\ topos' = Append(topos, NewTopo)
          /\ cs'.pc \in {"stop", "install"} /\ cs'.tp = n
      BY <1>4 DEF LockedValidateAndRun, Lock, LockFree
    <2>2. /\ n \notin DOMAIN topos /\ DOMAIN topos' = DOMAIN topos \cup {n}
          /\ topos'[n] = NewTopo /\ \A i \in DOMAIN topos : topos'[i] = topos[i]
      BY <2>1, NewTopoType DEF TypeOK
    <2>3. /\ topos'[n].state = "Initialized" /\ ~topos'[n].done
          /\ topos'[n].state # "Opened"
      BY <2>2 DEF NewTopo
    <2>4. topology # n /\ \A s \in DOMAIN runs : runs[s].tp \in DOMAIN topos
      BY DEF TypeOK
    <2> HIDE DEF n
    <2>5. RunsInv'
      BY <2>1, <2>2, <2>4 DEF RunInv, RunsInv
    <2>6. SupervisedInv'
      <3> SUFFICES ASSUME NEW i \in DOMAIN topos', topos'[i].state = "Opened" \/ topology = i
                   PROVE  \E s \in DOMAIN runs : Supervises(s, i)'
        BY <2>1 DEF SupervisedInv
      <3>1. i \in DOMAIN topos /\ topos'[i] = topos[i]
        BY <2>2, <2>3, <2>4
      <3>2. PICK s \in DOMAIN runs : Supervises(s, i)
        BY <2>1, <3>1 DEF RunInv, SupervisedInv
      <3>3. Supervises(s, i)'
        BY <2>1, <3>1, <3>2 DEF Supervises
      <3> QED BY <3>3
    <2>7. PlannedInv'
      BY <2>1, <2>2, <2>3, <2>4 DEF PlannedInv
    <2>8. ClosingInv'
      BY <2>1, <2>2, <2>3, <2>4 DEF RunInv, ClosingInv
    <2> QED BY <2>5, <2>6, <2>7, <2>8 DEF RunInv
  <1>5. CASE LockedDelete(c) /\ cs' # cs
    <2>1. cs.pc = "free" /\ GotoCs("cancel")
      BY <1>5 DEF LockedDelete, Lock, LockFree
    <2>2. cs'.pc = "cancel" /\ cs'.then = cs.then /\ cs'.tp = cs.tp
      BY <2>1, <1>c, GotoCsType DEF CsPc
    <2> QED BY <1>5, <2>1, <2>2, RunFrame DEF LockedDelete
  <1>6. \/ UNCHANGED <<topos, cs>>
        \/ cs' # cs /\ (LockedStart(c) \/ LockedValidateAndRun(c) \/ LockedDelete(c))
        \/ LockedStop(c)
    BY <1>c DEF CallerStep, TriggerAction, LockedStart, LockedValidateAndRun,
                LockedSetRule, LockedDelete, Lock, LockFree
  <1> QED BY <1>1, <1>2, <1>3, <1>4, <1>5, <1>6

LEMMA RunInit == Init => RunInv
  BY DEF Init, RunInv, RunsInv, SupervisedInv, PlannedInv, ClosingInv, FreeCs

LEMMA RunInvStep ==
    ASSUME TypeOK, StateInv, RunInv, [Next]_vars
    PROVE  RunInv'
  <1>1. CASE UNCHANGED vars
    BY <1>1, RunFrame DEF vars
  <1>2. ASSUME NEW c \in Callers, NEW op \in Operations, Call(c, op) PROVE RunInv'
    BY <1>2, RunFrame DEF Call
  <1>3. ASSUME NEW i \in DOMAIN topos, Report(i) \/ NodesExit(i) PROVE RunInv'
    <2>1. \A j \in DOMAIN topos : topos[j] \in Topo
      BY DEF TypeOK
    <2>2. PICK tp : /\ topos' = [topos EXCEPT ![i] = tp]
                    /\ tp.state = topos[i].state /\ tp.done = topos[i].done
      <3>1. CASE Report(i)
        <4>1. PICK e : topos' = [topos EXCEPT ![i].drain = DrainError(@, e)]
          BY <3>1 DEF Report
        <4> DEFINE d == DrainError(topos[i].drain, e)
        <4>2. topos' = [topos EXCEPT ![i] = [topos[i] EXCEPT !.drain = d]]
          BY <4>1
        <4> HIDE DEF d
        <4>3. /\ [topos[i] EXCEPT !.drain = d].state = topos[i].state
              /\ [topos[i] EXCEPT !.drain = d].done = topos[i].done
          BY <2>1 DEF Topo
        <4> QED BY <4>2, <4>3
      <3>2. CASE NodesExit(i)
        <4>1. topos' = [topos EXCEPT ![i] = [topos[i] EXCEPT !.ops = "down"]]
          BY <3>2 DEF NodesExit
        <4>2. /\ [topos[i] EXCEPT !.ops = "down"].state = topos[i].state
              /\ [topos[i] EXCEPT !.ops = "down"].done = topos[i].done
          BY <2>1 DEF Topo
        <4> QED BY <4>1, <4>2
      <3> QED BY <1>3, <3>1, <3>2
    <2>3. /\ DOMAIN topos' = DOMAIN topos
          /\ \A j \in DOMAIN topos : /\ topos'[j].state = topos[j].state
                                     /\ topos'[j].done = topos[j].done
      BY <2>2
    <2>4. UNCHANGED <<topology, runs, cs>>
      BY <1>3 DEF Report, NodesExit, envVars
    <2> QED BY <2>3, <2>4, RunFrame
  <1> QED BY <1>1, <1>2, <1>3, CallerStepRun, HolderStepRun, RunStepRun DEF Next, Finished

-----------------------------------------------------------------------------
(* The theorems                                                            *)

\* The types and the state of the rule, as one inductive invariant.
LEMMA StateInvariant == Spec => [](TypeOK /\ StateInv)
  <1>1. Init => TypeOK /\ StateInv
    BY TypeInit, StateInit
  <1>2. TypeOK /\ StateInv /\ [Next]_vars => TypeOK' /\ StateInv'
    BY TypeStep, StateStep DEF StateInv
  <1> QED BY <1>1, <1>2, PTL DEF Spec

\* Variables keep their types: in particular the rule, its runs and the holder
\* of ruleLock refer to topologies that exist.
THEOREM TypeCorrect == Spec => []TypeOK
  BY StateInvariant, PTL

\* What GetState reports matches the topology that the rule owns: a rule at rest
\* has none and, without Delete, a running rule has one.
THEOREM StateIsTruthful == Spec => []StateMatchesTopology
  <1>1. StateInv => StateMatchesTopology
    BY DEF StateInv, MatchInv, StateMatchesTopology, LockFree
  <1> QED BY <1>1, StateInvariant, PTL

\* A signal deferred by TriggerAction always has somebody who will pop it.
THEOREM DeferredIsPending == Spec => []NoStrandedAction
  <1>1. StateInv => NoStrandedAction
    BY DEF StateInv, DeferredInv, OwnedInv, NoStrandedAction, LockFree, Owes,
           Waiting, ActionSignal
  <1> QED BY <1>1, StateInvariant, PTL

\* A rule is never left "starting" or "stopping" by nobody.
THEOREM TransientHasOwner == Spec => []TransientOwned
  <1>1. StateInv => TransientOwned
    BY DEF StateInv, OwnedInv, TransientOwned, LockFree, Owes, Waiting
  <1> QED BY <1>1, StateInvariant, PTL

\* The runs of every topology, on top of the state of the rule.
LEMMA RunInvariant == Spec => []RunInv
  <1>1. Init => RunInv
    BY RunInit
  <1>2. TypeOK /\ StateInv /\ RunInv /\ [Next]_vars => RunInv'
    BY RunInvStep
  <1> QED BY <1>1, <1>2, StateInvariant, PTL DEF Spec

\* A topology that is open, or that the rule owns while nobody is changing it,
\* always has a runTopo goroutine that will act on the end of the run.
THEOREM RunsAreSupervised == Spec => []Supervised
  <1>1. TypeOK /\ RunInv => Supervised
    BY DEF RunInv, SupervisedInv, Supervises, Supervised, LockFree
  <1> QED BY <1>1, TypeCorrect, RunInvariant, PTL

\* Stop, Delete, an update and runTopo may all try to close a topology: one of
\* them does.
THEOREM ClosedByOne == Spec => []ClosedOnce
  <1>1. ASSUME TypeOK, RunInv PROVE ClosedOnce
    <2> SUFFICES ASSUME NEW i \in DOMAIN topos
                 PROVE  LET closers == {r \in DOMAIN runs : runs[r].tp = i /\ runs[r].pc = "clean"}
                        IN /\ \A r, s \in closers : r = s
                           /\ cs.pc = "clean" /\ topology = i => closers = {}
                           /\ closers # {} => topos[i].state = "Closed" /\ ~topos[i].done
      BY DEF ClosedOnce
    <2>1. \A r \in DOMAIN runs : runs[r].tp = i /\ runs[r].pc = "clean" =>
             /\ topos[i].state = "Closed" /\ ~topos[i].done
             /\ ~(cs.pc = "clean" /\ topology = i)
             /\ \A s \in DOMAIN runs : runs[s].tp = i /\ runs[s].pc = "clean" => s = r
      BY <1>1 DEF RunInv, RunsInv, ClosingInv
    <2> QED BY <2>1
  <1> QED BY <1>1, TypeCorrect, RunInvariant, PTL
=============================================================================
