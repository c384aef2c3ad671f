---------------------------- MODULE MCOperators ----------------------------
(***************************************************************************)
(* Small instances of what happens in the nodes of a rule: a node sends to *)
(* the nodes behind it, a node has several workers, a window works in      *)
(* event time, and barriers flow through a graph that forks.  A behaviour  *)
(* follows one of them, and the others rest.                               *)
(***************************************************************************)
EXTENDS BarrierFlow, NodeOutput, ConcurrentWorkers, EventWindow, TLC

CONSTANTS s1, s2, op, sink

\* Two sources, each feeding both an operator that aligns and a sink.
Fork == (op :> {s1, s2}) @@ (sink :> {s1, s2})

VARIABLE part   \* the one that is followed

Parts == {"output", "workers", "window", "barriers"}

OperatorsInit ==
    /\ part \in Parts
    /\ FlowInit /\ OutInit /\ WorkersInit /\ EventInit
    /\ part # "output"  => blocking /\ outputs = Outputs
    /\ part # "workers" => checkpoints
    /\ part # "window"  => kind = "tumbling"

OutputStep   == part = "output"   /\ OutNext
                /\ UNCHANGED <<part, workVars, eventVars, flowVars>>
WorkersStep  == part = "workers"  /\ WorkersNext
                /\ UNCHANGED <<part, outVars, eventVars, flowVars>>
WindowStep   == part = "window"   /\ EventNext
                /\ UNCHANGED <<part, outVars, workVars, flowVars>>
BarriersStep == part = "barriers" /\ FlowNext
                /\ UNCHANGED <<part, outVars, workVars, eventVars>>

OperatorsNext == OutputStep \/ WorkersStep \/ WindowStep \/ BarriersStep

\* The fairness of each module, where it is followed: elsewhere none of its
\* steps is taken, and it asks for none.
OperatorsSpec ==
    /\ OperatorsInit
    /\ [][OperatorsNext]_<<part, outVars, workVars, eventVars, flowVars>>
    /\ OutFairness /\ WorkersFairness /\ FlowFairness
-----------------------------------------------------------------------------
\* No node waits for ever: a send that waits for room ends, the results of the workers
\* come out, and all of them end with the rule (node.go:204-211, concurrent.go:54-136).
NodesGoOn == BlockedSendEnds /\ WorkersGoOn
=============================================================================
