--------------------------- MODULE MCBarrierFlow ---------------------------
(***************************************************************************)
(* What flows through the nodes of a rule, and what a window makes of it.  *)
(* There are two small instances of BarrierFlow: under qos 2 the operator  *)
(* aligns, in channels that overflow and with a rule that may stop; under  *)
(* qos 1 every node tracks, and nothing overflows.  A behaviour follows    *)
(* one of them, or the windows of processing time and by count.            *)
(***************************************************************************)
EXTENDS BarrierFlow, ClockWindow, TLC

CONSTANTS s1, s2, op

\* Two sources joined by an operator.
Merge == op :> {s1, s2}

\* The sources play the same part, and so do the streams of a window, named like them.
Symmetry == Permutations({s1, s2})

VARIABLES
    part,   \* what is followed
    \* The rule under qos 1, which has its own nodes.
    offset1, sending1, input1, handler1, state1, begun1, triggers1, cancelled1,
    sentAt1, tookAt1

Tracks == INSTANCE BarrierFlow WITH
    ExactlyOnce <- FALSE, BufferLength <- 8, CanStop <- FALSE,
    Sinks <- {}, Upstream <- Merge,
    offset <- offset1, sending <- sending1, input <- input1, handler <- handler1,
    state <- state1, begun <- begun1, triggers <- triggers1, cancelled <- cancelled1,
    sentAt <- sentAt1, tookAt <- tookAt1

tracksVars == <<offset1, sending1, input1, handler1, state1, begun1, triggers1, cancelled1,
                sentAt1, tookAt1>>

\* A window that is not followed.
WindowRests == winKind = "count" /\ ~sendTwice /\ winTime = 1

NodesInit ==
    /\ part \in {"aligned", "tracked", "window"}
    /\ FlowInit /\ Tracks!FlowInit /\ WinInit
    /\ part # "window" => WindowRests

AlignedStep == part = "aligned" /\ FlowNext        /\ UNCHANGED <<part, tracksVars, winVars>>
TrackedStep == part = "tracked" /\ Tracks!FlowNext /\ UNCHANGED <<part, flowVars, winVars>>
WindowStep  == part = "window"  /\ WinNext         /\ UNCHANGED <<part, flowVars, tracksVars>>

NodesNext == AlignedStep \/ TrackedStep \/ WindowStep

NodesSpec == NodesInit /\ [][NodesNext]_<<part, flowVars, tracksVars, winVars>>
-----------------------------------------------------------------------------
\* Under qos 1 nothing that was sent before the barriers of a checkpoint is missing
\* from a snapshot of it, as long as no channel overflows (barrier_handler.go:29-72).
TrackedHasAll == Tracks!FlowTypeOK /\ Tracks!NothingMissing
=============================================================================
