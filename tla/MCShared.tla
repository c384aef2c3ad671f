------------------------------ MODULE MCShared ------------------------------
(***************************************************************************)
(* A small instance of the three things that rules share: streams,         *)
(* connections and topics in memory.  They have no state in common, so     *)
(* that a behaviour follows one of them, and the other two rest.           *)
(***************************************************************************)
EXTENDS SubTopoPool, ConnectionPool, MemoryPubSub

VARIABLE part   \* the one that is followed

sharedVars == <<part, subVars, connVars, pubVars>>

SharedInit ==
    /\ part \in {"streams", "connections", "topics"}
    /\ IF part = "streams" THEN SubInit
       ELSE SubInit /\ chained = FALSE
    /\ IF part = "connections" THEN ConnInit
       ELSE ConnInit /\ stored = FALSE
    /\ IF part = "topics" THEN PubInit
       ELSE PubInit /\ wild = {}

StreamsStep     == part = "streams" /\ SubNext /\ UNCHANGED <<part, connVars, pubVars>>
ConnectionsStep == part = "connections" /\ ConnNext /\ UNCHANGED <<part, subVars, pubVars>>
TopicsStep      == part = "topics" /\ PubNext /\ UNCHANGED <<part, subVars, connVars>>

SharedNext == StreamsStep \/ ConnectionsStep \/ TopicsStep

SharedSpec == SharedInit /\ [][SharedNext]_sharedVars /\ ConnFairness
=============================================================================
