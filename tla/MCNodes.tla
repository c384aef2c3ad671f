------------------------------ MODULE MCNodes -------------------------------
(***************************************************************************)
(* Small instances of what a node does with what passes it: the cache node *)
(* before a sink, the node that triggers stretches of time once, and the   *)
(* file sink.  A behaviour follows one of them, and the others rest.       *)
(***************************************************************************)
EXTENDS CacheOp, DedupTrigger, FileSink

\* The stretches of time that rows ask for: some overlap, meet, or contain others.
SomeSpans == {<<0, 5>>, <<0, 1>>, <<1, 2>>, <<1, 3>>, <<2, 4>>, <<3, 4>>, <<3, 5>>, <<2, 3>>}

VARIABLE part   \* the one that is followed

NodesInit ==
    /\ part \in {"cache", "dedup", "file"}
    /\ OpInit /\ DedupInit /\ FileInit
    /\ part # "file" => stamped

CacheStep == part = "cache" /\ OpNext    /\ UNCHANGED <<part, dedupVars, fileVars>>
DedupStep == part = "dedup" /\ DedupNext /\ UNCHANGED <<part, allVars, fileVars>>
FileStep  == part = "file"  /\ FileNext  /\ UNCHANGED <<part, allVars, dedupVars>>

NodesNext == CacheStep \/ DedupStep \/ FileStep

\* The fairness of each module, where it is followed: elsewhere none of its
\* steps is taken, and it asks for none.
NodesSpec ==
    /\ NodesInit
    /\ [][NodesNext]_<<part, allVars, dedupVars, fileVars>>
    /\ OpFairness /\ DedupFairness
-----------------------------------------------------------------------------
\* What a node keeps back goes out in the end: what is in the cache of a running rule, and
\* the requests that wait (cache_op.go:60-190, dedup_trigger_op.go:104-140).
NothingKeptForEver == CachedIsSent /\ AllTriggered
=============================================================================
