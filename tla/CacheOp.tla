------------------------------ MODULE CacheOp ------------------------------
(***************************************************************************)
(* The node in front of a sink that holds back in its SyncCache what the   *)
(* sink's channel has no room for (topo/node/cache_op.go), and the sink    *)
(* that empties the channel.                                               *)
(*                                                                         *)
(* The node's goroutine selects between an input, a tick and the end of    *)
(* its context; an input or a tick ends in send, which runs here in two    *)
(* steps, so that the sink and the stop of the rule fall between them.     *)
(* hasCache stands for the running ticker: a tick left over from a stopped *)
(* one finds nothing to send.                                              *)
(***************************************************************************)
EXTENDS SyncCache

CONSTANTS
    MemoryCacheThreshold,   \* capacity of the sink's input channel
    MaxControls             \* bound: watermarks and EOFs that arrive

ASSUME CacheOpAssumption ==
    MemoryCacheThreshold \in Nat \ {0} /\ MaxControls \in Nat

VARIABLES
    currItem, hasCache,
    pc,             \* "select", "send" or "broadcast"
    out,            \* the sink's input channel
    cancelled,      \* the rule's context is done
    controls,       \* watermarks and EOFs that have arrived
    delivered,      \* history: items the sink has taken
    forgone         \* history: items lost with a channel or with currItem

opVars == <<currItem, hasCache, pc, out, cancelled, controls, delivered, forgone>>
allVars == <<syncVars, opVars>>

Control == 0    \* a tuple that is not cached: a watermark or an EOF
\* A sequence without its control tuples.
ItemsIn(s) == FlattenSeq([i \in DOMAIN s |-> IF s[i] \in Items THEN <<s[i]>> ELSE <<>>])

Current == IF currItem = Nothing THEN <<>> ELSE <<currItem>>

Unsent == {currItem} \cap Items

\* Every item on its way, the next to reach the sink first.
Pipeline == ItemsIn(out) \o Current \o Contents

OpInit ==
    /\ CacheInit
    /\ currItem = Nothing /\ hasCache = FALSE /\ pc = "select"
    /\ out = <<>> /\ cancelled = FALSE /\ controls = 0
    /\ delivered = <<>> /\ forgone = {}

-----------------------------------------------------------------------------
\* Mutant: whether an item waits to be sent decides, not whether there is a
\* cache.
ReceiveOvertakes ==
    /\ up /\ pc = "select" /\ added < MaxItems
    /\ added' = added + 1
    /\ IF currItem # Nothing
       THEN AddCache(added') /\ UNCHANGED currItem
       ELSE currItem' = added' /\ UNCHANGED cacheVars
    /\ pc' = "send"
    /\ UNCHANGED <<up, starts, hasCache, out, cancelled, controls, delivered,
                   forgone>>

\* An item that came while the context was done may not have been sent; the
\* next one replaces it.
Receive ==
    /\ up /\ pc = "select" /\ added < MaxItems
    /\ added' = added + 1
    /\ IF hasCache
       THEN AddCache(added') /\ UNCHANGED <<currItem, forgone>>
       ELSE /\ currItem' = added' /\ UNCHANGED cacheVars
            /\ forgone' = forgone \cup (IF cancelled THEN Unsent ELSE {})
    /\ pc' = "send"
    /\ UNCHANGED <<up, starts, hasCache, out, cancelled, controls, delivered>>

\* commonIngest broadcasts it past the cache; a full channel drops its oldest.
ReceiveControl ==
    /\ up /\ pc = "select" /\ controls < MaxControls
    /\ controls' = controls + 1
    /\ \/ /\ Len(out) < MemoryCacheThreshold
          /\ out' = Append(out, Control)
          /\ UNCHANGED forgone
       \/ /\ Len(out) = MemoryCacheThreshold /\ ~cancelled
          /\ out' = Append(Tail(out), Control)
          /\ forgone' = forgone \cup ({Head(out)} \cap Items)
       \/ cancelled /\ UNCHANGED <<out, forgone>>
    /\ UNCHANGED <<syncVars, currItem, hasCache, pc, cancelled, delivered>>

\* Mutant: a tick only tries again the item that found no room.
TickRetries ==
    /\ up /\ pc = "select" /\ hasCache /\ currItem # Nothing
    /\ pc' = "send"
    /\ UNCHANGED <<syncVars, currItem, hasCache, out, cancelled, controls,
                   delivered, forgone>>

Tick ==
    /\ up /\ pc = "select" /\ hasCache
    /\ pc' = "send"
    /\ UNCHANGED <<syncVars, currItem, hasCache, out, cancelled, controls,
                   delivered, forgone>>

\* The first half of send: the item to send, or the end of the cache.
SendCurrent ==
    /\ currItem # Nothing
    /\ pc' = "broadcast"
    /\ UNCHANGED <<cacheVars, currItem, hasCache>>

SendCached ==
    /\ currItem = Nothing /\ CacheLength > 0
    /\ PopCache
    /\ currItem' = PopResult
    /\ pc' = "broadcast"
    /\ UNCHANGED hasCache

AllSent ==
    /\ currItem = Nothing /\ CacheLength <= 0
    /\ hasCache' = FALSE
    /\ pc' = "select"
    /\ UNCHANGED <<cacheVars, currItem>>

Send ==
    /\ up /\ pc = "send"
    /\ SendCurrent \/ SendCached \/ AllSent
    /\ UNCHANGED <<up, starts, added, out, cancelled, controls, delivered,
                   forgone>>

\* doBroadcast: what select takes when several cases are ready is open, and
\* default is taken when none is.
SentThrough ==
    /\ Len(out) < MemoryCacheThreshold
    /\ out' = Append(out, currItem)
    /\ currItem' = Nothing
    /\ UNCHANGED hasCache

StopsWaiting ==
    /\ cancelled
    /\ UNCHANGED <<out, currItem, hasCache>>

StartsCache ==
    /\ ~cancelled /\ Len(out) = MemoryCacheThreshold
    /\ hasCache' = TRUE
    /\ UNCHANGED <<out, currItem>>

Broadcast ==
    /\ up /\ pc = "broadcast"
    /\ SentThrough \/ StopsWaiting \/ StartsCache
    /\ pc' = "select"
    /\ UNCHANGED <<syncVars, cancelled, controls, delivered, forgone>>

\* The sink takes what is next; it retries until the item is through.
Collect ==
    /\ up /\ out # <<>>
    /\ out' = Tail(out)
    /\ delivered' = delivered \o ItemsIn(<<Head(out)>>)
    /\ UNCHANGED <<syncVars, currItem, hasCache, pc, cancelled, controls, forgone>>

Cancel ==
    /\ up /\ ~cancelled /\ starts < MaxStarts
    /\ cancelled' = TRUE
    /\ UNCHANGED <<syncVars, currItem, hasCache, pc, out, controls, delivered,
                   forgone>>

\* The channel and the node end with the topology, and so does the cache if it
\* is to be cleaned.
End ==
    /\ up' = FALSE
    /\ forgone' = forgone \cup (Range(out) \cap Items) \cup Unsent
           \cup (IF CleanCacheAtStop THEN Range(Contents) ELSE {})
    /\ out' = <<>> /\ currItem' = Nothing
    /\ hasCache' = FALSE /\ pc' = "select" /\ cancelled' = FALSE
    /\ UNCHANGED <<starts, added, controls, delivered>>

Close ==
    /\ up /\ pc = "select" /\ cancelled
    /\ Flush
    /\ End

CrashNode ==
    /\ CanCrash /\ up /\ starts < MaxStarts
    /\ CrashCache
    /\ End

\* A new topology, and with it a new node, channel and sink.
StartNode == Start /\ UNCHANGED opVars

OpNext ==
    \/ Receive \/ ReceiveControl \/ Tick \/ Send \/ Broadcast \/ Collect
    \/ Cancel \/ Close \/ CrashNode \/ StartNode

OpSpec == OpInit /\ [][OpNext]_allVars

\* The node's goroutine and the sink's keep running and the ticker ticks; a
\* select that finds the context done again and again takes it in the end,
\* because Go chooses among the ready cases at random.
OpFairness ==
    /\ WF_allVars(Send) /\ WF_allVars(Broadcast)
    /\ WF_allVars(Tick) /\ WF_allVars(Collect)
    /\ SF_allVars(Close) /\ WF_allVars(StartNode)

FairOpSpec == OpSpec /\ OpFairness

-----------------------------------------------------------------------------
(* Properties.                                                             *)

OpTypeOK ==
    /\ CacheTypeOK
    /\ currItem \in Items \cup {Nothing}
    /\ {hasCache, cancelled} \subseteq BOOLEAN
    /\ pc \in {"select", "send", "broadcast"}
    /\ out \in Seq(Items \cup {Control, Nothing})
    /\ Len(out) <= MemoryCacheThreshold
    /\ controls \in 0..MaxControls
    /\ delivered \in Seq(Items) /\ forgone \subseteq Items

\* The sink gets the items in the order of their arrival, whether they go
\* through the cache or past it (Exec: "If already have the cache, append this
\* to cache and send the currItem").
Ascending(s) == \A i, j \in DOMAIN s : i < j => s[i] < s[j]
InOrder == Ascending(delivered \o Pipeline)

\* No item gets lost between the node, the cache and the channel: it is on its
\* way or at the sink, unless the full disk, the end of a run or a control
\* tuple cost it (cleanCacheAtStop, or the first run of the rule).
NothingLost ==
    added = Cardinality(Range(delivered) \cup Range(Pipeline)
                            \cup overflowed \cup forgone)

\* The node sends no nil: send only asks a cache that has an item (PopCache
\* answers nil with true, "fail to read from cache" is never logged).
NilNeverSent == pc = "broadcast" => currItem # Nothing

\* What the cache of a running rule holds is sent in the end, unless the disk
\* overflows or the rule stops (overview.md:141, "automatically resend the
\* cached data after the error is recovered").
CachedIsSent ==
    \A i \in Items :
        (up /\ i \in Range(Contents))
            ~> (i \in Range(delivered) \cup overflowed \cup forgone \/ ~up)

\* The node before a sink that caches sends what it gets in its order and once, and loses
\* only what a full disk, a stop or a control tuple costs (cache_op.go:60-190).
CacheOpSound == OpTypeOK /\ InOrder /\ NothingLost /\ NilNeverSent
=============================================================================
