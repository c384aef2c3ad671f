---------------------------- MODULE MemoryPubSub ----------------------------
(***************************************************************************)
(* Topics in memory: internal/io/memory/pubsub/manager.go, and who uses    *)
(* them: the memory sink, the memory source (as SourceNode.Run runs it)    *)
(* and the tables of the lookup source (memory/store).                     *)
(*                                                                         *)
(* The operations of the manager exclude each other.  A consumer is known  *)
(* by the rule and the operator it belongs to, not by the run: the source  *)
(* of a stopped run closes in its own time, and may even subscribe, after  *)
(* the next run has started.  The tables of a topic share one consumer.    *)
(***************************************************************************)
EXTENDS Integers, Sequences, FiniteSets, FiniteSetsExt

CONSTANTS
    Topics,      \* topics that sinks publish to
    PlainTopic,  \* the topic that sources without a wildcard, and tables, read
    Readers,     \* memory sources; the source of each run of the rule
    Keys,        \* keys of the tables of PlainTopic
    MaxRuns,     \* bound: runs of each source
    MaxSinks,    \* bound: connected sinks of a topic
    MaxTables,   \* bound: tables made
    MaxUsers     \* bound: users of a table

ReaderRuns == Readers \X (1..MaxRuns)
Store      == "store"                    \* the sourceId of the tables
SourceIds  == Readers \cup {Store}

ASSUME PubSubAssumption ==
    /\ PlainTopic \in Topics
    /\ IsFiniteSet(Readers) /\ Store \notin Readers
    /\ {MaxRuns, MaxSinks, MaxTables, MaxUsers} \subseteq Nat

VARIABLES
    topics,    \* pubTopics
    subExps,   \* channel of the wildcard subscription of a source, 0 if none
    chans,     \* every channel made: whose it is, and whether it is closed
    wild,      \* the sources whose topic is a wildcard, that matches all topics
    readers,   \* the source of each run
    sinks,     \* connected sinks of each topic
    tables,    \* every table made, with its goroutine
    database,  \* count and table of each key
    panicked   \* history: a producer sent to a closed channel

pubVars == <<topics, subExps, chans, wild, readers, sinks, tables, database, panicked>>
readerVars == <<wild, readers>>
tableVars  == <<tables, database>>

Chans == 0..(Cardinality(ReaderRuns) + MaxTables)

PubConsumers == [exists : BOOLEAN, count : Int,
                 consumers : [SourceIds -> Chans], replaced : [SourceIds -> Nat]]
NoTopic == [exists |-> FALSE, count |-> 0, consumers |-> [s \in SourceIds |-> 0],
            replaced |-> [s \in SourceIds |-> 0]]

PubTypeOK ==
    /\ topics \in [Topics -> PubConsumers]
    /\ subExps \in [SourceIds -> Chans]
    /\ chans \in Seq([of : SourceIds, closed : BOOLEAN]) /\ Len(chans) \in Chans
    /\ wild \subseteq Readers
    /\ readers \in [ReaderRuns -> [pc : {"new", "starting", "on", "closed"},
                                   stopped : BOOLEAN, ch : Chans]]
    /\ sinks \in [Topics -> 0..MaxSinks]
    /\ tables \in Seq([key : Keys, pc : {"start", "subscribed", "running", "end"},
                       cancelled : BOOLEAN, ch : Chans])
    /\ database \in [Keys -> [count : 0..MaxUsers, t : 0..MaxTables]]
    /\ panicked \in BOOLEAN
    /\ \A t \in Topics : ~topics[t].exists => topics[t] = NoTopic

PubInit ==
    /\ topics = [t \in Topics |-> NoTopic]
    /\ subExps = [s \in SourceIds |-> 0]
    /\ chans = << >>
    /\ wild \in SUBSET Readers
    /\ readers = [x \in ReaderRuns |-> [pc |-> "new", stopped |-> FALSE, ch |-> 0]]
    /\ sinks = [t \in Topics |-> 0]
    /\ tables = << >>
    /\ database = [k \in Keys |-> [count |-> 0, t |-> 0]]
    /\ panicked = FALSE
-----------------------------------------------------------------------------
(* The manager                                                             *)

\* Mutant: the replaced consumer is not counted.
AddUncounted(c, s, ch) == [c EXCEPT !.exists = TRUE, !.consumers[s] = ch]

\* addPubConsumer: the latest channel of a source is the one that counts; those
\* that it replaced are still to be closed.
AddPubConsumer(c, s, ch) ==
    [exists |-> TRUE, count |-> c.count,
     consumers |-> [c.consumers EXCEPT ![s] = ch],
     replaced  |-> [c.replaced EXCEPT ![s] = IF c.consumers[s] # 0 THEN @ + 1 ELSE @]]

Unused(c) == c.count = 0 /\ \A s \in SourceIds : c.consumers[s] = 0

\* removePubConsumer
RemovePubConsumer(c, s) ==
    LET left == [c EXCEPT !.consumers[s] = 0] IN
    IF c.consumers[s] # 0 /\ c.replaced[s] > 0
    THEN [c EXCEPT !.replaced[s] = @ - 1]
    ELSE IF Unused(left) THEN NoTopic ELSE left

\* The same, of a wildcard source: the topic it deletes is named by the
\* wildcard, and there is none of that name.
RemoveWildConsumer(c, s) ==
    IF c.consumers[s] = 0 THEN c
    ELSE IF c.replaced[s] > 0 THEN [c EXCEPT !.replaced[s] = @ - 1]
    ELSE [c EXCEPT !.consumers[s] = 0]

\* CreateSub: a new channel, for one topic or for all topics there are.
CreateSub(s) ==
    LET ch == Len(chans) + 1 IN
    /\ chans' = Append(chans, [of |-> s, closed |-> FALSE])
    /\ IF s \in wild
       THEN /\ subExps' = [subExps EXCEPT ![s] = ch]
            /\ topics' = [t \in Topics |-> IF topics[t].exists
                            THEN AddPubConsumer(topics[t], s, ch) ELSE topics[t]]
       ELSE /\ topics' = [topics EXCEPT ![PlainTopic] = AddPubConsumer(@, s, ch)]
            /\ UNCHANGED subExps

\* CloseSourceConsumerChannel: for a wildcard, whichever channel is in subExps
\* is closed; without one the wildcard is no topic.
CloseConsumer(s) ==
    IF subExps[s] # 0
    THEN /\ chans' = [chans EXCEPT ![subExps[s]].closed = TRUE]
         /\ subExps' = [subExps EXCEPT ![s] = 0]
         /\ topics' = [t \in Topics |-> RemoveWildConsumer(topics[t], s)]
    ELSE /\ topics' = IF s \in wild \/ ~topics[PlainTopic].exists THEN topics
                      ELSE [topics EXCEPT ![PlainTopic] = RemovePubConsumer(@, s)]
         /\ UNCHANGED <<chans, subExps>>

\* CreatePub: the wildcard subscriptions are looked at for a new topic only.
CreatePub(t) ==
    LET c == topics[t] IN
    topics' = [topics EXCEPT ![t] =
        IF c.exists THEN [c EXCEPT !.count = @ + 1]
        ELSE [exists |-> TRUE, count |-> 1, consumers |-> subExps,
              replaced |-> NoTopic.replaced]]

\* RemovePub
RemovePub(t) ==
    LET c == topics[t]
        less == [c EXCEPT !.count = @ - 1] IN
    topics' = IF ~c.exists THEN topics
              ELSE [topics EXCEPT ![t] = IF Unused(less) THEN NoTopic ELSE less]
-----------------------------------------------------------------------------
(* Sinks                                                                   *)

SinkConnects(t) ==
    /\ sinks[t] < MaxSinks
    /\ CreatePub(t)
    /\ sinks' = [sinks EXCEPT ![t] = @ + 1]
    /\ UNCHANGED <<subExps, chans, readerVars, tableVars, panicked>>

SinkCloses(t) ==
    /\ sinks[t] > 0
    /\ RemovePub(t)
    /\ sinks' = [sinks EXCEPT ![t] = @ - 1]
    /\ UNCHANGED <<subExps, chans, readerVars, tableVars, panicked>>

\* doProduce, which never waits: what does not fit is dropped.
Produce(t) ==
    /\ sinks[t] > 0
    /\ panicked' = (panicked \/ \E s \in SourceIds :
           topics[t].consumers[s] # 0 /\ chans[topics[t].consumers[s]].closed)
    /\ UNCHANGED <<topics, subExps, chans, readerVars, sinks, tableVars>>
-----------------------------------------------------------------------------
(* Sources                                                                 *)

\* The next run starts when the one before was told to stop.
ReaderStarts(s, r) ==
    /\ readers[<<s, r>>].pc = "new"
    /\ r > 1 => readers[<<s, r - 1>>].stopped
    /\ readers' = [readers EXCEPT ![<<s, r>>].pc = "starting"]
    /\ UNCHANGED <<topics, subExps, chans, wild, sinks, tableVars, panicked>>

\* Subscribe, in the goroutine of the node.
ReaderSubscribes(s, r) ==
    /\ readers[<<s, r>>].pc = "starting"
    /\ CreateSub(s)
    /\ readers' = [readers EXCEPT ![<<s, r>>] = [@ EXCEPT !.pc = "on", !.ch = Len(chans) + 1]]
    /\ UNCHANGED <<wild, sinks, tableVars, panicked>>

ReaderStops(s, r) ==
    /\ readers[<<s, r>>].pc \in {"starting", "on"} /\ ~readers[<<s, r>>].stopped
    /\ readers' = [readers EXCEPT ![<<s, r>>].stopped = TRUE]
    /\ UNCHANGED <<topics, subExps, chans, wild, sinks, tableVars, panicked>>

\* Close, once the node sees that its context is done.
ReaderCloses(s, r) ==
    /\ readers[<<s, r>>].pc = "on" /\ readers[<<s, r>>].stopped
    /\ CloseConsumer(s)
    /\ readers' = [readers EXCEPT ![<<s, r>>].pc = "closed"]
    /\ UNCHANGED <<wild, sinks, tableVars, panicked>>
-----------------------------------------------------------------------------
(* Lookup tables                                                           *)

\* Reg: the first user of a table makes it and starts its goroutine.
Reg(k) ==
    /\ database[k].count < MaxUsers
    /\ IF database[k].count = 0
       THEN /\ Len(tables) < MaxTables
            /\ tables' = Append(tables, [key |-> k, pc |-> "start",
                                         cancelled |-> FALSE, ch |-> 0])
            /\ database' = [database EXCEPT ![k] = [count |-> 1, t |-> Len(tables) + 1]]
       ELSE /\ database' = [database EXCEPT ![k].count = @ + 1]
            /\ UNCHANGED tables
    /\ UNCHANGED <<topics, subExps, chans, readerVars, sinks, panicked>>

\* Unreg: the last user cancels the goroutine, if it can be cancelled by then.
Unreg(k) ==
    LET i == database[k].t IN
    /\ database[k].count > 0
    /\ IF database[k].count = 1
       THEN /\ database' = [database EXCEPT ![k] = [count |-> 0, t |-> 0]]
            /\ tables' = [tables EXCEPT ![i].cancelled = tables[i].pc = "running"]
       ELSE /\ database' = [database EXCEPT ![k].count = @ - 1]
            /\ UNCHANGED tables
    /\ UNCHANGED <<topics, subExps, chans, readerVars, sinks, panicked>>

\* runTable, which leaves its subscription behind.
TableSubscribes(i) ==
    /\ tables[i].pc = "start"
    /\ CreateSub(Store)
    /\ tables' = [tables EXCEPT ![i] = [@ EXCEPT !.pc = "subscribed", !.ch = Len(chans) + 1]]
    /\ UNCHANGED <<readerVars, sinks, database, panicked>>

TableRuns(i) ==
    /\ tables[i].pc = "subscribed"
    /\ tables' = [tables EXCEPT ![i].pc = "running"]
    /\ UNCHANGED <<topics, subExps, chans, readerVars, sinks, database, panicked>>

TableEnds(i) ==
    /\ tables[i].pc = "running" /\ tables[i].cancelled
    /\ tables' = [tables EXCEPT ![i].pc = "end"]
    /\ UNCHANGED <<topics, subExps, chans, readerVars, sinks, database, panicked>>
-----------------------------------------------------------------------------
(* Specification                                                           *)

ReaderSteps(s, r) ==
    \/ ReaderStarts(s, r) \/ ReaderSubscribes(s, r)
    \/ ReaderStops(s, r) \/ ReaderCloses(s, r)

PubNext ==
    \/ \E t \in Topics : SinkConnects(t) \/ SinkCloses(t) \/ Produce(t)
    \/ \E x \in ReaderRuns : ReaderSteps(x[1], x[2])
    \/ \E k \in Keys : Reg(k) \/ Unreg(k)
    \/ \E i \in DOMAIN tables : TableSubscribes(i) \/ TableRuns(i) \/ TableEnds(i)

PubSpec == PubInit /\ [][PubNext]_pubVars
-----------------------------------------------------------------------------
(* Properties                                                              *)

OpenRuns(s) == {r \in 1..MaxRuns : readers[<<s, r>>].pc = "on"}
Latest(s)   == Max({0} \cup {i \in DOMAIN chans : chans[i].of = s})

\* However the runs of a source without a wildcard overlap, the channel that was
\* made last stays attached until all of them have closed, the ones still to
\* close are counted, and after the last close nothing is left behind.
LatestAttached ==
    \A s \in Readers \ wild :
        LET c == topics[PlainTopic] IN
        IF OpenRuns(s) = {} THEN c.consumers[s] = 0 /\ c.replaced[s] = 0
        ELSE c.consumers[s] = Latest(s) /\ c.replaced[s] = Cardinality(OpenRuns(s)) - 1

\* A topic exists as long as a sink publishes to it or anyone reads it, and its
\* count is that of the sinks; it goes with the last of them, where no source
\* has a wildcard.
TopicKeptInUse ==
    \A t \in Topics :
        LET c == topics[t] IN
        /\ c.count = sinks[t]
        /\ sinks[t] > 0 \/ (t = PlainTopic /\ \E s \in Readers \ wild : OpenRuns(s) # {})
               => c.exists
        /\ c.exists /\ wild = {} => ~Unused(c)

\* A table that is in use is run by its goroutine until its last user leaves,
\* and is fed unless another goroutine of the topic subscribed after it.
TableFed ==
    \A k \in Keys : database[k].count > 0 =>
        LET tab == tables[database[k].t] IN
        /\ tab.key = k /\ ~tab.cancelled
        /\ tab.ch # 0 => topics[PlainTopic].consumers[Store] >= tab.ch

\* "Just use the latest ch as the handle", so that closing the previous one does
\* not remove it (manager.go): the channel of the latest run is open.  (The code
\* does not satisfy this: README, section 8.)
LatestHandleOpen ==
    \A x \in ReaderRuns : readers[x].pc = "on" /\ readers[x].ch = Latest(x[1])
                              /\ ~readers[x].stopped => ~chans[readers[x].ch].closed

\* Topics exist for those who use them and count them, with the latest channel of each
\* source that has no wildcard, and a table is fed as long as it has users
\* (manager.go:60-300, store.go:30-130).
TopicsSound == PubTypeOK /\ LatestAttached /\ TopicKeptInUse /\ TableFed
=============================================================================
