--------------------------- MODULE ConnectionPool ---------------------------
(***************************************************************************)
(* The connection pool: pkg/connection/pool.go and conn.go, as the sources *)
(* and sinks (SourceNode.Run, the connectors' Connect and Close) use it.   *)
(*                                                                         *)
(* A named connection is made by the user and lives until it is dropped.   *)
(* An anonymous one is made by the first node that needs it, in the name   *)
(* of an endpoint, and is closed with its last user.  Each connection is   *)
(* dialled by a goroutine of its own, in the context of whoever made it.   *)
(* The operations of the manager exclude each other; they interleave with  *)
(* the dialling, which takes no lock.                                      *)
(***************************************************************************)
EXTENDS Naturals, Sequences, FiniteSets

CONSTANTS
    Clients,      \* the sources and sinks
    NoClient,     \* nobody: the user's API call, or a free lock
    MaxFetches,   \* bound: times a client is started
    MaxMetas,     \* bound: connections made
    MaxRetries    \* bound: temporary failures of dialling, for each connection

ASSUME ConnAssumption ==
    NoClient \notin Clients /\ {MaxFetches, MaxRetries} \subseteq Nat /\ MaxMetas \in Nat \ {0}

ConnIds == {"named", "endpoint"}

VARIABLES
    metas,     \* every connection made
    connPool,  \* connectionPool: the index in metas for an id, 0 if there is none
    stored,    \* the named connection is in the key-value store
    holder,    \* who holds the lock of the manager between two steps
    clients,
    fetches    \* times a client was started

connVars == <<metas, connPool, stored, holder, clients, fetches>>

Meta == [id      : ConnIds,
         owner   : Clients \cup {NoClient},   \* in whose context it is dialled
         count   : Nat,                       \* refCount
         heard   : SUBSET Clients,            \* ref: whose handlers it calls
         status  : {"connecting", "connected", "disconnected"},
         pc      : {"retry", "dial", "set", "end"},  \* the dialling goroutine
         failed  : BOOLEAN,                   \* dialling ends with an error
         gone    : BOOLEAN,                   \* that context is done
         retries : 0..MaxRetries,
         real    : {"none", "open", "closed"},\* the connection itself
         left    : BOOLEAN]                   \* history: removed while dialled

Client == [pc      : {"idle", "told", "waiting", "has", "error"},
           meta    : 0..MaxMetas,
           stopped : BOOLEAN,       \* its context is done
           seen    : {"connecting", "connected", "disconnected"},
           raced   : BOOLEAN]       \* history: the status changed as it attached

ConnTypeOK ==
    /\ metas \in Seq(Meta) /\ Len(metas) <= MaxMetas
    /\ connPool \in [ConnIds -> 0..Len(metas)]
    /\ stored \in BOOLEAN
    /\ holder \in Clients \cup {NoClient}
    /\ clients \in [Clients -> Client]
    /\ fetches \in 0..MaxFetches
    /\ \A i \in DOMAIN metas : (metas[i].real = "open") => (metas[i].pc \in {"set", "end"})

\* newConnWrapper and the Meta it belongs to.
NewMeta(id, owner) ==
    [id |-> id, owner |-> owner, gone |-> FALSE, count |-> 0, heard |-> {}, status |-> "connecting",
     pc |-> "retry", failed |-> FALSE, retries |-> 0, real |-> "none", left |-> FALSE]

Idle == [pc |-> "idle", meta |-> 0, stopped |-> FALSE, seen |-> "connecting",
         raced |-> FALSE]

\* ReloadNamedConnection brings the stored connection back.
ConnInit ==
    /\ stored \in BOOLEAN
    /\ metas = IF stored THEN <<NewMeta("named", NoClient)>> ELSE << >>
    /\ connPool = [i \in ConnIds |-> IF stored /\ i = "named" THEN 1 ELSE 0]
    /\ holder = NoClient
    /\ clients = [c \in Clients |-> Idle]
    /\ fetches = 0

Attached(c) == clients[c].pc \in {"waiting", "has", "error"}
Users(i)    == {c \in Clients : Attached(c) /\ clients[c].meta = i}
-----------------------------------------------------------------------------
(* Sources and sinks                                                       *)

\* FetchConnection, and AddRef up to the call of the handler.  The id of the
\* reference is the endpoint itself, or one of the node's own for the named
\* connection, which has to exist.  mayMake: only an endpoint is made here.
Fetch(c, id) ==
    LET make == connPool[id] = 0
        i    == IF make THEN Len(metas) + 1 ELSE connPool[id]
        all  == IF make THEN Append(metas, NewMeta(id, c)) ELSE metas IN
    /\ holder = NoClient
    /\ clients[c].pc = "idle" /\ fetches < MaxFetches
    /\ make => id = "endpoint" /\ Len(metas) < MaxMetas
    /\ holder' = c
    /\ metas' = all
    /\ connPool' = [connPool EXCEPT ![id] = i]
    /\ clients' = [clients EXCEPT ![c] =
         [@ EXCEPT !.pc = "told", !.meta = i, !.stopped = FALSE, !.raced = FALSE,
                   !.seen = all[i].status]]
    /\ fetches' = fetches + 1
    /\ UNCHANGED stored

\* The rest of AddRef: the handler is stored under the id of the reference, so
\* that the last user of an endpoint replaces the one before.
AddRef(c) ==
    LET i == clients[c].meta IN
    /\ clients[c].pc = "told"
    /\ metas' = [metas EXCEPT ![i].count = @ + 1,
                    ![i].heard = IF metas[i].id = "named" THEN @ \cup {c} ELSE {c}]
    /\ clients' = [clients EXCEPT ![c].pc = "waiting",
                                  ![c].raced = (clients[c].seen # metas[i].status)]
    /\ holder' = NoClient
    /\ UNCHANGED <<connPool, stored, fetches>>

\* Mutant: a client whose context is done does not come back from Wait.
WaitedAlone(c) ==
    LET i == clients[c].meta IN
    /\ clients[c].pc = "waiting" /\ metas[i].pc = "end" /\ metas[i].owner = c
    /\ clients' = [clients EXCEPT ![c].pc = IF metas[i].failed THEN "error" ELSE "has"]
    /\ UNCHANGED <<metas, connPool, stored, holder, fetches>>

\* Wait returns, as the connection is set.
Waited(c) ==
    LET i == clients[c].meta IN
    /\ clients[c].pc = "waiting" /\ metas[i].pc = "end"
    /\ clients' = [clients EXCEPT ![c].pc = IF metas[i].failed THEN "error" ELSE "has"]
    /\ UNCHANGED <<metas, connPool, stored, holder, fetches>>

\* The rule stops.
StopClient(c) ==
    /\ clients[c].pc # "idle" /\ ~clients[c].stopped
    /\ clients' = [clients EXCEPT ![c].stopped = TRUE]
    /\ metas' = [i \in DOMAIN metas |->
                  [metas[i] EXCEPT !.gone = @ \/ metas[i].owner = c]]
    /\ UNCHANGED <<connPool, stored, holder, fetches>>

\* The connection is closed if it is set without an error; one that is still
\* dialled is left alone.
Removed(m) ==
    IF m.pc # "end" THEN [m EXCEPT !.left = TRUE]
    ELSE IF m.failed THEN m
    ELSE [m EXCEPT !.real = "closed"]

\* Close of a node, when its context is done: a Wait that is still on returns.
\* The name by which DeRef removes the handler (rule, operator, instance) is
\* never the one it was stored under.
Detach(c) ==
    LET i    == clients[c].meta
        m    == [metas[i] EXCEPT !.count = @ - 1]
        last == m.id # "named" /\ m.count = 0 IN
    /\ holder = NoClient
    /\ Attached(c) /\ clients[c].stopped
    /\ metas' = [metas EXCEPT ![i] = IF last THEN Removed(m) ELSE m]
    /\ connPool' = IF last THEN [connPool EXCEPT ![m.id] = 0] ELSE connPool
    /\ clients' = [clients EXCEPT ![c] = Idle]
    /\ UNCHANGED <<stored, holder, fetches>>
-----------------------------------------------------------------------------
(* The user's calls                                                        *)

\* CreateNamedConnection: it is dialled before it is stored; when storing fails
\* nobody holds it.
CreateNamed(fails) ==
    /\ holder = NoClient
    /\ connPool["named"] = 0 /\ Len(metas) < MaxMetas
    /\ metas' = Append(metas, [NewMeta("named", NoClient) EXCEPT !.left = fails])
    /\ connPool' = IF fails THEN connPool
                   ELSE [connPool EXCEPT !["named"] = Len(metas) + 1]
    /\ stored' = ~fails
    /\ UNCHANGED <<holder, clients, fetches>>

\* Mutant: the references are not looked at.
DropNamedInUse ==
    /\ holder = NoClient
    /\ connPool["named"] # 0
    /\ metas' = [metas EXCEPT ![connPool["named"]] = Removed(@)]
    /\ connPool' = [connPool EXCEPT !["named"] = 0]
    /\ stored' = FALSE
    /\ UNCHANGED <<holder, clients, fetches>>

\* DropNameConnection: refused while it is referred to, or when the store fails.
DropNamed ==
    /\ holder = NoClient
    /\ connPool["named"] # 0
    /\ metas[connPool["named"]].count = 0
    /\ metas' = [metas EXCEPT ![connPool["named"]] = Removed(@)]
    /\ connPool' = [connPool EXCEPT !["named"] = 0]
    /\ stored' = FALSE
    /\ UNCHANGED <<holder, clients, fetches>>

\* UpdateConnection drops and creates under one lock.
UpdateNamed(fails) ==
    LET i == connPool["named"] IN
    /\ holder = NoClient
    /\ i # 0 /\ metas[i].count = 0 /\ Len(metas) < MaxMetas
    /\ metas' = Append([metas EXCEPT ![i] = Removed(@)],
                       [NewMeta("named", NoClient) EXCEPT !.left = fails])
    /\ connPool' = [connPool EXCEPT !["named"] = IF fails THEN 0 ELSE Len(metas) + 1]
    /\ stored' = ~fails
    /\ UNCHANGED <<holder, clients, fetches>>
-----------------------------------------------------------------------------
(* The dialling goroutine                                                  *)

\* NotifyStatus tells every handler.
Notified(i, status) ==
    [c \in Clients |-> IF c \in metas[i].heard /\ c \in Users(i)
                       THEN [clients[c] EXCEPT !.seen = status] ELSE clients[c]]

\* The head of the retry loop.  When the context of the maker is done it ends
\* without an error, and without having dialled.
DialStarts(i) ==
    /\ metas[i].pc = "retry"
    /\ IF metas[i].gone
       THEN /\ metas' = [metas EXCEPT ![i].pc = "set"]
            /\ UNCHANGED clients
       ELSE /\ metas' = [metas EXCEPT ![i].pc = "dial", ![i].status = "connecting"]
            /\ clients' = Notified(i, "connecting")
    /\ UNCHANGED <<connPool, stored, holder, fetches>>

\* Dial returns: connected, a temporary error that is retried, or another one.
DialOk(i) ==
    /\ metas[i].pc = "dial"
    /\ metas' = [metas EXCEPT ![i].pc = "set", ![i].status = "connected", ![i].real = "open"]
    /\ clients' = Notified(i, "connected")
    /\ UNCHANGED <<connPool, stored, holder, fetches>>

DialFails(i) ==
    /\ metas[i].pc = "dial"
    /\ \E again \in BOOLEAN :
         /\ again => metas[i].retries < MaxRetries
         /\ metas' = [metas EXCEPT ![i].pc = IF again THEN "retry" ELSE "set",
                                   ![i].status = "disconnected", ![i].failed = ~again,
                                   ![i].retries = IF again THEN @ + 1 ELSE @]
    /\ clients' = Notified(i, "disconnected")
    /\ UNCHANGED <<connPool, stored, holder, fetches>>

\* setConn, and the channel that Wait reads is closed.
SetConn(i) ==
    /\ metas[i].pc = "set"
    /\ metas' = [metas EXCEPT ![i].pc = "end"]
    /\ UNCHANGED <<connPool, stored, holder, clients, fetches>>

Dial(i) == DialStarts(i) \/ DialOk(i) \/ DialFails(i) \/ SetConn(i)
-----------------------------------------------------------------------------
(* Specification                                                           *)

ClientSteps(c) ==
    \/ \E id \in ConnIds : Fetch(c, id)
    \/ AddRef(c) \/ Waited(c) \/ StopClient(c) \/ Detach(c)

ConnNext ==
    \/ \E c \in Clients : ClientSteps(c)
    \/ \E fails \in BOOLEAN : CreateNamed(fails) \/ UpdateNamed(fails)
    \/ DropNamed
    \/ \E i \in DOMAIN metas : Dial(i)

\* Goroutines run on; a dial comes back.  Nobody has to start or stop a rule.
ConnFairness ==
    /\ \A c \in Clients : WF_connVars(AddRef(c)) /\ WF_connVars(Waited(c))
    /\ \A i \in 1..MaxMetas : WF_connVars(i \in DOMAIN metas /\ Dial(i))

ConnSpec == ConnInit /\ [][ConnNext]_connVars /\ ConnFairness
-----------------------------------------------------------------------------
(* Properties                                                              *)

\* As long as a node is attached, its connection is the one in the pool and has
\* not been closed under it, whoever detaches, drops or updates meanwhile; and
\* the count of references is that of the nodes attached.
UsedIsKept ==
    \A i \in DOMAIN metas :
        /\ metas[i].count = Cardinality(Users(i))
        /\ Users(i) # {} => connPool[metas[i].id] = i /\ metas[i].real # "closed"

\* A connection that is out of the pool is closed, unless it was removed before
\* dialling came to an end; an endpoint without users is out of the pool; and
\* the store and the pool agree on the named connection.
RemovedIsClosed ==
    /\ \A i \in DOMAIN metas :
         connPool[metas[i].id] # i /\ metas[i].real = "open" => metas[i].left
    /\ (connPool["endpoint"] # 0 /\ holder = NoClient)
           => Users(connPool["endpoint"]) # {}
    /\ stored = (connPool["named"] # 0)

\* A node knows the status of the connection it uses, unless the status changed
\* while it attached or another node of the endpoint attached after it.
KnowsStatus ==
    \A c \in Clients : Attached(c) =>
        LET m == metas[clients[c].meta] IN
        clients[c].seen = m.status \/ clients[c].raced
            \/ (m.id = "endpoint" /\ c \notin m.heard)

\* A node that waits for a connection gets it or an error, also when the node in
\* whose context it is dialled stops.
WaitEnds == \A c \in Clients : (clients[c].pc = "waiting") ~> (clients[c].pc # "waiting")

\* A connection in use stays open and in the pool, one out of it is closed, and its users
\* know its status, whoever dials, waits, drops or updates (pool.go:60-430).
ConnectionsSound == ConnTypeOK /\ UsedIsKept /\ RemovedIsClosed /\ KnowsStatus
=============================================================================
