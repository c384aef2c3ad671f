---------------------------- MODULE SharedProofs ----------------------------
(***************************************************************************)
(* Proofs about what rules share: a connection in use is kept and one out  *)
(* of the pool is closed, the topics in memory have their users, and a     *)
(* shared stream has the references of its users, tells them when its      *)
(* source fails, and goes with the last of them, for any number of         *)
(* clients, sources, sinks, tables, rules, topologies and subtopologies.   *)
(***************************************************************************)
EXTENDS ConnectionPool, MemoryPubSub, SubTopoPool, FiniteSetTheorems,
        SequenceTheorems, TLAPS

(* The connection pool                                                     *)

\* A connection is open or closed only after it was dialled with success; in the pool it
\* is not closed, and out of it it is closed unless it was left to its dialling goroutine.
MetaInv(i) ==
    LET m == metas[i] IN
    /\ m.pc \in {"retry", "dial"} => m.real = "none" /\ ~m.failed
    /\ m.failed => m.real = "none"
    /\ connPool[m.id] = i => m.real # "closed"
    /\ connPool[m.id] # i => m.left \/ (m.pc = "end" /\ m.real # "open")

\* A connection counts the clients that are attached to it.
CountInv(i) == IsFiniteSet(Users(i)) /\ metas[i].count = Cardinality(Users(i))

\* A client that has fetched a connection has the one of the pool, is called about its
\* status, and knows it.
ClientInv(c) ==
    LET cl == clients[c] IN
    /\ cl.pc = "told" <=> holder = c
    /\ cl.pc # "idle" =>
          cl.meta \in DOMAIN metas /\ connPool[metas[cl.meta].id] = cl.meta
    /\ Attached(c) =>
          /\ metas[cl.meta].id = "named" => c \in metas[cl.meta].heard
          /\ cl.seen = metas[cl.meta].status \/ cl.raced
                \/ (metas[cl.meta].id = "endpoint" /\ c \notin metas[cl.meta].heard)

\* An endpoint is in the pool for somebody.
EndpointInv ==
    connPool["endpoint"] # 0 =>
       \E c \in Clients : clients[c].pc # "idle" /\ clients[c].meta = connPool["endpoint"]

ConnTypes ==
    /\ metas \in Seq(Meta) /\ Len(metas) <= MaxMetas
    /\ connPool \in [ConnIds -> 0..Len(metas)]
    /\ \A id \in ConnIds : connPool[id] # 0 => metas[connPool[id]].id = id
    /\ stored \in BOOLEAN /\ (stored <=> connPool["named"] # 0)
    /\ holder \in Clients \cup {NoClient}
    /\ clients \in [Clients -> Client]
    /\ fetches \in 0..MaxFetches

ConnInv ==
    /\ ConnTypes
    /\ \A i \in DOMAIN metas : MetaInv(i) /\ CountInv(i)
    /\ \A c \in Clients : ClientInv(c)
    /\ EndpointInv

\* What the invariant says of the connections is what the run checks.
LEMMA ConnInvImplies == ConnInv => ConnectionsSound
  <1> SUFFICES ASSUME ConnInv PROVE ConnectionsSound
    OBVIOUS
  <1> USE DEF ConnInv
  <1>1. ConnTypeOK
    <2>1. ASSUME NEW i \in DOMAIN metas, metas[i].real = "open"
          PROVE  metas[i].pc \in {"set", "end"}
      <3>1. metas[i] \in Meta
        BY DEF ConnTypes
      <3> QED BY <2>1, <3>1 DEF MetaInv, Meta
    <2> QED BY <2>1 DEF ConnTypes, ConnTypeOK
  <1>2. UsedIsKept
    <2> SUFFICES ASSUME NEW i \in DOMAIN metas
                 PROVE  /\ metas[i].count = Cardinality(Users(i))
                        /\ Users(i) # {} => connPool[metas[i].id] = i
                                            /\ metas[i].real # "closed"
      BY DEF UsedIsKept
    <2>1. MetaInv(i) /\ CountInv(i)
      OBVIOUS
    <2>2. ASSUME NEW c \in Users(i) PROVE connPool[metas[i].id] = i
      <3>1. c \in Clients /\ clients[c].pc # "idle" /\ clients[c].meta = i
        BY DEF Users, Attached
      <3> QED BY <3>1 DEF ClientInv
    <2> QED BY <2>1, <2>2 DEF MetaInv, CountInv
  <1>3. RemovedIsClosed
    <2>1. ASSUME NEW i \in DOMAIN metas, connPool[metas[i].id] # i, metas[i].real = "open"
          PROVE  metas[i].left
      BY <2>1 DEF MetaInv
    <2>2. ASSUME connPool["endpoint"] # 0, holder = NoClient
          PROVE  Users(connPool["endpoint"]) # {}
      <3>1. PICK c \in Clients :
               clients[c].pc # "idle" /\ clients[c].meta = connPool["endpoint"]
        BY <2>2 DEF EndpointInv
      <3>2. clients[c].pc # "told"
        BY <2>2, ConnAssumption DEF ClientInv
      <3>3. clients[c] \in Client
        BY DEF ConnTypes
      <3>4. Attached(c)
        BY <3>1, <3>2, <3>3 DEF Client, Attached
      <3> QED BY <3>1, <3>4 DEF Users
    <2>3. stored = (connPool["named"] # 0)
      BY DEF ConnTypes
    <2> QED BY <2>1, <2>2, <2>3 DEF RemovedIsClosed
  <1>4. KnowsStatus
    BY DEF KnowsStatus, ClientInv
  <1> QED BY <1>1, <1>2, <1>3, <1>4 DEF ConnectionsSound

\* A step that changes one connection and keeps the pool as it is.
LEMMA OneMetaStep ==
    ASSUME ConnTypes, NEW i \in DOMAIN metas, NEW new \in Meta, new.id = metas[i].id,
           metas' = [metas EXCEPT ![i] = new],
           UNCHANGED <<connPool, stored>>, holder' \in Clients \cup {NoClient},
           clients' \in [Clients -> Client], fetches' \in 0..MaxFetches
    PROVE  /\ ConnTypes'
           /\ DOMAIN metas' = DOMAIN metas /\ metas'[i] = new
           /\ \A j \in DOMAIN metas : j # i => metas'[j] = metas[j]
           /\ \A j \in DOMAIN metas : metas'[j].id = metas[j].id
  <1>1. metas \in Seq(Meta)
    BY DEF ConnTypes
  <1>2. /\ metas' \in Seq(Meta) /\ Len(metas') = Len(metas)
        /\ DOMAIN metas' = DOMAIN metas /\ metas'[i] = new
        /\ \A j \in DOMAIN metas : j # i => metas'[j] = metas[j]
    BY <1>1
  <1>3. \A j \in DOMAIN metas : metas'[j].id = metas[j].id
    BY <1>2
  <1>4. ASSUME NEW id \in ConnIds, connPool'[id] # 0
        PROVE  metas'[connPool'[id]].id = id
    <2>1. connPool[id] \in DOMAIN metas /\ metas[connPool[id]].id = id
      BY <1>1, <1>4 DEF ConnTypes
    <2> QED BY <2>1, <1>3
  <1> QED BY <1>2, <1>3, <1>4 DEF ConnTypes

\* What a step of the dialling goroutine does to its connection and to its users.
DialChange(i, new) ==
    LET m == metas[i] IN
    /\ metas' = [metas EXCEPT ![i] = new]
    /\ new.id = m.id /\ new.count = m.count /\ new.heard = m.heard /\ new.left = m.left
    /\ new.pc \in {"retry", "dial"} => new.real = "none" /\ ~new.failed
    /\ new.failed => new.real = "none"
    /\ m.pc # "end" /\ m.real # "closed" => new.real # "closed"
    /\ m.pc # "end"
    /\ \/ clients' = clients /\ new.status = m.status
       \/ new.status \in {"connecting", "connected", "disconnected"}
             /\ clients' = Notified(i, new.status)

LEMMA DialChanges ==
    ASSUME ConnTypes, NEW i \in DOMAIN metas, MetaInv(i), Dial(i)
    PROVE  \E new \in Meta : DialChange(i, new)
  <1> DEFINE m == metas[i]
  <1>1. m \in Meta
    BY DEF ConnTypes
  <1>2. /\ m.pc \in {"retry", "dial"} => m.real = "none" /\ ~m.failed
        /\ m.failed => m.real = "none"
    BY DEF MetaInv
  <1>3. CASE DialStarts(i) /\ m.gone
    <2> DEFINE new == [m EXCEPT !.pc = "set"]
    <2>1. metas' = [metas EXCEPT ![i] = new] /\ clients' = clients /\ m.pc = "retry"
      BY <1>3 DEF DialStarts
    <2> HIDE DEF m
    <2>2. /\ new \in Meta
          /\ new.id = m.id /\ new.count = m.count /\ new.heard = m.heard
          /\ new.left = m.left /\ new.pc = "set" /\ new.real = m.real
          /\ new.failed = m.failed /\ new.status = m.status
      BY <1>1 DEF Meta
    <2> HIDE DEF new
    <2> QED BY <1>2, <2>1, <2>2 DEF DialChange, m
  <1>4. CASE DialStarts(i) /\ ~m.gone
    <2> DEFINE new == [m EXCEPT !.pc = "dial", !.status = "connecting"]
    <2>1. metas' = [metas EXCEPT ![i] = new] /\ m.pc = "retry"
          /\ clients' = Notified(i, "connecting")
      BY <1>4 DEF DialStarts
    <2> HIDE DEF m
    <2>2. /\ new \in Meta
          /\ new.id = m.id /\ new.count = m.count /\ new.heard = m.heard
          /\ new.left = m.left /\ new.pc = "dial" /\ new.real = m.real
          /\ new.failed = m.failed /\ new.status = "connecting"
      BY <1>1 DEF Meta
    <2> HIDE DEF new
    <2> QED BY <1>2, <2>1, <2>2 DEF DialChange, m
  <1>5. CASE DialOk(i)
    <2> DEFINE new == [m EXCEPT !.pc = "set", !.status = "connected", !.real = "open"]
    <2>1. metas' = [metas EXCEPT ![i] = new] /\ m.pc = "dial"
          /\ clients' = Notified(i, "connected")
      BY <1>5 DEF DialOk
    <2> HIDE DEF m
    <2>2. /\ new \in Meta
          /\ new.id = m.id /\ new.count = m.count /\ new.heard = m.heard
          /\ new.left = m.left /\ new.pc = "set" /\ new.real = "open"
          /\ new.failed = m.failed /\ new.status = "connected"
      BY <1>1 DEF Meta
    <2> HIDE DEF new
    <2> QED BY <1>2, <2>1, <2>2 DEF DialChange, m
  <1>6. CASE DialFails(i)
    <2>1. PICK again \in BOOLEAN :
             /\ again => m.retries < MaxRetries
             /\ metas' = [metas EXCEPT ![i].pc = IF again THEN "retry" ELSE "set",
                                   ![i].status = "disconnected", ![i].failed = ~again,
                                   ![i].retries = IF again THEN @ + 1 ELSE @]
      BY <1>6 DEF DialFails
    <2> DEFINE at == IF again THEN "retry" ELSE "set"
               n  == IF again THEN m.retries + 1 ELSE m.retries
               new == [m EXCEPT !.pc = at, !.status = "disconnected", !.failed = ~again,
                                !.retries = n]
    <2>2. metas' = [metas EXCEPT ![i] = new]
      BY <2>1
    <2>3. m.pc = "dial" /\ clients' = Notified(i, "disconnected")
      BY <1>6 DEF DialFails
    <2>4. n \in 0..MaxRetries /\ at \in {"retry", "set"} /\ (at = "retry" => again)
      BY <1>1, <2>1, ConnAssumption DEF Meta
    <2> HIDE DEF m, at, n
    <2>5. /\ new \in Meta
          /\ new.id = m.id /\ new.count = m.count /\ new.heard = m.heard
          /\ new.left = m.left /\ new.pc = at /\ new.real = m.real
          /\ new.failed = ~again /\ new.status = "disconnected"
      BY <1>1, <2>4 DEF Meta
    <2> HIDE DEF new
    <2> QED BY <1>2, <2>2, <2>3, <2>4, <2>5 DEF DialChange, m
  <1>7. CASE SetConn(i)
    <2> DEFINE new == [m EXCEPT !.pc = "end"]
    <2>1. metas' = [metas EXCEPT ![i] = new] /\ clients' = clients /\ m.pc = "set"
      BY <1>7 DEF SetConn
    <2> HIDE DEF m
    <2>2. /\ new \in Meta
          /\ new.id = m.id /\ new.count = m.count /\ new.heard = m.heard
          /\ new.left = m.left /\ new.pc = "end" /\ new.real = m.real
          /\ new.failed = m.failed /\ new.status = m.status
      BY <1>1 DEF Meta
    <2> HIDE DEF new
    <2> QED BY <1>2, <2>1, <2>2 DEF DialChange, m
  <1> QED BY <1>3, <1>4, <1>5, <1>6, <1>7 DEF Dial

LEMMA NotifiedFields ==
    ASSUME clients \in [Clients -> Client], NEW i \in Nat,
           NEW status \in {"connecting", "connected", "disconnected"}
    PROVE  /\ Notified(i, status) \in [Clients -> Client]
           /\ \A c \in Clients :
                /\ Notified(i, status)[c].pc = clients[c].pc
                /\ Notified(i, status)[c].meta = clients[c].meta
                /\ Notified(i, status)[c].raced = clients[c].raced
                /\ Notified(i, status)[c].seen =
                      IF c \in metas[i].heard /\ c \in Users(i) THEN status
                      ELSE clients[c].seen
  <1> SUFFICES ASSUME NEW c \in Clients
               PROVE  /\ Notified(i, status)[c] \in Client
                      /\ Notified(i, status)[c].pc = clients[c].pc
                      /\ Notified(i, status)[c].meta = clients[c].meta
                      /\ Notified(i, status)[c].raced = clients[c].raced
                      /\ Notified(i, status)[c].seen =
                            IF c \in metas[i].heard /\ c \in Users(i) THEN status
                            ELSE clients[c].seen
    BY DEF Notified
  <1> DEFINE cl == clients[c]
             told == [cl EXCEPT !.seen = status]
             here == c \in metas[i].heard /\ c \in Users(i)
  <1>1. Notified(i, status)[c] = IF here THEN told ELSE cl
    BY DEF Notified
  <1>2. cl \in Client
    OBVIOUS
  <1> HIDE DEF cl, here
  <1>3. /\ told \in Client /\ told.pc = cl.pc /\ told.meta = cl.meta
        /\ told.raced = cl.raced /\ told.seen = status
    BY <1>2 DEF Client
  <1> HIDE DEF told
  <1>4. /\ Notified(i, status)[c] \in Client
        /\ Notified(i, status)[c].pc = cl.pc
        /\ Notified(i, status)[c].meta = cl.meta
        /\ Notified(i, status)[c].raced = cl.raced
        /\ Notified(i, status)[c].seen = IF here THEN status ELSE cl.seen
    BY <1>1, <1>2, <1>3
  <1> QED BY <1>4 DEF cl, here

\* A step that leaves everybody where he is leaves a connection its users.
LEMMA SameUsers ==
    ASSUME \A c \in Clients : clients'[c].pc = clients[c].pc /\ clients'[c].meta = clients[c].meta
    PROVE  /\ \A c \in Clients : Attached(c)' <=> Attached(c)
           /\ \A i : Users(i)' = Users(i)
  BY DEF Attached, Users

LEMMA DialStep ==
    ASSUME ConnInv, NEW i \in DOMAIN metas, Dial(i)
    PROVE  ConnInv'
  <1>1. ConnTypes /\ MetaInv(i) /\ EndpointInv /\ i \in Nat
    <2>1. metas \in Seq(Meta)
      BY DEF ConnInv, ConnTypes
    <2> QED BY <2>1 DEF ConnInv
  <1>2. PICK new \in Meta : DialChange(i, new)
    BY <1>1, DialChanges
  <1>3. UNCHANGED <<connPool, stored, holder, fetches>>
    BY DEF Dial, DialStarts, DialOk, DialFails, SetConn
  <1>4. /\ clients' \in [Clients -> Client]
        /\ \A c \in Clients :
             /\ clients'[c].pc = clients[c].pc
             /\ clients'[c].meta = clients[c].meta
             /\ clients'[c].raced = clients[c].raced
             /\ clients'[c].seen = clients[c].seen
                   \/ (clients'[c].seen = new.status /\ c \in Users(i))
             /\ c \in metas[i].heard /\ c \in Users(i) =>
                   clients'[c].seen = new.status
                      \/ (clients' = clients /\ new.status = metas[i].status)
    <2>1. CASE clients' = clients /\ new.status = metas[i].status
      BY <2>1, <1>1 DEF ConnTypes
    <2>2. CASE clients' = Notified(i, new.status)
      <3>1. new.status \in {"connecting", "connected", "disconnected"}
        BY DEF Meta
      <3> QED BY <1>1, <2>2, <3>1, NotifiedFields DEF ConnTypes
    <2> QED BY <1>2, <2>1, <2>2 DEF DialChange
  <1>5. /\ ConnTypes'
        /\ DOMAIN metas' = DOMAIN metas /\ metas'[i] = new
        /\ \A j \in DOMAIN metas : j # i => metas'[j] = metas[j]
        /\ \A j \in DOMAIN metas : metas'[j].id = metas[j].id
    <2>1. new.id = metas[i].id /\ metas' = [metas EXCEPT ![i] = new]
      BY <1>2 DEF DialChange
    <2>2. holder' \in Clients \cup {NoClient} /\ fetches' \in 0..MaxFetches
      BY <1>1, <1>3 DEF ConnTypes
    <2> QED BY <1>1, <1>3, <1>4, <2>1, <2>2, OneMetaStep
  <1>6. /\ \A c \in Clients : Attached(c)' <=> Attached(c)
        /\ \A j : Users(j)' = Users(j)
    BY <1>4, SameUsers
  <1>7. ASSUME NEW j \in DOMAIN metas'
        PROVE  MetaInv(j)' /\ CountInv(j)'
    <2>1. j \in DOMAIN metas /\ MetaInv(j) /\ CountInv(j)
      BY <1>5 DEF ConnInv
    <2>2. metas'[j].count = metas[j].count
      BY <1>2, <1>5, <2>1 DEF DialChange
    <2>3. CountInv(j)'
      BY <1>6, <2>1, <2>2 DEF CountInv
    <2>4. CASE j # i
      BY <1>3, <1>5, <2>1, <2>3, <2>4 DEF MetaInv
    <2>5. CASE j = i
      <3>1. /\ new.pc \in {"retry", "dial"} => new.real = "none" /\ ~new.failed
            /\ new.failed => new.real = "none"
            /\ metas[i].pc # "end" /\ metas[i].real # "closed" => new.real # "closed"
            /\ metas[i].pc # "end" /\ new.left = metas[i].left /\ new.id = metas[i].id
        BY <1>2 DEF DialChange
      <3> QED BY <1>3, <1>5, <2>1, <2>3, <2>5, <3>1 DEF MetaInv
    <2> QED BY <2>4, <2>5
  <1>8. ASSUME NEW c \in Clients
        PROVE  ClientInv(c)'
    <2>1. ClientInv(c)
      BY DEF ConnInv
    <2>2. clients'[c].pc = "told" <=> holder' = c
      BY <1>3, <1>4, <2>1 DEF ClientInv
    <2>3. clients'[c].pc # "idle" =>
             /\ clients'[c].meta \in DOMAIN metas'
             /\ connPool'[metas'[clients'[c].meta].id] = clients'[c].meta
      BY <1>3, <1>4, <1>5, <2>1 DEF ClientInv
    <2>4. ASSUME Attached(c)'
          PROVE  /\ metas'[clients'[c].meta].id = "named" => c \in metas'[clients'[c].meta].heard
                 /\ \/ clients'[c].seen = metas'[clients'[c].meta].status
                    \/ clients'[c].raced
                    \/ metas'[clients'[c].meta].id = "endpoint"
                          /\ c \notin metas'[clients'[c].meta].heard
      <3> DEFINE k == clients[c].meta
      <3>1. Attached(c) /\ clients'[c].meta = k /\ clients'[c].raced = clients[c].raced
        BY <1>4, <1>6, <2>4
      <3>2. k \in DOMAIN metas /\ c \in Users(k)
        BY <2>1, <3>1 DEF ClientInv, Attached, Users
      <3>3. /\ metas[k].id = "named" => c \in metas[k].heard
            /\ clients[c].seen = metas[k].status \/ clients[c].raced
                  \/ (metas[k].id = "endpoint" /\ c \notin metas[k].heard)
        BY <2>1, <3>1 DEF ClientInv
      <3> HIDE DEF k
      <3>4. CASE k # i
        <4>1. c \notin Users(i)
          BY <3>4 DEF Users, k
        <4>2. clients'[c].seen = clients[c].seen /\ metas'[k] = metas[k]
          BY <1>4, <1>5, <3>2, <3>4, <4>1
        <4> QED BY <3>1, <3>3, <4>2
      <3>5. CASE k = i
        <4>1. metas'[k].id = metas[k].id /\ metas'[k].heard = metas[k].heard
              /\ metas'[k].status = new.status
          BY <1>2, <1>5, <3>5 DEF DialChange
        <4>2. CASE c \in metas[k].heard
          <5>1. \/ clients'[c].seen = new.status
                \/ clients'[c].seen = clients[c].seen /\ new.status = metas[k].status
            BY <1>4, <3>2, <3>5, <4>2
          <5> QED BY <3>1, <3>3, <4>1, <4>2, <5>1
        <4>3. CASE c \notin metas[k].heard
          <5>1. metas[k] \in Meta
            BY <1>1, <3>2 DEF ConnTypes
          <5>2. metas[k].id = "endpoint"
            BY <3>3, <4>3, <5>1 DEF Meta, ConnIds
          <5> QED BY <3>1, <3>3, <4>1, <4>3, <5>2
        <4> QED BY <4>2, <4>3
      <3> QED BY <3>4, <3>5
    <2> QED BY <2>2, <2>3, <2>4 DEF ClientInv
  <1>9. EndpointInv'
    BY <1>1, <1>3, <1>4 DEF EndpointInv
  <1> QED BY <1>5, <1>7, <1>8, <1>9 DEF ConnInv

\* What a step leaves as it is, of a connection and of a client, so that the invariant stays.
SameMeta(i) ==
    LET m == metas[i] n == metas'[i] IN
    /\ n.id = m.id /\ n.count = m.count /\ n.heard = m.heard /\ n.status = m.status
    /\ n.pc = m.pc /\ n.failed = m.failed /\ n.real = m.real /\ n.left = m.left

SameClient(c) ==
    LET cl == clients[c] n == clients'[c] IN
    /\ n.meta = cl.meta /\ n.raced = cl.raced /\ n.seen = cl.seen
    /\ n.pc = "told" <=> cl.pc = "told"
    /\ n.pc = "idle" <=> cl.pc = "idle"

LEMMA SameStep ==
    ASSUME ConnInv, metas' \in Seq(Meta), Len(metas') = Len(metas),
           \A i \in DOMAIN metas : SameMeta(i),
           clients' \in [Clients -> Client], \A c \in Clients : SameClient(c),
           UNCHANGED <<connPool, stored, holder, fetches>>
    PROVE  ConnInv'
  <1>1. ConnTypes /\ EndpointInv /\ metas \in Seq(Meta) /\ DOMAIN metas' = DOMAIN metas
        /\ clients \in [Clients -> Client]
    BY DEF ConnInv, ConnTypes
  <1>2. ConnTypes'
    <2>1. ASSUME NEW id \in ConnIds, connPool'[id] # 0
          PROVE  metas'[connPool'[id]].id = id
      <3>1. connPool[id] \in DOMAIN metas /\ metas[connPool[id]].id = id
        BY <1>1, <2>1 DEF ConnTypes
      <3> QED BY <3>1 DEF SameMeta
    <2> QED BY <1>1, <2>1 DEF ConnTypes
  <1>3. \A c \in Clients : Attached(c)' <=> Attached(c)
    <2> SUFFICES ASSUME NEW c \in Clients PROVE Attached(c)' <=> Attached(c)
      OBVIOUS
    <2>1. clients[c].pc \in {"idle", "told", "waiting", "has", "error"}
          /\ clients'[c].pc \in {"idle", "told", "waiting", "has", "error"}
      <3>1. clients[c] \in Client /\ clients'[c] \in Client
        BY <1>1
      <3> QED BY <3>1 DEF Client
    <2> QED BY <2>1 DEF SameClient, Attached
  <1>4. \A j : Users(j)' = Users(j)
    BY <1>3 DEF Users, SameClient
  <1>5. \A j \in DOMAIN metas' : MetaInv(j)' /\ CountInv(j)'
    BY <1>1, <1>4 DEF ConnInv, MetaInv, CountInv, SameMeta
  <1>6. ASSUME NEW c \in Clients
        PROVE  ClientInv(c)'
    <2> DEFINE k == clients[c].meta
    <2>1. ClientInv(c) /\ SameClient(c) /\ clients'[c].meta = k
      BY DEF ConnInv, SameClient
    <2>2. clients'[c].pc = "told" <=> holder' = c
      BY <2>1 DEF ClientInv, SameClient
    <2>3. ASSUME clients'[c].pc # "idle"
          PROVE  k \in DOMAIN metas' /\ connPool'[metas'[k].id] = k /\ SameMeta(k)
      <3>1. k \in DOMAIN metas /\ connPool[metas[k].id] = k
        BY <2>1, <2>3 DEF ClientInv, SameClient
      <3>2. SameMeta(k)
        BY <3>1
      <3> QED BY <1>1, <3>1, <3>2 DEF SameMeta
    <2>4. ASSUME Attached(c)'
          PROVE  /\ metas'[k].id = "named" => c \in metas'[k].heard
                 /\ clients'[c].seen = metas'[k].status \/ clients'[c].raced
                      \/ (metas'[k].id = "endpoint" /\ c \notin metas'[k].heard)
      <3>1. Attached(c) /\ SameMeta(k)
        BY <1>3, <2>3, <2>4 DEF Attached
      <3>2. /\ metas[k].id = "named" => c \in metas[k].heard
            /\ clients[c].seen = metas[k].status \/ clients[c].raced
                 \/ (metas[k].id = "endpoint" /\ c \notin metas[k].heard)
        BY <2>1, <3>1 DEF ClientInv
      <3> HIDE DEF k
      <3> QED BY <2>1, <3>1, <3>2 DEF SameMeta, SameClient
    <2> HIDE DEF k
    <2> QED BY <2>1, <2>2, <2>3, <2>4 DEF ClientInv
  <1>7. EndpointInv'
    BY <1>1 DEF EndpointInv, SameClient
  <1> QED BY <1>2, <1>5, <1>6, <1>7 DEF ConnInv

\* One client is another.
LEMMA OneClient ==
    ASSUME clients \in [Clients -> Client], NEW c \in Clients, NEW new \in Client,
           clients' = [clients EXCEPT ![c] = new]
    PROVE  /\ clients' \in [Clients -> Client] /\ clients'[c] = new
           /\ \A d \in Clients : d # c => clients'[d] = clients[d]
  OBVIOUS

LEMMA WaitedStep ==
    ASSUME ConnInv, NEW c \in Clients, Waited(c)
    PROVE  ConnInv'
  <1> DEFINE cl  == clients[c]
             at  == IF metas[cl.meta].failed THEN "error" ELSE "has"
             new == [cl EXCEPT !.pc = at]
  <1>1. clients \in [Clients -> Client] /\ metas \in Seq(Meta)
    BY DEF ConnInv, ConnTypes
  <1>2. cl \in Client
    BY <1>1
  <1>3. clients' = [clients EXCEPT ![c] = new] /\ cl.pc = "waiting"
    BY DEF Waited
  <1>4. at \in {"error", "has"}
    OBVIOUS
  <1> HIDE DEF cl, at
  <1>5. /\ new \in Client /\ new.meta = cl.meta /\ new.raced = cl.raced
        /\ new.seen = cl.seen /\ new.pc = at
    BY <1>2, <1>4 DEF Client
  <1> HIDE DEF new
  <1>6. /\ clients' \in [Clients -> Client] /\ clients'[c] = new
        /\ \A d \in Clients : d # c => clients'[d] = clients[d]
    BY <1>1, <1>3, <1>5, OneClient
  <1>7. \A d \in Clients : SameClient(d)
    BY <1>3, <1>4, <1>5, <1>6 DEF SameClient, cl
  <1>8. UNCHANGED <<metas, connPool, stored, holder, fetches>>
    BY DEF Waited
  <1>9. \A i \in DOMAIN metas : SameMeta(i)
    BY <1>8 DEF SameMeta
  <1>10. metas' \in Seq(Meta) /\ Len(metas') = Len(metas)
    BY <1>1, <1>8
  <1> QED BY <1>6, <1>7, <1>8, <1>9, <1>10, SameStep

LEMMA StopClientStep ==
    ASSUME ConnInv, NEW c \in Clients, StopClient(c)
    PROVE  ConnInv'
  <1>1. clients \in [Clients -> Client] /\ metas \in Seq(Meta)
    BY DEF ConnInv, ConnTypes
  <1>2. /\ clients' \in [Clients -> Client]
        /\ \A d \in Clients : SameClient(d)
    <2> DEFINE cl == clients[c]
               new == [cl EXCEPT !.stopped = TRUE]
    <2>1. cl \in Client
      BY <1>1
    <2>2. clients' = [clients EXCEPT ![c] = new]
      BY DEF StopClient
    <2> HIDE DEF cl
    <2>3. /\ new \in Client /\ new.meta = cl.meta /\ new.raced = cl.raced
          /\ new.seen = cl.seen /\ new.pc = cl.pc
      BY <2>1 DEF Client
    <2> HIDE DEF new
    <2>4. /\ clients' \in [Clients -> Client] /\ clients'[c] = new
          /\ \A d \in Clients : d # c => clients'[d] = clients[d]
      BY <1>1, <2>2, <2>3, OneClient
    <2> QED BY <2>3, <2>4 DEF SameClient, cl
  <1>3. /\ DOMAIN metas' = DOMAIN metas
        /\ \A i \in DOMAIN metas : metas'[i] \in Meta /\ SameMeta(i)
    <2>1. metas' = [i \in DOMAIN metas |->
                      [metas[i] EXCEPT !.gone = @ \/ metas[i].owner = c]]
      BY DEF StopClient
    <2> SUFFICES ASSUME NEW i \in DOMAIN metas PROVE metas'[i] \in Meta /\ SameMeta(i)
      BY <2>1
    <2> DEFINE m == metas[i]
               g == m.gone \/ m.owner = c
               new == [m EXCEPT !.gone = g]
    <2>2. m \in Meta /\ g \in BOOLEAN
      BY <1>1
    <2>3. metas'[i] = new
      BY <2>1
    <2> HIDE DEF m, g
    <2>4. /\ new \in Meta
          /\ new.id = m.id /\ new.count = m.count /\ new.heard = m.heard
          /\ new.status = m.status /\ new.pc = m.pc /\ new.failed = m.failed
          /\ new.real = m.real /\ new.left = m.left
      BY <2>2 DEF Meta
    <2> HIDE DEF new
    <2> QED BY <2>3, <2>4 DEF SameMeta, m
  <1>4. metas' \in Seq(Meta) /\ Len(metas') = Len(metas)
    <2>1. metas' = [i \in DOMAIN metas |-> metas'[i]]
      BY DEF StopClient
    <2>2. \E n \in Nat : DOMAIN metas = 1..n
      BY <1>1
    <2> QED BY <1>1, <1>3, <2>1, <2>2
  <1>5. UNCHANGED <<connPool, stored, holder, fetches>>
    BY DEF StopClient
  <1> QED BY <1>2, <1>3, <1>4, <1>5, SameStep

LEMMA AddRefStep ==
    ASSUME ConnInv, NEW c \in Clients, AddRef(c), NEW i, i = clients[c].meta
    PROVE  ConnInv'
  <1> DEFINE cl  == clients[c]
             m   == metas[i]
             H   == IF m.id = "named" THEN m.heard \cup {c} ELSE {c}
             n   == m.count + 1
             new == [m EXCEPT !.count = n, !.heard = H]
             r   == cl.seen # m.status
             ncl == [cl EXCEPT !.pc = "waiting", !.raced = r]
  <1>1. ConnTypes /\ EndpointInv /\ clients \in [Clients -> Client] /\ metas \in Seq(Meta)
        /\ connPool \in [ConnIds -> 0..Len(metas)]
    BY DEF ConnInv, ConnTypes
  <1>2. cl \in Client /\ cl.pc = "told" /\ holder = c /\ i \in DOMAIN metas
        /\ connPool[m.id] = i
    <2>1. cl.pc = "told" /\ ClientInv(c)
      BY DEF AddRef, ConnInv
    <2> QED BY <1>1, <2>1 DEF ClientInv
  <1>3. m \in Meta /\ MetaInv(i) /\ CountInv(i)
    BY <1>1, <1>2 DEF ConnInv
  <1>4. metas' = [metas EXCEPT ![i] = new] /\ clients' = [clients EXCEPT ![c] = ncl]
        /\ holder' = NoClient /\ UNCHANGED <<connPool, stored, fetches>>
    BY DEF AddRef
  <1>5. H \in SUBSET Clients /\ n \in Nat /\ r \in BOOLEAN
    BY <1>3 DEF Meta
  <1>6. /\ new \in Meta /\ new.id = m.id /\ new.count = n /\ new.heard = H
        /\ new.status = m.status /\ new.pc = m.pc /\ new.failed = m.failed
        /\ new.real = m.real /\ new.left = m.left
    <2> HIDE DEF m, n, H
    <2> QED BY <1>3, <1>5 DEF Meta
  <1>7. /\ ncl \in Client /\ ncl.pc = "waiting" /\ ncl.meta = i /\ ncl.seen = cl.seen
        /\ ncl.raced = r
    <2>1. i = cl.meta
      OBVIOUS
    <2> HIDE DEF cl, r
    <2> QED BY <1>2, <1>5, <2>1 DEF Client
  <1> HIDE DEF new, ncl
  <1>8. /\ clients' \in [Clients -> Client] /\ clients'[c] = ncl
        /\ \A d \in Clients : d # c => clients'[d] = clients[d]
    BY <1>1, <1>4, <1>7, OneClient
  <1>9. /\ ConnTypes'
        /\ DOMAIN metas' = DOMAIN metas /\ metas'[i] = new
        /\ \A j \in DOMAIN metas : j # i => metas'[j] = metas[j]
        /\ \A j \in DOMAIN metas : metas'[j].id = metas[j].id
    <2>1. holder' \in Clients \cup {NoClient} /\ fetches' \in 0..MaxFetches
      BY <1>1, <1>4 DEF ConnTypes
    <2> QED BY <1>1, <1>2, <1>4, <1>6, <1>8, <2>1, OneMetaStep
  <1>10. /\ Users(i)' = Users(i) \cup {c} /\ c \notin Users(i)
         /\ \A j : j # i => Users(j)' = Users(j)
    <2>1. \A j : c \notin Users(j)
      BY <1>2 DEF Users, Attached
    <2>2. \A j : \A d \in Clients : d # c => (d \in Users(j)' <=> d \in Users(j))
      BY <1>8 DEF Users, Attached
    <2>3. \A j : c \in Users(j)' <=> j = i
      BY <1>7, <1>8 DEF Users, Attached
    <2>4. \A j : Users(j) \subseteq Clients /\ Users(j)' \subseteq Clients
      BY DEF Users
    <2>5. ASSUME NEW j, j # i PROVE Users(j)' = Users(j)
      <3>1. c \notin Users(j) /\ c \notin Users(j)'
        BY <2>1, <2>3, <2>5
      <3>2. \A d \in Clients : d \in Users(j)' <=> d \in Users(j)
        BY <2>2, <3>1
      <3> QED BY <2>4, <3>2
    <2>6. Users(i)' = Users(i) \cup {c}
      <3>1. \A d \in Clients : d \in Users(i)' <=> d \in Users(i) \/ d = c
        BY <2>2, <2>3
      <3> QED BY <2>4, <3>1
    <2> QED BY <2>1, <2>5, <2>6
  <1>11. CountInv(i)'
    <2>1. IsFiniteSet(Users(i)) /\ m.count = Cardinality(Users(i))
      BY <1>3 DEF CountInv
    <2>2. /\ IsFiniteSet(Users(i) \cup {c})
          /\ Cardinality(Users(i) \cup {c}) = Cardinality(Users(i)) + 1
      BY <1>10, <2>1, FS_AddElement
    <2>3. metas'[i].count = Cardinality(Users(i)) + 1
      BY <1>6, <1>9, <2>1
    <2> QED BY <1>10, <2>2, <2>3 DEF CountInv
  <1>12. ASSUME NEW j \in DOMAIN metas'
         PROVE  MetaInv(j)' /\ CountInv(j)'
    <2>1. j \in DOMAIN metas /\ MetaInv(j) /\ CountInv(j)
      BY <1>9 DEF ConnInv
    <2>2. CASE j = i
      <3>1. MetaInv(i)'
        BY <1>3, <1>4, <1>6, <1>9 DEF MetaInv
      <3> QED BY <2>2, <3>1, <1>11
    <2>3. CASE j # i
      BY <2>1, <2>3, <1>4, <1>9, <1>10 DEF MetaInv, CountInv
    <2> QED BY <2>2, <2>3
  <1>13. ASSUME NEW d \in Clients
         PROVE  ClientInv(d)'
    <2>1. CASE d = c
      <3>1. clients'[d].pc = "waiting" /\ clients'[d].meta = i /\ holder' # d
        BY <1>4, <1>7, <1>8, <2>1, ConnAssumption
      <3>2. /\ i \in DOMAIN metas' /\ connPool'[metas'[i].id] = i
            /\ metas'[i].id = m.id /\ metas'[i].heard = H /\ metas'[i].status = m.status
            /\ clients'[d].raced = r /\ clients'[d].seen = cl.seen
        BY <1>2, <1>4, <1>6, <1>7, <1>8, <1>9, <2>1
      <3>3. c \in H
        OBVIOUS
      <3>4. cl.seen = m.status \/ r
        OBVIOUS
      <3> HIDE DEF H, m, r, cl
      <3> QED BY <2>1, <3>1, <3>2, <3>3, <3>4 DEF ClientInv
    <2>2. CASE d # c
      <3> DEFINE k == clients[d].meta
      <3>1. ClientInv(d) /\ clients'[d] = clients[d] /\ clients'[d].meta = k
        BY <1>8, <2>2 DEF ConnInv
      <3>2. clients[d].pc # "told" /\ holder' # d
        BY <1>2, <1>4, <2>2, <3>1, ConnAssumption DEF ClientInv
      <3>3. ASSUME clients[d].pc # "idle"
            PROVE  k \in DOMAIN metas /\ k \in DOMAIN metas' /\ connPool'[metas'[k].id] = k
        BY <1>4, <1>9, <3>1, <3>3 DEF ClientInv
      <3>4. ASSUME Attached(d)'
            PROVE  /\ metas'[k].id = "named" => d \in metas'[k].heard
                   /\ clients'[d].seen = metas'[k].status \/ clients'[d].raced
                        \/ (metas'[k].id = "endpoint" /\ d \notin metas'[k].heard)
        <4>1. Attached(d) /\ k \in DOMAIN metas
          BY <3>1, <3>3, <3>4 DEF Attached
        <4>2. /\ metas[k].id = "named" => d \in metas[k].heard
              /\ clients[d].seen = metas[k].status \/ clients[d].raced
                   \/ (metas[k].id = "endpoint" /\ d \notin metas[k].heard)
          BY <3>1, <4>1 DEF ClientInv
        <4> HIDE DEF k
        <4>3. CASE k # i
          BY <1>9, <3>1, <4>1, <4>2, <4>3
        <4>4. CASE k = i
          <5>1. metas'[k].id = m.id /\ metas'[k].heard = H /\ metas'[k].status = m.status
            BY <1>6, <1>9, <4>4
          <5>2. m.id \in ConnIds
            BY <1>3 DEF Meta
          <5>3. CASE m.id = "named"
            <6>1. H = m.heard \cup {c}
              BY <5>3
            <6> HIDE DEF H
            <6> QED BY <3>1, <4>2, <4>4, <5>1, <5>3, <6>1
          <5>4. CASE m.id = "endpoint"
            <6>1. H = {c}
              BY <5>4
            <6> HIDE DEF H
            <6> QED BY <2>2, <5>1, <5>4, <6>1
          <5> QED BY <5>2, <5>3, <5>4 DEF ConnIds
        <4> QED BY <4>3, <4>4
      <3> HIDE DEF k
      <3> QED BY <3>1, <3>2, <3>3, <3>4 DEF ClientInv
    <2> QED BY <2>1, <2>2
  <1>14. EndpointInv'
    <2>1. ASSUME connPool'["endpoint"] # 0
          PROVE  \E d \in Clients : clients'[d].pc # "idle"
                                    /\ clients'[d].meta = connPool'["endpoint"]
      <3>1. PICK d \in Clients :
               clients[d].pc # "idle" /\ clients[d].meta = connPool["endpoint"]
        BY <1>1, <1>4, <2>1 DEF EndpointInv
      <3>2. clients'[d].pc # "idle" /\ clients'[d].meta = clients[d].meta
        <4>1. CASE d = c
          BY <1>7, <1>8, <4>1
        <4>2. CASE d # c
          BY <1>8, <3>1, <4>2
        <4> QED BY <4>1, <4>2
      <3> QED BY <1>4, <3>1, <3>2
    <2> QED BY <2>1 DEF EndpointInv
  <1> QED BY <1>9, <1>12, <1>13, <1>14 DEF ConnInv

\* What becomes of a connection that leaves the pool.
LEMMA RemovedMeta ==
    ASSUME NEW m \in Meta
    PROVE  /\ Removed(m) \in Meta
           /\ Removed(m).id = m.id /\ Removed(m).count = m.count
           /\ Removed(m).heard = m.heard /\ Removed(m).status = m.status
           /\ Removed(m).pc = m.pc /\ Removed(m).failed = m.failed
           /\ m.pc # "end" => Removed(m).left /\ Removed(m).real = m.real
           /\ m.pc = "end" /\ m.failed => Removed(m).real = m.real
           /\ m.pc = "end" /\ ~m.failed => Removed(m).real = "closed"
  <1>1. CASE m.pc # "end"
    <2> DEFINE new == [m EXCEPT !.left = TRUE]
    <2>1. Removed(m) = new
      BY <1>1 DEF Removed
    <2>2. /\ new \in Meta /\ new.id = m.id /\ new.count = m.count /\ new.heard = m.heard
          /\ new.status = m.status /\ new.pc = m.pc /\ new.failed = m.failed
          /\ new.left /\ new.real = m.real
      BY DEF Meta
    <2> HIDE DEF new
    <2> QED BY <1>1, <2>1, <2>2
  <1>2. CASE m.pc = "end" /\ m.failed
    <2>1. Removed(m) = m
      BY <1>2 DEF Removed
    <2> QED BY <1>2, <2>1
  <1>3. CASE m.pc = "end" /\ ~m.failed
    <2> DEFINE new == [m EXCEPT !.real = "closed"]
    <2>1. Removed(m) = new
      BY <1>3 DEF Removed
    <2>2. /\ new \in Meta /\ new.id = m.id /\ new.count = m.count /\ new.heard = m.heard
          /\ new.status = m.status /\ new.pc = m.pc /\ new.failed = m.failed
          /\ new.real = "closed"
      BY DEF Meta
    <2> HIDE DEF new
    <2> QED BY <1>3, <2>1, <2>2
  <1>4. m.failed \in BOOLEAN
    BY DEF Meta
  <1> QED BY <1>1, <1>2, <1>3, <1>4

LEMMA DetachStep ==
    ASSUME ConnInv, NEW c \in Clients, Detach(c), NEW i, i = clients[c].meta
    PROVE  ConnInv'
  <1> DEFINE m    == [metas[i] EXCEPT !.count = @ - 1]
             last == m.id # "named" /\ m.count = 0
             new  == IF last THEN Removed(m) ELSE m
  <1>1. ConnTypes /\ EndpointInv /\ clients \in [Clients -> Client] /\ metas \in Seq(Meta)
        /\ connPool \in [ConnIds -> 0..Len(metas)]
    BY DEF ConnInv, ConnTypes
  <1>2. Attached(c) /\ ClientInv(c) /\ clients[c].pc # "idle" /\ holder = NoClient
    BY DEF Detach, Attached, ConnInv
  <1>3. i \in DOMAIN metas /\ connPool[metas[i].id] = i /\ c \in Users(i)
    BY <1>2 DEF ClientInv, Users
  <1>4. metas[i] \in Meta /\ metas[i].id \in ConnIds /\ MetaInv(i) /\ CountInv(i)
    <2>1. metas[i] \in Meta
      BY <1>1, <1>3
    <2> QED BY <1>3, <2>1 DEF ConnInv, Meta
  <1>5. /\ IsFiniteSet(Users(i) \ {c})
        /\ Cardinality(Users(i) \ {c}) = metas[i].count - 1
        /\ metas[i].count - 1 \in Nat
    <2>1. IsFiniteSet(Users(i)) /\ metas[i].count = Cardinality(Users(i))
      BY <1>4 DEF CountInv
    <2>2. IsFiniteSet(Users(i) \ {c})
          /\ Cardinality(Users(i) \ {c}) = Cardinality(Users(i)) - 1
      BY <1>3, <2>1, FS_RemoveElement
    <2>3. Cardinality(Users(i) \ {c}) \in Nat
      BY <2>2, FS_CardinalityType
    <2> QED BY <2>1, <2>2, <2>3
  <1>6. /\ m \in Meta /\ m.id = metas[i].id /\ m.count = metas[i].count - 1
        /\ m.heard = metas[i].heard /\ m.status = metas[i].status /\ m.pc = metas[i].pc
        /\ m.failed = metas[i].failed /\ m.real = metas[i].real /\ m.left = metas[i].left
    <2> DEFINE n == metas[i].count - 1
               o == metas[i]
    <2>1. m = [o EXCEPT !.count = n]
      OBVIOUS
    <2>2. n \in Nat /\ o \in Meta
      BY <1>4, <1>5
    <2> HIDE DEF n, o, m
    <2>3. /\ m \in Meta /\ m.id = o.id /\ m.count = n
          /\ m.heard = o.heard /\ m.status = o.status /\ m.pc = o.pc
          /\ m.failed = o.failed /\ m.real = o.real /\ m.left = o.left
      BY <2>1, <2>2 DEF Meta
    <2> QED BY <2>3 DEF n, o
  <1>7. /\ metas' = [metas EXCEPT ![i] = new]
        /\ connPool' = IF last THEN [connPool EXCEPT ![m.id] = 0] ELSE connPool
        /\ clients' = [clients EXCEPT ![c] = Idle]
        /\ UNCHANGED <<stored, holder, fetches>>
    BY DEF Detach
  <1> HIDE DEF m
  <1>8. /\ new \in Meta /\ new.id = m.id /\ new.count = m.count /\ new.heard = m.heard
        /\ new.status = m.status /\ new.pc = m.pc /\ new.failed = m.failed
        /\ ~last => new.real = m.real /\ new.left = m.left
        /\ last =>
             /\ m.pc # "end" => new.left /\ new.real = m.real
             /\ m.pc = "end" /\ m.failed => new.real = m.real
             /\ m.pc = "end" /\ ~m.failed => new.real = "closed"
    BY <1>6, RemovedMeta
  <1>9. last => m.id = "endpoint"
    BY <1>4, <1>6 DEF ConnIds
  <1> HIDE DEF new
  <1>10. /\ metas' \in Seq(Meta) /\ Len(metas') = Len(metas) /\ DOMAIN metas' = DOMAIN metas
         /\ metas'[i] = new
         /\ \A j \in DOMAIN metas : j # i => metas'[j] = metas[j]
    BY <1>1, <1>3, <1>7, <1>8
  <1>11. \A j \in DOMAIN metas : metas'[j].id = metas[j].id
    BY <1>6, <1>8, <1>10
  <1>12. /\ clients' \in [Clients -> Client] /\ clients'[c] = Idle
         /\ \A d \in Clients : d # c => clients'[d] = clients[d]
    <2>1. Idle \in Client
      BY ConnAssumption DEF Idle, Client
    <2> QED BY <1>1, <1>7, <2>1, OneClient
  <1>13. /\ connPool' \in [ConnIds -> 0..Len(metas)]
         /\ \A id \in ConnIds : connPool'[id] = IF last /\ id = m.id THEN 0 ELSE connPool[id]
    <2>1. m.id \in ConnIds
      BY <1>4, <1>6
    <2> HIDE DEF last
    <2> QED BY <1>1, <1>7, <2>1
  <1>14. ConnTypes'
    <2>1. ASSUME NEW id \in ConnIds, connPool'[id] # 0
          PROVE  metas'[connPool'[id]].id = id
      <3>1. connPool'[id] = connPool[id]
        BY <1>13, <2>1
      <3>2. connPool[id] \in DOMAIN metas /\ metas[connPool[id]].id = id
        BY <1>1, <2>1, <3>1 DEF ConnTypes
      <3> QED BY <1>11, <3>1, <3>2
    <2>2. connPool'["named"] = connPool["named"]
      BY <1>9, <1>13 DEF ConnIds
    <2> QED BY <1>1, <1>7, <1>10, <1>12, <1>13, <2>1, <2>2 DEF ConnTypes
  <1>15. Users(i)' = Users(i) \ {c} /\ \A j : j # i => Users(j)' = Users(j)
    <2>1. \A j : c \notin Users(j)'
      BY <1>12 DEF Users, Attached, Idle
    <2>2. \A j : \A d \in Clients : d # c => (d \in Users(j)' <=> d \in Users(j))
      BY <1>12 DEF Users, Attached
    <2>3. \A j : Users(j) \subseteq Clients /\ Users(j)' \subseteq Clients
      BY DEF Users
    <2>4. ASSUME NEW j, j # i PROVE Users(j)' = Users(j)
      <3>1. c \notin Users(j)
        BY <2>4 DEF Users
      <3>2. \A d \in Clients : d \in Users(j)' <=> d \in Users(j)
        BY <2>1, <2>2, <3>1
      <3> QED BY <2>3, <3>2
    <2>5. Users(i)' = Users(i) \ {c}
      <3>1. \A d \in Clients : d \in Users(i)' <=> d \in Users(i) /\ d # c
        BY <2>1, <2>2
      <3> QED BY <2>3, <3>1
    <2> QED BY <2>4, <2>5
  <1>16. ASSUME last, NEW d \in Clients, d # c, clients[d].pc # "idle"
         PROVE  clients[d].meta # i
    <2>1. Users(i) \ {c} = {}
      BY <1>5, <1>6, <1>16, FS_EmptySet
    <2>2. clients[d].pc # "told"
      BY <1>2, ConnAssumption DEF ConnInv, ClientInv
    <2>3. clients[d] \in Client
      BY <1>1
    <2>4. Attached(d)
      BY <1>16, <2>2, <2>3 DEF Attached, Client
    <2> QED BY <1>16, <2>1, <2>4 DEF Users
  <1>17. ASSUME NEW j \in DOMAIN metas'
         PROVE  MetaInv(j)' /\ CountInv(j)'
    <2>1. j \in DOMAIN metas /\ MetaInv(j) /\ CountInv(j) /\ metas[j].id \in ConnIds
      <3>1. j \in DOMAIN metas /\ metas[j] \in Meta
        BY <1>1, <1>10
      <3> QED BY <3>1 DEF ConnInv, Meta
    <2>2. CASE j = i
      <3>1. MetaInv(i)'
        <4>1. CASE last
          <5>1. connPool'[new.id] = 0 /\ i # 0
            <6>1. new.id = m.id /\ m.id \in ConnIds
              BY <1>4, <1>6, <1>8
            <6>2. i # 0
              BY <1>1, <1>3
            <6> HIDE DEF last
            <6> QED BY <1>13, <4>1, <6>1, <6>2
          <5>2. /\ m.pc \in {"retry", "dial"} => m.real = "none" /\ ~m.failed
                /\ m.failed => m.real = "none"
            BY <1>4, <1>6 DEF MetaInv
          <5> HIDE DEF last
          <5> QED BY <1>6, <1>8, <1>10, <4>1, <5>1, <5>2 DEF MetaInv
        <4>2. CASE ~last
          <5>1. connPool' = connPool
            BY <1>7, <4>2
          <5> HIDE DEF last
          <5> QED BY <1>4, <1>6, <1>8, <1>10, <4>2, <5>1 DEF MetaInv
        <4> QED BY <4>1, <4>2
      <3>2. CountInv(i)'
        BY <1>5, <1>6, <1>8, <1>10, <1>15 DEF CountInv
      <3> QED BY <2>2, <3>1, <3>2
    <2>3. CASE j # i
      <3>1. metas'[j] = metas[j] /\ Users(j)' = Users(j)
        BY <1>10, <1>15, <2>1, <2>3
      <3>2. /\ connPool'[metas[j].id] = j => connPool[metas[j].id] = j
            /\ connPool'[metas[j].id] # j => connPool[metas[j].id] # j
        <4>1. j # 0
          BY <1>1, <2>1
        <4>2. m.id = metas[j].id => connPool[metas[j].id] = i
          BY <1>3, <1>6
        <4> HIDE DEF last
        <4> QED BY <1>13, <2>1, <2>3, <4>1, <4>2
      <3> QED BY <2>1, <3>1, <3>2 DEF MetaInv, CountInv
    <2> QED BY <2>2, <2>3
  <1>18. ASSUME NEW d \in Clients
         PROVE  ClientInv(d)'
    <2>1. CASE d = c
      <3>1. clients'[d].pc = "idle" /\ holder' # d
        BY <1>2, <1>7, <1>12, <2>1, ConnAssumption DEF Idle
      <3>2. ~Attached(d)'
        BY <3>1 DEF Attached
      <3> QED BY <3>1, <3>2 DEF ClientInv
    <2>2. CASE d # c
      <3> DEFINE k == clients[d].meta
      <3>1. ClientInv(d) /\ clients'[d] = clients[d] /\ clients'[d].meta = k
        BY <1>12, <2>2 DEF ConnInv
      <3>2. clients'[d].pc = "told" <=> holder' = d
        BY <1>7, <3>1 DEF ClientInv
      <3>3. ASSUME clients[d].pc # "idle"
            PROVE  k \in DOMAIN metas /\ k \in DOMAIN metas' /\ connPool'[metas'[k].id] = k
        <4>1. k \in DOMAIN metas /\ connPool[metas[k].id] = k
          BY <3>1, <3>3 DEF ClientInv
        <4>2. last => k # i
          BY <1>16, <2>2, <3>3
        <4>3. metas[k].id \in ConnIds
          <5>1. metas[k] \in Meta
            BY <1>1, <4>1
          <5> QED BY <5>1 DEF Meta
        <4>4. m.id = metas[k].id => k = i
          BY <1>3, <1>6, <4>1
        <4> HIDE DEF last, k
        <4> QED BY <1>10, <1>11, <1>13, <4>1, <4>2, <4>3, <4>4
      <3>4. ASSUME Attached(d)'
            PROVE  /\ metas'[k].id = "named" => d \in metas'[k].heard
                   /\ clients'[d].seen = metas'[k].status \/ clients'[d].raced
                        \/ (metas'[k].id = "endpoint" /\ d \notin metas'[k].heard)
        <4>1. Attached(d) /\ k \in DOMAIN metas
          BY <3>1, <3>3, <3>4 DEF Attached
        <4>2. /\ metas[k].id = "named" => d \in metas[k].heard
              /\ clients[d].seen = metas[k].status \/ clients[d].raced
                   \/ (metas[k].id = "endpoint" /\ d \notin metas[k].heard)
          BY <3>1, <4>1 DEF ClientInv
        <4> HIDE DEF k
        <4>3. /\ metas'[k].id = metas[k].id /\ metas'[k].heard = metas[k].heard
              /\ metas'[k].status = metas[k].status
          BY <1>6, <1>8, <1>10, <4>1
        <4> QED BY <3>1, <4>2, <4>3
      <3> HIDE DEF k
      <3> QED BY <3>1, <3>2, <3>3, <3>4 DEF ClientInv
    <2> QED BY <2>1, <2>2
  <1>19. EndpointInv'
    <2> SUFFICES ASSUME connPool'["endpoint"] # 0
                 PROVE  \E d \in Clients : clients'[d].pc # "idle"
                                           /\ clients'[d].meta = connPool'["endpoint"]
      BY DEF EndpointInv
    <2>1. connPool'["endpoint"] = connPool["endpoint"] /\ ~last
      BY <1>9, <1>13 DEF ConnIds
    <2>2. CASE connPool["endpoint"] = i
      <3>1. m.id = "endpoint" /\ m.count # 0
        <4>1. metas[i].id = "endpoint"
          <5>1. i # 0 /\ "endpoint" \in ConnIds
            BY <1>1, <1>3 DEF ConnIds
          <5> QED BY <1>1, <2>2, <5>1 DEF ConnTypes
        <4> QED BY <1>6, <2>1, <4>1
      <3>2. Users(i) \ {c} # {}
        BY <1>5, <1>6, <3>1, FS_EmptySet
      <3>3. PICK d \in Users(i) : d # c
        BY <3>2
      <3> QED BY <1>12, <2>1, <2>2, <3>3 DEF Users, Attached
    <2>3. CASE connPool["endpoint"] # i
      <3>1. PICK d \in Clients :
               clients[d].pc # "idle" /\ clients[d].meta = connPool["endpoint"]
        BY <1>1, <2>1 DEF EndpointInv
      <3> QED BY <1>12, <2>1, <2>3, <3>1
    <2> QED BY <2>2, <2>3
  <1> QED BY <1>14, <1>17, <1>18, <1>19 DEF ConnInv

LEMMA NewMetaFields ==
    ASSUME NEW id \in ConnIds, NEW o \in Clients \cup {NoClient}
    PROVE  /\ NewMeta(id, o) \in Meta /\ NewMeta(id, o).id = id
           /\ NewMeta(id, o).count = 0 /\ NewMeta(id, o).pc = "retry"
           /\ NewMeta(id, o).real = "none" /\ ~NewMeta(id, o).failed
  <1>1. 0 \in 0..MaxRetries
    BY ConnAssumption
  <1> QED BY <1>1 DEF NewMeta, Meta

\* A sequence with an element behind it.
LEMMA AppendFacts ==
    ASSUME NEW S, NEW s \in Seq(S), NEW e \in S
    PROVE  /\ Append(s, e) \in Seq(S) /\ Len(Append(s, e)) = Len(s) + 1 /\ Len(s) \in Nat
           /\ DOMAIN s = 1..Len(s) /\ DOMAIN Append(s, e) = 1..(Len(s) + 1)
           /\ Append(s, e)[Len(s) + 1] = e
           /\ \A i \in DOMAIN s : Append(s, e)[i] = s[i] /\ i # Len(s) + 1 /\ i # 0
           /\ \A i \in DOMAIN Append(s, e) : i \in DOMAIN s \/ i = Len(s) + 1
  OBVIOUS

\* Nobody uses a connection that does not exist yet.
LEMMA NoUsersYet ==
    ASSUME ConnInv, NEW k, k \notin DOMAIN metas
    PROVE  Users(k) = {}
  BY DEF ConnInv, ClientInv, Users, Attached

LEMMA FetchStep ==
    ASSUME ConnInv, NEW c \in Clients, NEW id \in ConnIds, Fetch(c, id),
           NEW i, i = IF connPool[id] = 0 THEN Len(metas) + 1 ELSE connPool[id]
    PROVE  ConnInv'
  <1> DEFINE make == connPool[id] = 0
             all  == IF make THEN Append(metas, NewMeta(id, c)) ELSE metas
             new  == [clients[c] EXCEPT !.pc = "told", !.meta = i, !.stopped = FALSE,
                                        !.raced = FALSE, !.seen = all[i].status]
  <1>1. ConnTypes /\ EndpointInv /\ clients \in [Clients -> Client] /\ metas \in Seq(Meta)
        /\ connPool \in [ConnIds -> 0..Len(metas)] /\ Len(metas) \in Nat
        /\ Len(metas) <= MaxMetas /\ MaxMetas \in Nat
    BY ConnAssumption DEF ConnInv, ConnTypes
  <1>2. /\ holder = NoClient /\ clients[c].pc = "idle" /\ fetches < MaxFetches
        /\ make => id = "endpoint" /\ Len(metas) < MaxMetas
        /\ holder' = c /\ metas' = all /\ connPool' = [connPool EXCEPT ![id] = i]
        /\ clients' = [clients EXCEPT ![c] = new]
        /\ fetches' = fetches + 1 /\ UNCHANGED stored
    BY DEF Fetch
  <1>3. /\ all \in Seq(Meta) /\ DOMAIN metas \subseteq DOMAIN all
        /\ \A j \in DOMAIN metas : all[j] = metas[j] /\ (make => j # i)
        /\ \A j \in DOMAIN all : j \in DOMAIN metas \/ (make /\ j = i)
        /\ i \in DOMAIN all /\ all[i].id = id /\ i # 0
        /\ Len(all) <= MaxMetas /\ i \in 1..Len(all) /\ Len(metas) <= Len(all)
    <2>1. CASE make
      <3>1. NewMeta(id, c) \in Meta /\ NewMeta(id, c).id = id
        BY NewMetaFields
      <3> DEFINE e == NewMeta(id, c)
      <3> HIDE DEF e
      <3>2. all = Append(metas, e) /\ i = Len(metas) + 1
        BY <2>1 DEF e
      <3>3. e \in Meta /\ e.id = id
        BY <3>1 DEF e
      <3>4. /\ Append(metas, e) \in Seq(Meta) /\ Len(Append(metas, e)) = Len(metas) + 1
            /\ DOMAIN metas = 1..Len(metas) /\ DOMAIN Append(metas, e) = 1..(Len(metas) + 1)
            /\ Append(metas, e)[Len(metas) + 1] = e
            /\ \A j \in DOMAIN metas : Append(metas, e)[j] = metas[j]
                                       /\ j # Len(metas) + 1 /\ j # 0
            /\ \A j \in DOMAIN Append(metas, e) : j \in DOMAIN metas \/ j = Len(metas) + 1
        BY <1>1, <3>3, AppendFacts
      <3> HIDE DEF all
      <3> QED BY <1>1, <1>2, <2>1, <3>2, <3>3, <3>4
    <2>2. CASE ~make
      <3>1. all = metas /\ i = connPool[id] /\ i # 0
        BY <2>2
      <3>2. i \in DOMAIN metas /\ metas[i].id = id
        BY <1>1, <3>1 DEF ConnTypes
      <3> HIDE DEF all, make
      <3> QED BY <1>1, <2>2, <3>1, <3>2
    <2> QED BY <2>1, <2>2
  <1>4. make => /\ all[i].count = 0 /\ all[i].pc = "retry" /\ all[i].real = "none"
                /\ ~all[i].failed /\ i \notin DOMAIN metas
    <2> SUFFICES ASSUME make
                 PROVE  /\ all[i].count = 0 /\ all[i].pc = "retry" /\ all[i].real = "none"
                        /\ ~all[i].failed /\ i \notin DOMAIN metas
      OBVIOUS
    <2> DEFINE e == NewMeta(id, c)
    <2>0. e \in Meta /\ e.count = 0 /\ e.pc = "retry" /\ e.real = "none" /\ e.failed = FALSE
      <3>1. c \in Clients \cup {NoClient}
        OBVIOUS
      <3> QED BY <3>1, NewMetaFields
    <2> HIDE DEF e
    <2>1. e \in Meta /\ e.count = 0 /\ e.pc = "retry" /\ e.real = "none" /\ ~e.failed
      BY <2>0
    <2>2. all = Append(metas, e) /\ i = Len(metas) + 1
      BY DEF e
    <2>3. all[i] = e
      BY <1>1, <2>1, <2>2, AppendFacts
    <2>4. i \notin DOMAIN metas
      BY <1>1, <2>2
    <2> HIDE DEF all
    <2> QED BY <2>1, <2>3, <2>4
  <1>5. /\ new \in Client /\ new.pc = "told" /\ new.meta = i
    <2> DEFINE st == all[i].status
    <2>1. st \in {"connecting", "connected", "disconnected"}
      <3>1. all[i] \in Meta
        BY <1>3
      <3> HIDE DEF all
      <3> QED BY <3>1 DEF Meta
    <2>2. i \in 0..MaxMetas /\ clients[c] \in Client
      <3> HIDE DEF all
      <3> QED BY <1>1, <1>3
    <2> DEFINE cl == clients[c]
    <2>3. new = [cl EXCEPT !.pc = "told", !.meta = i, !.stopped = FALSE,
                           !.raced = FALSE, !.seen = st]
      OBVIOUS
    <2>4. cl \in Client
      BY <2>2
    <2> HIDE DEF st, cl, new
    <2> QED BY <2>1, <2>2, <2>3, <2>4 DEF Client
  <1> HIDE DEF new, all
  <1>6. /\ clients' \in [Clients -> Client] /\ clients'[c] = new
        /\ \A d \in Clients : d # c => clients'[d] = clients[d]
    BY <1>1, <1>2, <1>5, OneClient
  <1>7. /\ connPool' \in [ConnIds -> 0..Len(metas')]
        /\ connPool'[id] = i /\ \A n \in ConnIds : n # id => connPool'[n] = connPool[n]
        /\ ~make => connPool' = connPool
    <2>1. \A n \in ConnIds : connPool[n] \in 0..Len(all)
      BY <1>1, <1>3
    <2> QED BY <1>1, <1>2, <1>3, <2>1
  <1>8. ConnTypes'
    <2>1. ASSUME NEW n \in ConnIds, connPool'[n] # 0
          PROVE  metas'[connPool'[n]].id = n
      <3>1. CASE n = id
        BY <1>2, <1>3, <1>7, <3>1
      <3>2. CASE n # id
        <4>1. connPool'[n] = connPool[n]
          BY <1>7, <3>2
        <4>2. connPool[n] \in DOMAIN metas /\ metas[connPool[n]].id = n
          BY <1>1, <2>1, <4>1 DEF ConnTypes
        <4> QED BY <1>2, <1>3, <4>1, <4>2
      <3> QED BY <3>1, <3>2
    <2>2. stored' <=> connPool'["named"] # 0
      <3>1. CASE make
        BY <1>1, <1>2, <1>7, <3>1 DEF ConnTypes, ConnIds
      <3>2. CASE ~make
        BY <1>1, <1>2, <1>7, <3>2 DEF ConnTypes
      <3> QED BY <3>1, <3>2
    <2>3. fetches' \in 0..MaxFetches
      BY <1>1, <1>2, ConnAssumption DEF ConnTypes
    <2> QED BY <1>1, <1>2, <1>3, <1>6, <1>7, <2>1, <2>2, <2>3 DEF ConnTypes
  <1>9. \A j : Users(j)' = Users(j)
    <2>1. \A j : c \notin Users(j)' /\ c \notin Users(j)
      BY <1>2, <1>5, <1>6 DEF Users, Attached
    <2>2. \A j : \A d \in Clients : d # c => (d \in Users(j)' <=> d \in Users(j))
      BY <1>6 DEF Users, Attached
    <2>3. \A j : Users(j) \subseteq Clients /\ Users(j)' \subseteq Clients
      BY DEF Users
    <2>4. ASSUME NEW j PROVE Users(j)' = Users(j)
      <3>1. \A d \in Clients : d \in Users(j)' <=> d \in Users(j)
        BY <2>1, <2>2
      <3> QED BY <2>3, <3>1
    <2> QED BY <2>4
  <1>10. ASSUME NEW j \in DOMAIN metas'
         PROVE  MetaInv(j)' /\ CountInv(j)'
    <2>1. CASE j \in DOMAIN metas
      <3>1. MetaInv(j) /\ CountInv(j) /\ metas'[j] = metas[j] /\ metas[j].id \in ConnIds
        <4>1. metas[j] \in Meta
          BY <1>1, <2>1
        <4> QED BY <1>2, <1>3, <2>1, <4>1 DEF ConnInv, Meta
      <3>2. connPool'[metas[j].id] = j <=> connPool[metas[j].id] = j
        <4>1. CASE make
          <5>1. j # i /\ j # 0 /\ connPool[id] = 0
            BY <1>1, <1>3, <2>1, <4>1
          <5> QED BY <1>7, <3>1, <5>1
        <4>2. CASE ~make
          BY <1>7, <4>2
        <4> QED BY <4>1, <4>2
      <3> QED BY <1>9, <3>1, <3>2 DEF MetaInv, CountInv
    <2>2. CASE j \notin DOMAIN metas
      <3>1. make /\ j = i
        BY <1>2, <1>3, <2>2
      <3>2. Users(j) = {}
        BY <2>2, NoUsersYet
      <3>3. CountInv(j)'
        BY <1>2, <1>4, <1>9, <3>1, <3>2, FS_EmptySet DEF CountInv
      <3>4. MetaInv(j)'
        BY <1>2, <1>3, <1>4, <1>7, <3>1 DEF MetaInv
      <3> QED BY <3>3, <3>4
    <2> QED BY <2>1, <2>2
  <1>11. ASSUME NEW d \in Clients
         PROVE  ClientInv(d)'
    <2>1. CASE d = c
      <3>1. clients'[d].pc = "told" /\ clients'[d].meta = i /\ ~Attached(d)' /\ holder' = d
        BY <1>2, <1>5, <1>6, <2>1 DEF Attached
      <3>2. i \in DOMAIN metas' /\ connPool'[metas'[i].id] = i
        BY <1>2, <1>3, <1>7
      <3> QED BY <3>1, <3>2 DEF ClientInv
    <2>2. CASE d # c
      <3> DEFINE k == clients[d].meta
      <3>1. ClientInv(d) /\ clients'[d] = clients[d] /\ clients'[d].meta = k
        BY <1>6, <2>2 DEF ConnInv
      <3>2. clients[d].pc # "told" /\ holder' # d
        BY <1>2, <2>2, <3>1, ConnAssumption DEF ClientInv
      <3>3. ASSUME clients[d].pc # "idle"
            PROVE  /\ k \in DOMAIN metas /\ k \in DOMAIN metas' /\ metas'[k] = metas[k]
                   /\ connPool'[metas'[k].id] = k
        <4>1. k \in DOMAIN metas /\ connPool[metas[k].id] = k
          BY <3>1, <3>3 DEF ClientInv
        <4>2. metas[k].id \in ConnIds /\ k # 0
          <5>1. metas[k] \in Meta
            BY <1>1, <4>1
          <5> QED BY <1>1, <4>1, <5>1 DEF Meta
        <4> HIDE DEF k
        <4>3. metas'[k] = metas[k] /\ k \in DOMAIN metas'
          BY <1>2, <1>3, <4>1
        <4>4. connPool'[metas[k].id] = k
          <5>1. CASE make
            BY <1>7, <4>1, <4>2, <5>1
          <5>2. CASE ~make
            BY <1>7, <4>1, <5>2
          <5> QED BY <5>1, <5>2
        <4> QED BY <4>1, <4>3, <4>4
      <3>4. ASSUME Attached(d)'
            PROVE  /\ metas'[k].id = "named" => d \in metas'[k].heard
                   /\ clients'[d].seen = metas'[k].status \/ clients'[d].raced
                        \/ (metas'[k].id = "endpoint" /\ d \notin metas'[k].heard)
        <4>1. Attached(d) /\ metas'[k] = metas[k]
          BY <3>1, <3>3, <3>4 DEF Attached
        <4>2. /\ metas[k].id = "named" => d \in metas[k].heard
              /\ clients[d].seen = metas[k].status \/ clients[d].raced
                   \/ (metas[k].id = "endpoint" /\ d \notin metas[k].heard)
          BY <3>1, <4>1 DEF ClientInv
        <4> HIDE DEF k
        <4> QED BY <3>1, <4>1, <4>2
      <3> HIDE DEF k
      <3> QED BY <3>1, <3>2, <3>3, <3>4 DEF ClientInv
    <2> QED BY <2>1, <2>2
  <1>12. EndpointInv'
    <2> SUFFICES ASSUME connPool'["endpoint"] # 0
                 PROVE  \E d \in Clients : clients'[d].pc # "idle"
                                           /\ clients'[d].meta = connPool'["endpoint"]
      BY DEF EndpointInv
    <2>1. CASE id = "endpoint"
      BY <1>5, <1>6, <1>7, <2>1
    <2>2. CASE id # "endpoint"
      <3>1. connPool'["endpoint"] = connPool["endpoint"]
        BY <1>7, <2>2 DEF ConnIds
      <3>2. PICK d \in Clients :
               clients[d].pc # "idle" /\ clients[d].meta = connPool["endpoint"]
        BY <1>1, <3>1 DEF EndpointInv
      <3> QED BY <1>2, <1>6, <3>1, <3>2
    <2> QED BY <2>1, <2>2
  <1> QED BY <1>8, <1>10, <1>11, <1>12 DEF ConnInv

\* A named connection that was just made.
Made(k) ==
    LET m == metas'[k] IN
    /\ m.id = "named" /\ m.count = 0 /\ m.pc = "retry" /\ m.real = "none"
    /\ ~m.failed /\ (connPool'["named"] # k => m.left)

\* What a call of the user leaves: nobody refers to the named connection that it takes out of
\* the pool, and the one it makes is in the pool or left to its dialling.
LEMMA NamedStep ==
    ASSUME ConnInv, holder = NoClient, UNCHANGED <<holder, clients, fetches>>,
           NEW i, i = connPool["named"],
           metas' \in Seq(Meta), Len(metas) <= Len(metas'), Len(metas') <= MaxMetas,
           connPool' \in [ConnIds -> 0..Len(metas')],
           connPool'["endpoint"] = connPool["endpoint"],
           stored' \in BOOLEAN, stored' <=> connPool'["named"] # 0,
           \A j \in DOMAIN metas : connPool'["named"] # j /\ (j # i => metas'[j] = metas[j]),
           i # 0 => metas[i].count = 0 /\ metas'[i] = Removed(metas[i]),
           \A k \in DOMAIN metas' \ DOMAIN metas : Made(k)
    PROVE  ConnInv'
  <1>1. ConnTypes /\ EndpointInv /\ clients \in [Clients -> Client] /\ metas \in Seq(Meta)
        /\ connPool \in [ConnIds -> 0..Len(metas)] /\ Len(metas) \in Nat
        /\ DOMAIN metas = 1..Len(metas) /\ DOMAIN metas' = 1..Len(metas')
        /\ Len(metas') \in Nat
    BY DEF ConnInv, ConnTypes
  <1>2. /\ \A j : Users(j)' = Users(j)
        /\ \A c \in Clients : Attached(c)' <=> Attached(c)
    BY DEF Users, Attached
  <1>3. i # 0 => /\ i \in DOMAIN metas /\ metas[i].id = "named" /\ metas[i] \in Meta
                 /\ MetaInv(i) /\ CountInv(i) /\ Users(i) = {}
    <2> SUFFICES ASSUME i # 0
                 PROVE  /\ i \in DOMAIN metas /\ metas[i].id = "named" /\ metas[i] \in Meta
                        /\ MetaInv(i) /\ CountInv(i) /\ Users(i) = {}
      OBVIOUS
    <2>1. i \in DOMAIN metas /\ metas[i].id = "named"
      BY <1>1 DEF ConnTypes, ConnIds
    <2>2. MetaInv(i) /\ CountInv(i)
      BY <2>1 DEF ConnInv
    <2>3. Users(i) = {}
      BY <2>2, FS_EmptySet DEF CountInv
    <2> QED BY <1>1, <2>1, <2>2, <2>3
  <1>4. i # 0 => /\ metas'[i].id = "named" /\ metas'[i].count = metas[i].count
                 /\ metas'[i].pc = metas[i].pc /\ metas'[i].failed = metas[i].failed
    <2> SUFFICES ASSUME i # 0
                 PROVE  /\ metas'[i].id = "named" /\ metas'[i].count = metas[i].count
                        /\ metas'[i].pc = metas[i].pc /\ metas'[i].failed = metas[i].failed
      OBVIOUS
    <2>1. metas'[i] = Removed(metas[i]) /\ metas[i] \in Meta /\ metas[i].id = "named"
      BY <1>3
    <2> QED BY <2>1, RemovedMeta
  <1>5. ASSUME NEW c \in Clients, clients[c].pc # "idle", NEW k, k = clients[c].meta
        PROVE  /\ k \in DOMAIN metas /\ metas[k].id = "endpoint" /\ metas'[k] = metas[k]
               /\ connPool[metas[k].id] = k
    <2>1. ClientInv(c)
      BY DEF ConnInv
    <2>2. k \in DOMAIN metas /\ connPool[metas[k].id] = k
      BY <1>5, <2>1 DEF ClientInv
    <2>3. clients[c].pc # "told" /\ clients[c] \in Client
      BY <1>1, <2>1, ConnAssumption DEF ClientInv
    <2>4. c \in Users(k)
      BY <1>5, <2>3 DEF Users, Attached, Client
    <2>5. k # i /\ k # 0
      BY <1>1, <1>3, <2>2, <2>4
    <2>6. metas[k].id # "named"
      BY <2>2, <2>5
    <2>7. metas[k] \in Meta
      BY <1>1, <2>2
    <2> QED BY <2>2, <2>5, <2>6, <2>7 DEF Meta, ConnIds
  <1>6. ConnTypes'
    <2>1. ASSUME NEW n \in ConnIds, connPool'[n] # 0
          PROVE  metas'[connPool'[n]].id = n
      <3>1. CASE n = "named"
        <4>1. connPool'[n] \in DOMAIN metas' \ DOMAIN metas
          BY <1>1, <2>1, <3>1
        <4> QED BY <3>1, <4>1 DEF Made
      <3>2. CASE n = "endpoint"
        <4>1. connPool'[n] = connPool[n]
          BY <3>2
        <4>2. connPool[n] \in DOMAIN metas /\ metas[connPool[n]].id = n
          BY <1>1, <2>1, <4>1 DEF ConnTypes
        <4>3. connPool[n] # i
          <5>1. i # 0 => metas[i].id = "named"
            BY <1>3
          <5> QED BY <2>1, <3>2, <4>1, <4>2, <5>1
        <4>4. metas'[connPool[n]] = metas[connPool[n]]
          BY <4>2, <4>3
        <4> QED BY <4>1, <4>2, <4>4
      <3> QED BY <3>1, <3>2 DEF ConnIds
    <2> QED BY <1>1, <2>1 DEF ConnTypes
  <1>7. ASSUME NEW j \in DOMAIN metas'
        PROVE  MetaInv(j)' /\ CountInv(j)'
    <2>1. CASE j \notin DOMAIN metas
      <3> DEFINE m == metas'[j]
      <3>1. /\ m.id = "named" /\ m.count = 0 /\ m.pc = "retry" /\ m.real = "none"
            /\ ~m.failed /\ (connPool'["named"] # j => m.left)
        BY <2>1 DEF Made
      <3>2. Users(j)' = {}
        BY <1>2, <2>1, NoUsersYet
      <3>3. CountInv(j)'
        BY <3>1, <3>2, FS_EmptySet DEF CountInv
      <3>4. MetaInv(j)'
        BY <3>1 DEF MetaInv
      <3> QED BY <3>3, <3>4
    <2>2. CASE j \in DOMAIN metas /\ j = i
      <3>1. i # 0
        BY <1>1, <2>2
      <3>2. CountInv(j)'
        BY <1>2, <1>3, <1>4, <2>2, <3>1 DEF CountInv
      <3>3. connPool'[metas'[j].id] # j
        BY <1>4, <2>2, <3>1
      <3>4. /\ metas[i].pc \in {"retry", "dial"} => metas[i].real = "none" /\ ~metas[i].failed
            /\ metas[i].failed => metas[i].real = "none"
        BY <1>3, <3>1 DEF MetaInv
      <3> DEFINE m == metas[i]
                 n == metas'[i]
      <3>5. /\ n.pc = m.pc /\ n.failed = m.failed
            /\ m.pc # "end" => n.left /\ n.real = m.real
            /\ m.pc = "end" /\ m.failed => n.real = m.real
            /\ m.pc = "end" /\ ~m.failed => n.real = "closed"
        <4>1. n = Removed(m) /\ m \in Meta
          BY <1>3, <3>1
        <4> HIDE DEF n, m
        <4> QED BY <4>1, RemovedMeta
      <3>6. /\ n.pc \in {"retry", "dial"} => n.real = "none" /\ ~n.failed
            /\ n.failed => n.real = "none"
            /\ n.left \/ (n.pc = "end" /\ n.real # "open")
        <4>1. /\ m.pc \in {"retry", "dial"} => m.real = "none" /\ ~m.failed
              /\ m.failed => m.real = "none"
          BY <3>4
        <4> HIDE DEF n, m
        <4> QED BY <3>5, <4>1
      <3>7. MetaInv(j)'
        BY <2>2, <3>3, <3>6 DEF MetaInv
      <3> QED BY <3>2, <3>7
    <2>3. CASE j \in DOMAIN metas /\ j # i
      <3>1. metas'[j] = metas[j] /\ MetaInv(j) /\ CountInv(j) /\ metas[j] \in Meta
        BY <1>1, <2>3 DEF ConnInv
      <3>2. connPool'[metas[j].id] = j <=> connPool[metas[j].id] = j
        <4>1. CASE metas[j].id = "named"
          BY <2>3, <4>1
        <4>2. CASE metas[j].id = "endpoint"
          BY <4>2
        <4> QED BY <3>1, <4>1, <4>2 DEF Meta, ConnIds
      <3> QED BY <1>2, <3>1, <3>2 DEF MetaInv, CountInv
    <2> QED BY <2>1, <2>2, <2>3
  <1>8. ASSUME NEW c \in Clients
        PROVE  ClientInv(c)'
    <2> DEFINE k == clients[c].meta
    <2>1. ClientInv(c) /\ clients'[c] = clients[c]
      BY DEF ConnInv
    <2>2. CASE clients[c].pc = "idle"
      <3>1. ~Attached(c)'
        BY <2>1, <2>2 DEF Attached
      <3> QED BY <2>1, <2>2, <3>1 DEF ClientInv
    <2>3. CASE clients[c].pc # "idle"
      <3>1. /\ k \in DOMAIN metas /\ metas[k].id = "endpoint" /\ metas'[k] = metas[k]
            /\ connPool[metas[k].id] = k
        BY <1>5, <2>3
      <3>2. k \in DOMAIN metas' /\ connPool'[metas'[k].id] = k
        BY <1>1, <3>1
      <3>3. clients'[c].pc = "told" <=> holder' = c
        BY <2>1 DEF ClientInv
      <3>4. ASSUME Attached(c)'
            PROVE  /\ metas'[k].id = "named" => c \in metas'[k].heard
                   /\ clients'[c].seen = metas'[k].status \/ clients'[c].raced
                        \/ (metas'[k].id = "endpoint" /\ c \notin metas'[k].heard)
        <4>1. Attached(c)
          BY <1>2, <3>4
        <4>2. clients[c].seen = metas[k].status \/ clients[c].raced
                \/ (metas[k].id = "endpoint" /\ c \notin metas[k].heard)
          BY <2>1, <4>1 DEF ClientInv
        <4> HIDE DEF k
        <4> QED BY <2>1, <3>1, <4>2
      <3>5. clients'[c].meta = k
        BY <2>1
      <3> HIDE DEF k
      <3> QED BY <3>2, <3>3, <3>4, <3>5 DEF ClientInv
    <2> QED BY <2>2, <2>3
  <1>9. EndpointInv'
    BY <1>1 DEF EndpointInv
  <1> QED BY <1>6, <1>7, <1>8, <1>9 DEF ConnInv

\* A connection that the user makes, left to its dialling where storing it fails.
LEMMA MadeFields ==
    ASSUME NEW fails \in BOOLEAN
    PROVE  LET e == [NewMeta("named", NoClient) EXCEPT !.left = fails] IN
           /\ e \in Meta /\ e.id = "named" /\ e.count = 0 /\ e.pc = "retry"
           /\ e.real = "none" /\ ~e.failed /\ e.left = fails
  <1> DEFINE m == NewMeta("named", NoClient)
             e == [m EXCEPT !.left = fails]
  <1>1. /\ m \in Meta /\ m.id = "named" /\ m.count = 0 /\ m.pc = "retry"
        /\ m.real = "none" /\ ~m.failed
    <2>1. "named" \in ConnIds /\ NoClient \in Clients \cup {NoClient}
      BY DEF ConnIds
    <2> QED BY <2>1, NewMetaFields
  <1> HIDE DEF m
  <1>2. /\ e \in Meta /\ e.id = "named" /\ e.count = 0 /\ e.pc = "retry"
        /\ e.real = "none" /\ ~e.failed /\ e.left = fails
    BY <1>1 DEF Meta
  <1> QED BY <1>2 DEF m

LEMMA CallStep ==
    ASSUME ConnInv, DropNamed \/ \E fails \in BOOLEAN : CreateNamed(fails) \/ UpdateNamed(fails)
    PROVE  ConnInv'
  <1> DEFINE i == connPool["named"]
  <1>1. ConnTypes /\ metas \in Seq(Meta) /\ connPool \in [ConnIds -> 0..Len(metas)]
        /\ Len(metas) \in Nat /\ Len(metas) <= MaxMetas /\ DOMAIN metas = 1..Len(metas)
        /\ MaxMetas \in Nat
    BY ConnAssumption DEF ConnInv, ConnTypes
  <1>2. i \in 0..Len(metas) /\ (i # 0 => i \in DOMAIN metas /\ metas[i] \in Meta)
    BY <1>1 DEF ConnIds
  <1> HIDE DEF i
  <1>3. CASE DropNamed
    <2> DEFINE new == Removed(metas[i])
    <2>1. /\ holder = NoClient /\ i # 0 /\ metas[i].count = 0
          /\ metas' = [metas EXCEPT ![i] = new] /\ connPool' = [connPool EXCEPT !["named"] = 0]
          /\ stored' = FALSE /\ UNCHANGED <<holder, clients, fetches>>
      BY <1>3 DEF DropNamed, i
    <2>2. new \in Meta
      BY <1>2, <2>1, RemovedMeta
    <2> HIDE DEF new
    <2>3. /\ metas' \in Seq(Meta) /\ Len(metas') = Len(metas) /\ metas'[i] = new
          /\ \A j \in DOMAIN metas : j # i => metas'[j] = metas[j]
          /\ DOMAIN metas' = DOMAIN metas
      BY <1>1, <1>2, <2>1, <2>2
    <2>4. /\ connPool' \in [ConnIds -> 0..Len(metas')] /\ connPool'["named"] = 0
          /\ connPool'["endpoint"] = connPool["endpoint"]
      BY <1>1, <2>1, <2>3 DEF ConnIds
    <2>5. \A j \in DOMAIN metas : connPool'["named"] # j
      BY <1>1, <2>4
    <2>6. i = connPool["named"] /\ metas'[i] = Removed(metas[i])
      BY <2>3 DEF i, new
    <2>7. Len(metas) <= Len(metas') /\ Len(metas') <= MaxMetas
      BY <1>1, <2>3
    <2>8. stored' \in BOOLEAN /\ (stored' <=> connPool'["named"] # 0)
      BY <2>1, <2>4
    <2>9. DOMAIN metas' \ DOMAIN metas = {}
      BY <2>3
    <2> QED BY <2>1, <2>3, <2>4, <2>5, <2>6, <2>7, <2>8, <2>9, NamedStep
  <1>4. ASSUME NEW fails \in BOOLEAN, CreateNamed(fails) \/ UpdateNamed(fails)
        PROVE  ConnInv'
    <2> DEFINE e    == [NewMeta("named", NoClient) EXCEPT !.left = fails]
               base == IF i = 0 THEN metas ELSE [metas EXCEPT ![i] = Removed(@)]
               k    == IF fails THEN 0 ELSE Len(metas) + 1
    <2>1. /\ e \in Meta /\ e.id = "named" /\ e.count = 0 /\ e.pc = "retry"
          /\ e.real = "none" /\ ~e.failed /\ e.left = fails
      BY MadeFields
    <2> HIDE DEF e
    <2>2. /\ holder = NoClient /\ Len(metas) < MaxMetas
          /\ (i # 0 => metas[i].count = 0)
          /\ metas' = Append(base, e)
          /\ stored' = ~fails /\ UNCHANGED <<holder, clients, fetches>>
      BY <1>4 DEF CreateNamed, UpdateNamed, i, e
    <2>3. connPool' = [connPool EXCEPT !["named"] = k]
      <3>1. CASE CreateNamed(fails)
        <4>1. i = 0 /\ connPool' = IF fails THEN connPool
                                   ELSE [connPool EXCEPT !["named"] = Len(metas) + 1]
          BY <3>1 DEF CreateNamed, i
        <4>2. connPool = [connPool EXCEPT !["named"] = 0]
          BY <1>1, <4>1 DEF i, ConnIds
        <4> QED BY <4>1, <4>2
      <3>2. CASE UpdateNamed(fails)
        BY <3>2 DEF UpdateNamed
      <3> QED BY <1>4, <3>1, <3>2
    <2>4. /\ base \in Seq(Meta) /\ Len(base) = Len(metas) /\ DOMAIN base = DOMAIN metas
          /\ \A j \in DOMAIN metas : j # i => base[j] = metas[j]
          /\ i # 0 => base[i] = Removed(metas[i])
      <3>1. CASE i = 0
        BY <1>1, <3>1
      <3>2. CASE i # 0
        <4> DEFINE new == Removed(metas[i])
        <4>1. new \in Meta /\ base = [metas EXCEPT ![i] = new]
          BY <1>2, <3>2, RemovedMeta
        <4> HIDE DEF new, base
        <4>2. /\ base \in Seq(Meta) /\ Len(base) = Len(metas) /\ DOMAIN base = DOMAIN metas
              /\ \A j \in DOMAIN metas : j # i => base[j] = metas[j]
              /\ base[i] = new
          BY <1>1, <1>2, <3>2, <4>1
        <4> QED BY <4>2 DEF new
      <3> QED BY <3>1, <3>2
    <2> HIDE DEF base
    <2>5. /\ metas' \in Seq(Meta) /\ Len(metas') = Len(metas) + 1
          /\ metas'[Len(metas) + 1] = e
          /\ \A j \in DOMAIN metas : metas'[j] = base[j] /\ j # Len(metas) + 1 /\ j # 0
          /\ \A j \in DOMAIN metas' : j \in DOMAIN metas \/ j = Len(metas) + 1
      BY <2>1, <2>2, <2>4, AppendFacts
    <2>6. /\ connPool' \in [ConnIds -> 0..Len(metas')] /\ connPool'["named"] = k
          /\ connPool'["endpoint"] = connPool["endpoint"]
      <3>1. k \in 0..Len(metas') /\ \A n \in ConnIds : connPool[n] \in 0..Len(metas')
        BY <1>1, <2>5
      <3> HIDE DEF k
      <3> QED BY <1>1, <2>3, <3>1 DEF ConnIds
    <2>7. \A j \in DOMAIN metas : connPool'["named"] # j /\ (j # i => metas'[j] = metas[j])
      BY <2>4, <2>5, <2>6
    <2>8. i = connPool["named"]
      BY DEF i
    <2>9. i # 0 => metas[i].count = 0 /\ metas'[i] = Removed(metas[i])
      BY <1>2, <2>2, <2>4, <2>5
    <2>10. Len(metas) <= Len(metas') /\ Len(metas') <= MaxMetas
      BY <1>1, <2>2, <2>5
    <2>11. stored' \in BOOLEAN /\ (stored' <=> connPool'["named"] # 0)
      <3>1. CASE fails
        <4>1. stored' = FALSE /\ connPool'["named"] = 0
          BY <2>2, <2>6, <3>1
        <4> QED BY <4>1
      <3>2. CASE ~fails
        <4>1. fails = FALSE
          BY <2>2, <3>2
        <4>2. k = Len(metas) + 1
          BY <4>1
        <4>3. Len(metas) + 1 # 0
          BY <1>1
        <4> HIDE DEF k
        <4>4. connPool'["named"] # 0
          BY <2>6, <4>2, <4>3
        <4>5. stored' = TRUE
          BY <2>2, <4>1
        <4> QED BY <4>4, <4>5
      <3> QED BY <3>1, <3>2
    <2>12. \A n \in DOMAIN metas' \ DOMAIN metas : Made(n)
      <3> SUFFICES ASSUME NEW n \in DOMAIN metas' \ DOMAIN metas
                   PROVE  /\ metas'[n].id = "named" /\ metas'[n].count = 0
                          /\ metas'[n].pc = "retry" /\ metas'[n].real = "none"
                          /\ ~metas'[n].failed
                          /\ (connPool'["named"] # n => metas'[n].left)
        BY DEF Made
      <3>1. n = Len(metas) + 1 /\ metas'[n] = e
        BY <2>5
      <3>2. connPool'["named"] # n => fails
        BY <2>6, <3>1
      <3> QED BY <2>1, <3>1, <3>2
    <2> HIDE DEF k
    <2>13. holder = NoClient
      BY <2>2
    <2>14. UNCHANGED <<holder, clients, fetches>>
      BY <2>2
    <2>15. metas' \in Seq(Meta)
      BY <2>5
    <2>16. connPool' \in [ConnIds -> 0..Len(metas')] /\ connPool'["endpoint"] = connPool["endpoint"]
      BY <2>6
    <2> QED BY <2>13, <2>14, <2>15, <2>16, <2>7, <2>8, <2>9, <2>10, <2>11, <2>12, NamedStep
  <1> QED BY <1>3, <1>4

LEMMA ConnInitInv == ConnInit => ConnInv
  <1> SUFFICES ASSUME ConnInit PROVE ConnInv
    OBVIOUS
  <1> DEFINE e == NewMeta("named", NoClient)
  <1>1. /\ e \in Meta /\ e.id = "named" /\ e.count = 0 /\ e.pc = "retry"
        /\ e.real = "none" /\ ~e.failed
    <2>1. "named" \in ConnIds /\ NoClient \in Clients \cup {NoClient}
      BY DEF ConnIds
    <2> QED BY <2>1, NewMetaFields
  <1>2. /\ stored \in BOOLEAN /\ metas = IF stored THEN <<e>> ELSE << >>
        /\ connPool = [n \in ConnIds |-> IF stored /\ n = "named" THEN 1 ELSE 0]
        /\ holder = NoClient /\ clients = [c \in Clients |-> Idle] /\ fetches = 0
    BY DEF ConnInit
  <1> HIDE DEF e
  <1>3. /\ metas \in Seq(Meta) /\ Len(metas) = (IF stored THEN 1 ELSE 0)
        /\ \A i \in DOMAIN metas : i = 1 /\ stored /\ metas[i] = e
    BY <1>1, <1>2
  <1>4. clients \in [Clients -> Client] /\ \A c \in Clients : clients[c].pc = "idle"
    <2>1. Idle \in Client /\ Idle.pc = "idle"
      BY ConnAssumption DEF Idle, Client
    <2> QED BY <1>2, <2>1
  <1>5. connPool \in [ConnIds -> 0..Len(metas)] /\ connPool["endpoint"] = 0
        /\ connPool["named"] = (IF stored THEN 1 ELSE 0)
    BY <1>2, <1>3 DEF ConnIds
  <1>6. ConnTypes
    <2>1. \A id \in ConnIds : connPool[id] # 0 => metas[connPool[id]].id = id
      BY <1>1, <1>2, <1>5 DEF ConnIds
    <2>2. fetches \in 0..MaxFetches /\ Len(metas) <= MaxMetas
      BY <1>2, <1>3, ConnAssumption
    <2>3. stored <=> connPool["named"] # 0
      BY <1>5
    <2> QED BY <1>2, <1>3, <1>4, <1>5, <2>1, <2>2, <2>3 DEF ConnTypes
  <1>7. ASSUME NEW i \in DOMAIN metas
        PROVE  MetaInv(i) /\ CountInv(i)
    <2>1. i = 1 /\ stored /\ metas[i] = e
      BY <1>3
    <2>2. Users(i) = {}
      BY <1>4 DEF Users, Attached
    <2>3. CountInv(i)
      BY <1>1, <2>1, <2>2, FS_EmptySet DEF CountInv
    <2>4. MetaInv(i)
      BY <1>1, <1>5, <2>1 DEF MetaInv
    <2> QED BY <2>3, <2>4
  <1>8. \A c \in Clients : ClientInv(c)
    BY <1>2, <1>4, ConnAssumption DEF ClientInv, Attached
  <1>9. EndpointInv
    BY <1>5 DEF EndpointInv
  <1> QED BY <1>6, <1>7, <1>8, <1>9 DEF ConnInv

\* A connection in use stays in the pool and open, with the count of its users, who know its
\* status; one that is out of the pool is closed: for any clients and connections, whoever
\* dials, waits, stops, drops or updates (pkg/connection/pool.go:60-430).
THEOREM ConnectionsAreSound == ConnSpec => []ConnectionsSound
  <1>1. ConnInit => ConnInv
    BY ConnInitInv
  <1>2. ConnInv /\ [ConnNext]_connVars => ConnInv'
    <2> SUFFICES ASSUME ConnInv, [ConnNext]_connVars PROVE ConnInv'
      OBVIOUS
    <2>1. ASSUME NEW c \in Clients, ClientSteps(c)
          PROVE  ConnInv'
      BY <2>1, FetchStep, AddRefStep, WaitedStep, StopClientStep, DetachStep DEF ClientSteps
    <2>2. CASE DropNamed \/ \E fails \in BOOLEAN : CreateNamed(fails) \/ UpdateNamed(fails)
      BY <2>2, CallStep
    <2>3. ASSUME NEW i \in DOMAIN metas, Dial(i)
          PROVE  ConnInv'
      BY <2>3, DialStep
    <2>4. CASE UNCHANGED connVars
      <3>1. UNCHANGED <<metas, connPool, stored, holder, clients, fetches>>
        BY <2>4 DEF connVars
      <3>2. metas \in Seq(Meta) /\ clients \in [Clients -> Client]
        BY DEF ConnInv, ConnTypes
      <3>3. /\ \A i \in DOMAIN metas : SameMeta(i)
            /\ \A c \in Clients : SameClient(c)
        BY <3>1 DEF SameMeta, SameClient
      <3> QED BY <3>1, <3>2, <3>3, SameStep
    <2> QED BY <2>1, <2>2, <2>3, <2>4 DEF ConnNext
  <1>3. ConnInv => ConnectionsSound
    BY ConnInvImplies
  <1> QED BY <1>1, <1>2, <1>3, PTL DEF ConnSpec
-----------------------------------------------------------------------------
(* Topics in memory                                                        *)

Channel == [of : SourceIds, closed : BOOLEAN]
Reader  == [pc : {"new", "starting", "on", "closed"}, stopped : BOOLEAN, ch : Chans]
Table   == [key : Keys, pc : {"start", "subscribed", "running", "end"},
            cancelled : BOOLEAN, ch : Chans]
User    == [count : 0..MaxUsers, t : 0..MaxTables]

\* The parts of the types.
PubTypes ==
    /\ topics \in [Topics -> PubConsumers]
    /\ subExps \in [SourceIds -> Chans]
    /\ chans \in Seq(Channel) /\ Len(chans) \in Chans
    /\ wild \subseteq Readers
    /\ readers \in [ReaderRuns -> Reader]
    /\ sinks \in [Topics -> 0..MaxSinks]
    /\ tables \in Seq(Table)
    /\ database \in [Keys -> User]
    /\ panicked \in BOOLEAN
    /\ \A t \in Topics : ~topics[t].exists => topics[t] = NoTopic

\* Whoever has made a channel.
SubscribedRuns   == {x \in ReaderRuns : readers[x].pc \in {"on", "closed"}}
SubscribedTables == {i \in DOMAIN tables : tables[i].pc # "start"}

\* Only a source with a wildcard subscribes to all topics.
WildInv == \A s \in SourceIds \ wild : subExps[s] = 0

\* Each channel was made by a run of a source, or for a table.
ChannelInv ==
    /\ Len(chans) = Cardinality(SubscribedRuns) + Cardinality(SubscribedTables)
    /\ Len(tables) <= MaxTables

\* What a source without a wildcard has subscribed to exists.
ReaderInv(s) ==
    LET c == topics[PlainTopic] IN
    IF OpenRuns(s) = {} THEN c.consumers[s] = 0 /\ c.replaced[s] = 0
    ELSE /\ c.exists /\ Latest(s) # 0 /\ c.consumers[s] = Latest(s)
         /\ c.replaced[s] = Cardinality(OpenRuns(s)) - 1

TopicInv(t) ==
    LET c == topics[t] IN
    /\ c.count = sinks[t]
    /\ sinks[t] > 0 => c.exists
    /\ c.exists /\ wild = {} => ~Unused(c)

\* The channel of a table is not newer than what its topic has for the tables.
SubscribedInv ==
    /\ \A i \in DOMAIN tables : tables[i].ch <= topics[PlainTopic].consumers[Store]
    /\ topics[PlainTopic].consumers[Store] <= Len(chans)

UserInv(k) ==
    database[k].count > 0 =>
       /\ database[k].t \in DOMAIN tables
       /\ tables[database[k].t].key = k /\ ~tables[database[k].t].cancelled

PubInv ==
    /\ PubTypes /\ WildInv /\ ChannelInv /\ SubscribedInv
    /\ \A s \in Readers \ wild : ReaderInv(s)
    /\ \A t \in Topics : TopicInv(t)
    /\ \A k \in Keys : UserInv(k)

\* What the invariant says of the topics is what the run checks.
LEMMA PubInvImplies == PubInv => TopicsSound
  <1> SUFFICES ASSUME PubInv PROVE TopicsSound
    OBVIOUS
  <1>1. LatestAttached
    BY DEF PubInv, ReaderInv, LatestAttached
  <1>2. TopicKeptInUse
    <2> SUFFICES ASSUME NEW t \in Topics
                 PROVE  /\ topics[t].count = sinks[t]
                        /\ sinks[t] > 0
                              \/ (t = PlainTopic /\ \E s \in Readers \ wild : OpenRuns(s) # {})
                           => topics[t].exists
                        /\ topics[t].exists /\ wild = {} => ~Unused(topics[t])
      BY DEF TopicKeptInUse
    <2>1. TopicInv(t) /\ \A s \in Readers \ wild : ReaderInv(s)
      BY DEF PubInv
    <2> QED BY <2>1 DEF TopicInv, ReaderInv
  <1>3. TableFed
    BY PubSubAssumption DEF PubInv, UserInv, SubscribedInv, TableFed
  <1>4. PubTypeOK
    BY DEF PubInv, PubTypes, PubTypeOK, Channel, Reader, Table, User
  <1> QED BY <1>1, <1>2, <1>3, <1>4 DEF TopicsSound

LEMMA PubConstants ==
    /\ MaxRuns \in Nat /\ MaxSinks \in Nat /\ MaxTables \in Nat /\ MaxUsers \in Nat
    /\ PlainTopic \in Topics /\ Store \in SourceIds /\ Store \notin Readers
    /\ Readers \subseteq SourceIds
    /\ IsFiniteSet(ReaderRuns) /\ Cardinality(ReaderRuns) \in Nat
    /\ 0 \in Chans /\ Chans \subseteq Nat
    /\ \A c \in Chans : c <= Cardinality(ReaderRuns) + MaxTables
    /\ \A c \in Nat : c <= Cardinality(ReaderRuns) + MaxTables => c \in Chans
  <1>1. MaxRuns \in Nat /\ MaxSinks \in Nat /\ MaxTables \in Nat /\ MaxUsers \in Nat
    BY PubSubAssumption
  <1>2. IsFiniteSet(ReaderRuns) /\ Cardinality(ReaderRuns) \in Nat
    <2>1. IsFiniteSet(1..MaxRuns)
      BY <1>1, FS_Interval
    <2>2. IsFiniteSet(Readers)
      BY PubSubAssumption
    <2>3. IsFiniteSet(ReaderRuns)
      BY <2>1, <2>2, FS_Product DEF ReaderRuns
    <2> QED BY <2>3, FS_CardinalityType
  <1>3. /\ 0 \in Chans /\ Chans \subseteq Nat
        /\ \A c \in Chans : c <= Cardinality(ReaderRuns) + MaxTables
        /\ \A c \in Nat : c <= Cardinality(ReaderRuns) + MaxTables => c \in Chans
    BY <1>1, <1>2 DEF Chans
  <1> QED BY <1>1, <1>2, <1>3, PubSubAssumption DEF SourceIds

\* What addPubConsumer and the removals make of a topic.
LEMMA AddFields ==
    ASSUME NEW c \in PubConsumers, NEW s \in SourceIds, NEW ch \in Chans,
           NEW a, a = AddPubConsumer(c, s, ch)
    PROVE  /\ a \in PubConsumers /\ a.exists /\ a.count = c.count
           /\ a.consumers[s] = ch
           /\ c.consumers[s] # 0 => a.replaced[s] = c.replaced[s] + 1
           /\ c.consumers[s] = 0 => a.replaced[s] = c.replaced[s]
           /\ \A o \in SourceIds \ {s} :
                 a.consumers[o] = c.consumers[o] /\ a.replaced[o] = c.replaced[o]
  <1> DEFINE con == [c.consumers EXCEPT ![s] = ch]
             rep == [c.replaced EXCEPT ![s] = IF c.consumers[s] # 0 THEN @ + 1 ELSE @]
  <1>1. c.consumers \in [SourceIds -> Chans] /\ c.replaced \in [SourceIds -> Nat]
    BY DEF PubConsumers
  <1>2. con \in [SourceIds -> Chans] /\ rep \in [SourceIds -> Nat]
    BY <1>1
  <1>3. a = [exists |-> TRUE, count |-> c.count, consumers |-> con, replaced |-> rep]
    BY DEF AddPubConsumer
  <1>4. /\ con[s] = ch /\ rep[s] = IF c.consumers[s] # 0 THEN c.replaced[s] + 1 ELSE c.replaced[s]
        /\ \A o \in SourceIds \ {s} : con[o] = c.consumers[o] /\ rep[o] = c.replaced[o]
    BY <1>1
  <1> HIDE DEF con, rep
  <1>5. /\ a \in PubConsumers /\ a.exists /\ a.count = c.count
        /\ a.consumers = con /\ a.replaced = rep
    BY <1>2, <1>3 DEF PubConsumers
  <1> QED BY <1>4, <1>5

LEMMA CountFields ==
    ASSUME NEW c \in PubConsumers, NEW n \in Int
    PROVE  LET r == [c EXCEPT !.count = n] IN
           /\ r \in PubConsumers /\ r.count = n /\ r.exists = c.exists
           /\ r.consumers = c.consumers /\ r.replaced = c.replaced
  BY DEF PubConsumers

LEMMA NoTopicFields ==
    /\ NoTopic \in PubConsumers /\ ~NoTopic.exists /\ NoTopic.count = 0
    /\ \A s \in SourceIds : NoTopic.consumers[s] = 0 /\ NoTopic.replaced[s] = 0
    /\ NoTopic.replaced \in [SourceIds -> Nat]
    /\ Unused(NoTopic)
  BY PubConstants DEF NoTopic, PubConsumers, Unused

LEMMA RemoveFields ==
    ASSUME NEW c \in PubConsumers, NEW s \in SourceIds
    PROVE  LET r == RemovePubConsumer(c, s) IN
           /\ r \in PubConsumers
           /\ c.consumers[s] # 0 /\ c.replaced[s] > 0 =>
                 /\ r.exists = c.exists /\ r.count = c.count /\ r.consumers = c.consumers
                 /\ r.replaced = [c.replaced EXCEPT ![s] = @ - 1]
           /\ c.consumers[s] = 0 \/ c.replaced[s] = 0 =>
                 \/ /\ r.exists = c.exists /\ r.count = c.count /\ r.replaced = c.replaced
                    /\ r.consumers = [c.consumers EXCEPT ![s] = 0]
                    /\ ~Unused(r)
                 \/ /\ r = NoTopic /\ c.count = 0
                    /\ \A o \in SourceIds : o # s => c.consumers[o] = 0
  <1> DEFINE con == [c.consumers EXCEPT ![s] = 0]
             rep == [c.replaced EXCEPT ![s] = @ - 1]
             left == [c EXCEPT !.consumers[s] = 0]
             less == [c EXCEPT !.replaced[s] = @ - 1]
  <1>1. con \in [SourceIds -> Chans] /\ c.consumers[s] \in Nat /\ c.replaced[s] \in Nat
        /\ (c.replaced[s] > 0 => rep \in [SourceIds -> Nat])
    <2>1. /\ c.consumers \in [SourceIds -> Chans] /\ c.replaced \in [SourceIds -> Nat]
          /\ 0 \in Chans /\ Chans \subseteq Nat
      BY PubConstants DEF PubConsumers
    <2> HIDE DEF left, less
    <2>2. con \in [SourceIds -> Chans] /\ c.consumers[s] \in Nat /\ c.replaced[s] \in Nat
      BY <2>1
    <2>3. c.replaced[s] > 0 => rep \in [SourceIds -> Nat]
      BY <2>1, <2>2
    <2> QED BY <2>2, <2>3
  <1>2. left = [exists |-> c.exists, count |-> c.count, consumers |-> con,
                replaced |-> c.replaced]
    BY DEF PubConsumers
  <1>3. less = [exists |-> c.exists, count |-> c.count, consumers |-> c.consumers,
                replaced |-> rep]
    BY DEF PubConsumers
  <1>4. RemovePubConsumer(c, s) =
           IF c.consumers[s] # 0 /\ c.replaced[s] > 0 THEN less
           ELSE IF Unused(left) THEN NoTopic ELSE left
    BY DEF RemovePubConsumer
  <1> HIDE DEF left, less
  <1>5. /\ left \in PubConsumers /\ left.exists = c.exists /\ left.count = c.count
        /\ left.replaced = c.replaced /\ left.consumers = con
    <2> HIDE DEF con
    <2> QED BY <1>1, <1>2 DEF PubConsumers
  <1>6. CASE c.consumers[s] # 0 /\ c.replaced[s] > 0
    <2> HIDE DEF rep
    <2>1. /\ less \in PubConsumers /\ less.exists = c.exists /\ less.count = c.count
          /\ less.replaced = rep /\ less.consumers = c.consumers
      BY <1>1, <1>3, <1>6 DEF PubConsumers
    <2> QED BY <1>4, <1>6, <2>1 DEF rep
  <1>7. CASE ~(c.consumers[s] # 0 /\ c.replaced[s] > 0) /\ Unused(left)
    <2>1. c.count = 0 /\ \A o \in SourceIds : con[o] = 0
      BY <1>5, <1>7 DEF Unused
    <2>2. \A o \in SourceIds : o # s => c.consumers[o] = 0
      BY <2>1 DEF PubConsumers
    <2> QED BY <1>1, <1>4, <1>7, <2>1, <2>2, NoTopicFields
  <1>8. CASE ~(c.consumers[s] # 0 /\ c.replaced[s] > 0) /\ ~Unused(left)
    BY <1>1, <1>4, <1>5, <1>8
  <1> QED BY <1>6, <1>7, <1>8

LEMMA RemoveWildFields ==
    ASSUME NEW c \in PubConsumers, NEW s \in SourceIds
    PROVE  LET r == RemoveWildConsumer(c, s) IN
           /\ r \in PubConsumers /\ r.exists = c.exists /\ r.count = c.count
           /\ \A o \in SourceIds : o # s =>
                 r.consumers[o] = c.consumers[o] /\ r.replaced[o] = c.replaced[o]
           /\ c = NoTopic => r = NoTopic
  <1> DEFINE con == [c.consumers EXCEPT ![s] = 0]
             rep == [c.replaced EXCEPT ![s] = @ - 1]
             left == [c EXCEPT !.consumers[s] = 0]
             less == [c EXCEPT !.replaced[s] = @ - 1]
  <1>1. con \in [SourceIds -> Chans] /\ c.consumers[s] \in Nat /\ c.replaced[s] \in Nat
        /\ (c.replaced[s] > 0 => rep \in [SourceIds -> Nat])
        /\ \A o \in SourceIds : o # s => con[o] = c.consumers[o] /\ rep[o] = c.replaced[o]
    <2>1. /\ c.consumers \in [SourceIds -> Chans] /\ c.replaced \in [SourceIds -> Nat]
          /\ 0 \in Chans /\ Chans \subseteq Nat
      BY PubConstants DEF PubConsumers
    <2> HIDE DEF left, less
    <2>2. con \in [SourceIds -> Chans] /\ c.consumers[s] \in Nat /\ c.replaced[s] \in Nat
      BY <2>1
    <2>3. c.replaced[s] > 0 => rep \in [SourceIds -> Nat]
      BY <2>1, <2>2
    <2>4. \A o \in SourceIds : o # s => con[o] = c.consumers[o] /\ rep[o] = c.replaced[o]
      BY <2>1
    <2> QED BY <2>2, <2>3, <2>4
  <1>2. left = [exists |-> c.exists, count |-> c.count, consumers |-> con,
                replaced |-> c.replaced]
    BY DEF PubConsumers
  <1>3. less = [exists |-> c.exists, count |-> c.count, consumers |-> c.consumers,
                replaced |-> rep]
    BY DEF PubConsumers
  <1>4. RemoveWildConsumer(c, s) =
           IF c.consumers[s] = 0 THEN c ELSE IF c.replaced[s] > 0 THEN less ELSE left
    BY DEF RemoveWildConsumer
  <1> HIDE DEF left, less, con, rep
  <1>5. CASE c.consumers[s] = 0
    BY <1>4, <1>5
  <1>6. CASE c.consumers[s] # 0 /\ c.replaced[s] > 0
    <2>1. /\ less \in PubConsumers /\ less.exists = c.exists /\ less.count = c.count
          /\ less.replaced = rep /\ less.consumers = c.consumers
      BY <1>1, <1>3, <1>6 DEF PubConsumers
    <2> QED BY <1>1, <1>4, <1>6, <2>1, NoTopicFields
  <1>7. CASE c.consumers[s] # 0 /\ ~(c.replaced[s] > 0)
    <2>1. /\ left \in PubConsumers /\ left.exists = c.exists /\ left.count = c.count
          /\ left.replaced = c.replaced /\ left.consumers = con
      BY <1>1, <1>2 DEF PubConsumers
    <2> QED BY <1>1, <1>4, <1>7, <2>1, NoTopicFields
  <1> QED BY <1>5, <1>6, <1>7

\* The latest channel of a source is made of whose the channels are.
LEMMA LatestSame ==
    ASSUME NEW s, DOMAIN chans' = DOMAIN chans, \A i \in DOMAIN chans : chans'[i].of = chans[i].of
    PROVE  Latest(s)' = Latest(s)
  <1>1. {i \in DOMAIN chans : chans[i].of = s}' = {i \in DOMAIN chans : chans[i].of = s}
    OBVIOUS
  <1> QED BY <1>1 DEF Latest

LEMMA LatestAppended ==
    ASSUME NEW s \in SourceIds, chans \in Seq(Channel),
           chans' = Append(chans, [of |-> s, closed |-> FALSE])
    PROVE  /\ chans' \in Seq(Channel) /\ Len(chans) \in Nat /\ Len(chans') = Len(chans) + 1
           /\ Latest(s)' = Len(chans) + 1
           /\ \A o \in SourceIds \ {s} : Latest(o)' = Latest(o)
  <1> DEFINE e == [of |-> s, closed |-> FALSE]
  <1>1. e \in Channel /\ e.of = s
    BY DEF Channel
  <1> HIDE DEF e
  <1>2. /\ chans' \in Seq(Channel) /\ Len(chans) \in Nat /\ Len(chans') = Len(chans) + 1
        /\ DOMAIN chans = 1..Len(chans) /\ DOMAIN chans' = 1..(Len(chans) + 1)
        /\ chans'[Len(chans) + 1] = e
        /\ \A i \in DOMAIN chans : chans'[i] = chans[i]
    BY <1>1, AppendFacts DEF e
  <1>3. Latest(s)' = Len(chans) + 1
    <2> DEFINE S == {0} \cup {i \in DOMAIN chans' : chans'[i].of = s}
    <2>1. Len(chans) + 1 \in S /\ \A i \in S : i \in Nat /\ Len(chans) + 1 >= i
      BY <1>1, <1>2
    <2>2. Latest(s)' = Max(S)
      BY DEF Latest
    <2> HIDE DEF S
    <2>3. Max(S) \in S /\ \A i \in S : Max(S) >= i
      BY <2>1 DEF Max
    <2> QED BY <1>2, <2>1, <2>2, <2>3
  <1>4. ASSUME NEW o \in SourceIds \ {s} PROVE Latest(o)' = Latest(o)
    <2>1. {i \in DOMAIN chans' : chans'[i].of = o} = {i \in DOMAIN chans : chans[i].of = o}
      BY <1>1, <1>2
    <2> QED BY <2>1 DEF Latest
  <1> QED BY <1>2, <1>3, <1>4

\* What a source without a wildcard has subscribed to is not given up.
LEMMA ReadersKeep ==
    ASSUME PubInv, NEW s \in Readers \ wild
    PROVE  /\ topics[PlainTopic].consumers[s] # 0 => topics[PlainTopic].exists
           /\ topics[PlainTopic].consumers[s] = 0 =>
                 OpenRuns(s) = {} /\ topics[PlainTopic].replaced[s] = 0
  <1>1. ReaderInv(s) /\ PubTypes /\ s \in SourceIds
    BY PubConstants DEF PubInv
  <1>2. ~topics[PlainTopic].exists => topics[PlainTopic].consumers[s] = 0
    BY <1>1, PubConstants, NoTopicFields DEF PubTypes
  <1> QED BY <1>1, <1>2 DEF ReaderInv

\* A reader of which nothing changes.
LEMMA ReaderSame ==
    ASSUME NEW s \in Readers \ wild, wild' = wild, ReaderInv(s),
           OpenRuns(s)' = OpenRuns(s), Latest(s)' = Latest(s),
           topics'[PlainTopic].consumers[s] = topics[PlainTopic].consumers[s],
           topics'[PlainTopic].replaced[s] = topics[PlainTopic].replaced[s],
           topics[PlainTopic].consumers[s] # 0 => topics'[PlainTopic].exists
    PROVE  ReaderInv(s)'
  <1>1. ReaderInv(s)' = LET c == topics'[PlainTopic] IN
           IF OpenRuns(s) = {} THEN c.consumers[s] = 0 /\ c.replaced[s] = 0
           ELSE /\ c.exists /\ Latest(s) # 0 /\ c.consumers[s] = Latest(s)
                /\ c.replaced[s] = Cardinality(OpenRuns(s)) - 1
    BY DEF ReaderInv
  <1>2. CASE OpenRuns(s) = {}
    BY <1>1, <1>2 DEF ReaderInv
  <1>3. CASE OpenRuns(s) # {}
    <2>1. Latest(s) # 0 /\ topics[PlainTopic].consumers[s] = Latest(s)
          /\ topics[PlainTopic].replaced[s] = Cardinality(OpenRuns(s)) - 1
      BY <1>3 DEF ReaderInv
    <2> QED BY <1>1, <1>3, <2>1
  <1> QED BY <1>2, <1>3

\* A sink comes or goes.
LEMMA SinkStep ==
    ASSUME PubInv, NEW t \in Topics, NEW new \in PubConsumers, NEW n \in 0..MaxSinks,
           topics' = [topics EXCEPT ![t] = new], sinks' = [sinks EXCEPT ![t] = n],
           new.count = n, n > 0 => new.exists, new.exists /\ wild = {} => ~Unused(new),
           ~new.exists => new = NoTopic,
           \A s \in SourceIds \ wild : new.consumers[s] = topics[t].consumers[s],
           \A s \in Readers \ wild : t = PlainTopic =>
              /\ new.replaced[s] = topics[t].replaced[s]
              /\ topics[t].consumers[s] # 0 => new.exists,
           UNCHANGED <<subExps, chans, readerVars, tableVars, panicked>>
    PROVE  PubInv'
  <1>1. PubTypes /\ WildInv /\ ChannelInv /\ SubscribedInv
        /\ UNCHANGED <<subExps, chans, wild, readers, tables, database, panicked>>
    BY DEF PubInv, readerVars, tableVars
  <1>2. /\ topics'[t] = new /\ \A u \in Topics \ {t} : topics'[u] = topics[u]
        /\ sinks'[t] = n /\ \A u \in Topics \ {t} : sinks'[u] = sinks[u]
    BY <1>1 DEF PubTypes
  <1>3. PubTypes'
    <2>1. topics' \in [Topics -> PubConsumers] /\ sinks' \in [Topics -> 0..MaxSinks]
      BY <1>1 DEF PubTypes
    <2>2. \A u \in Topics : ~topics'[u].exists => topics'[u] = NoTopic
      BY <1>1, <1>2 DEF PubTypes
    <2> QED BY <1>1, <2>1, <2>2 DEF PubTypes
  <1>4. WildInv'
    BY <1>1 DEF WildInv
  <1>5. ChannelInv'
    BY <1>1 DEF ChannelInv, SubscribedRuns, SubscribedTables
  <1>6. /\ Store \in SourceIds \ wild /\ PlainTopic \in Topics
        /\ \A s \in Readers \ wild : s \in SourceIds \ wild
    BY <1>1, PubConstants DEF PubTypes
  <1>7. SubscribedInv'
    <2>1. topics'[PlainTopic].consumers[Store] = topics[PlainTopic].consumers[Store]
      BY <1>2, <1>6
    <2> QED BY <1>1, <2>1 DEF SubscribedInv
  <1>8. ASSUME NEW s \in Readers \ wild PROVE ReaderInv(s)'
    <2>1. OpenRuns(s)' = OpenRuns(s) /\ Latest(s)' = Latest(s)
      BY <1>1 DEF OpenRuns, Latest
    <2>2. ReaderInv(s)
      BY DEF PubInv
    <2>3. topics'[PlainTopic].consumers[s] = topics[PlainTopic].consumers[s]
          /\ topics'[PlainTopic].replaced[s] = topics[PlainTopic].replaced[s]
          /\ (topics[PlainTopic].consumers[s] # 0 => topics'[PlainTopic].exists)
      BY <1>2, <1>6, ReadersKeep
    <2> QED BY <1>1, <2>1, <2>2, <2>3, ReaderSame
  <1>9. ASSUME NEW u \in Topics PROVE TopicInv(u)'
    <2>1. CASE u = t
      BY <1>1, <1>2, <2>1 DEF TopicInv, Unused
    <2>2. CASE u # t
      <3>1. TopicInv(u)
        BY DEF PubInv
      <3> QED BY <1>1, <1>2, <2>2, <3>1 DEF TopicInv, Unused
    <2> QED BY <2>1, <2>2
  <1>10. ASSUME NEW k \in Keys PROVE UserInv(k)'
    BY <1>1 DEF PubInv, UserInv
  <1>11. \A s \in (Readers \ wild)' : ReaderInv(s)'
    BY <1>1, <1>8
  <1> QED BY <1>3, <1>4, <1>5, <1>7, <1>9, <1>10, <1>11 DEF PubInv

\* CreatePub
LEMMA ConnectStep ==
    ASSUME PubInv, NEW t \in Topics, SinkConnects(t)
    PROVE  PubInv'
  <1> DEFINE c == topics[t]
             more == [c EXCEPT !.count = @ + 1]
             fresh == [exists |-> TRUE, count |-> 1, consumers |-> subExps,
                       replaced |-> NoTopic.replaced]
             new == IF c.exists THEN more ELSE fresh
             n == sinks[t] + 1
  <1>1. PubTypes /\ WildInv /\ TopicInv(t)
    BY DEF PubInv
  <1>2. c \in PubConsumers /\ c.count = sinks[t] /\ sinks[t] \in Nat /\ n \in 0..MaxSinks
    <2>1. c \in PubConsumers /\ c.count = sinks[t]
      BY <1>1 DEF PubTypes, TopicInv
    <2>2. sinks[t] \in 0..MaxSinks /\ sinks[t] < MaxSinks /\ MaxSinks \in Nat
      BY <1>1, PubConstants DEF PubTypes, SinkConnects
    <2> QED BY <2>1, <2>2
  <1>3. topics' = [topics EXCEPT ![t] = new] /\ sinks' = [sinks EXCEPT ![t] = n]
        /\ UNCHANGED <<subExps, chans, readerVars, tableVars, panicked>>
    <2>1. topics' = [topics EXCEPT ![t] = new]
      BY DEF SinkConnects, CreatePub
    <2> QED BY <1>1, <2>1 DEF SinkConnects, PubTypes
  <1>4. c.exists \/ c = NoTopic
    BY <1>1 DEF PubTypes
  <1>5. /\ new \in PubConsumers /\ new.count = n /\ new.exists = TRUE
        /\ \A s \in SourceIds \ wild : new.consumers[s] = c.consumers[s]
        /\ \A s \in Readers \ wild : new.replaced[s] = c.replaced[s]
    <2>1. CASE c.exists
      <3>1. c.count + 1 = n /\ n \in Int
        BY <1>2
      <3> QED BY <1>2, <2>1, <3>1, CountFields
    <2>2. CASE ~c.exists
      <3>1. c = NoTopic
        BY <1>4, <2>2
      <3>2. n = 1 /\ subExps \in [SourceIds -> Chans]
        BY <1>1, <1>2, <3>1, NoTopicFields DEF PubTypes
      <3>3. fresh \in PubConsumers
        BY <3>2, NoTopicFields DEF PubConsumers
      <3>4. \A s \in SourceIds \ wild : subExps[s] = c.consumers[s]
        BY <1>1, <3>1, NoTopicFields DEF WildInv
      <3> QED BY <2>2, <3>1, <3>2, <3>3, <3>4
    <2> QED BY <2>1, <2>2
  <1>6. new.exists /\ wild = {} => ~Unused(new)
    BY <1>2, <1>5 DEF Unused
  <1> HIDE DEF new, n
  <1> QED BY <1>2, <1>3, <1>5, <1>6, SinkStep

\* RemovePub
LEMMA DisconnectStep ==
    ASSUME PubInv, NEW t \in Topics, SinkCloses(t)
    PROVE  PubInv'
  <1> DEFINE c == topics[t]
             less == [c EXCEPT !.count = @ - 1]
             new == IF Unused(less) THEN NoTopic ELSE less
             n == sinks[t] - 1
  <1>1. PubTypes /\ TopicInv(t)
    BY DEF PubInv
  <1>2. c \in PubConsumers /\ c.count = sinks[t] /\ n \in 0..MaxSinks /\ c.exists
    <2>1. c \in PubConsumers /\ c.count = sinks[t] /\ (sinks[t] > 0 => c.exists)
      BY <1>1 DEF PubTypes, TopicInv
    <2>2. sinks[t] \in 0..MaxSinks /\ sinks[t] > 0 /\ MaxSinks \in Nat
      BY <1>1, PubConstants DEF PubTypes, SinkCloses
    <2> QED BY <2>1, <2>2
  <1>3. topics' = [topics EXCEPT ![t] = new] /\ sinks' = [sinks EXCEPT ![t] = n]
        /\ UNCHANGED <<subExps, chans, readerVars, tableVars, panicked>>
    <2>1. topics' = [topics EXCEPT ![t] = new]
      BY <1>2 DEF SinkCloses, RemovePub
    <2> QED BY <1>1, <2>1 DEF SinkCloses, PubTypes
  <1>4. /\ less \in PubConsumers /\ less.count = n /\ less.exists = c.exists
        /\ less.consumers = c.consumers /\ less.replaced = c.replaced
    <2>1. c.count - 1 = n /\ n \in Int
      BY <1>2
    <2> QED BY <1>2, <2>1, CountFields
  <1> HIDE DEF less
  <1>5. CASE Unused(less)
    <2>1. n = 0 /\ \A s \in SourceIds : c.consumers[s] = 0
      BY <1>4, <1>5 DEF Unused
    <2>2. \A s \in Readers \ wild : t = PlainTopic => c.replaced[s] = 0
      BY <2>1, ReadersKeep, PubConstants
    <2>3. new = NoTopic
      BY <1>5
    <2>4. /\ new \in PubConsumers /\ new.count = n /\ ~new.exists
          /\ \A s \in SourceIds \ wild : new.consumers[s] = c.consumers[s]
          /\ \A s \in Readers \ wild : t = PlainTopic =>
                new.replaced[s] = c.replaced[s] /\ c.consumers[s] = 0
      BY <2>1, <2>2, <2>3, NoTopicFields, PubConstants
    <2>5. ~(n > 0)
      BY <2>1
    <2> HIDE DEF new, n
    <2>6. /\ n > 0 => new.exists
          /\ new.exists /\ wild = {} => ~Unused(new)
          /\ \A s \in Readers \ wild : t = PlainTopic =>
                /\ new.replaced[s] = topics[t].replaced[s]
                /\ topics[t].consumers[s] # 0 => new.exists
      BY <2>4, <2>5
    <2> QED BY <1>2, <1>3, <2>3, <2>4, <2>6, SinkStep
  <1>6. CASE ~Unused(less)
    <2>1. new = less
      BY <1>6
    <2> HIDE DEF new, n
    <2> QED BY <1>2, <1>3, <1>4, <1>6, <2>1, SinkStep
  <1> QED BY <1>5, <1>6

\* Nothing of the manager changes.
LEMMA TopicsStay ==
    ASSUME PubInv, UNCHANGED <<topics, subExps, chans, wild, sinks>>,
           PubTypes', ChannelInv', SubscribedInv', \A k \in Keys : UserInv(k)',
           \A s \in Readers \ wild : OpenRuns(s)' = OpenRuns(s)
    PROVE  PubInv'
  <1>1. WildInv'
    BY DEF PubInv, WildInv
  <1>2. ASSUME NEW s \in (Readers \ wild)' PROVE ReaderInv(s)'
    <2>1. s \in Readers \ wild /\ Latest(s)' = Latest(s)
      BY DEF Latest
    <2>2. ReaderInv(s)
      BY <2>1 DEF PubInv
    <2> QED BY <2>1, <2>2, ReadersKeep, ReaderSame
  <1>3. ASSUME NEW t \in Topics PROVE TopicInv(t)'
    <2>1. TopicInv(t)
      BY DEF PubInv
    <2> QED BY <2>1 DEF TopicInv, Unused
  <1> QED BY <1>1, <1>2, <1>3 DEF PubInv

\* A run starts, or is told to stop: no one subscribes by that.
LEMMA RunsStay ==
    ASSUME PubInv, NEW x \in ReaderRuns, NEW new \in Reader,
           readers' = [readers EXCEPT ![x] = new],
           new.pc \in {"on", "closed"} <=> readers[x].pc \in {"on", "closed"},
           new.pc = "on" <=> readers[x].pc = "on",
           UNCHANGED <<topics, subExps, chans, wild, sinks, tableVars>>, panicked' \in BOOLEAN
    PROVE  PubInv'
  <1>1. PubTypes /\ ChannelInv /\ SubscribedInv /\ UNCHANGED <<tables, database>>
    BY DEF PubInv, tableVars
  <1>2. readers'[x] = new /\ \A y \in ReaderRuns \ {x} : readers'[y] = readers[y]
    BY <1>1 DEF PubTypes
  <1>3. PubTypes'
    BY <1>1 DEF PubTypes
  <1>4. ChannelInv'
    <2>1. SubscribedRuns' = SubscribedRuns
      BY <1>2 DEF SubscribedRuns
    <2> QED BY <1>1, <2>1 DEF ChannelInv, SubscribedTables
  <1>5. SubscribedInv' /\ \A k \in Keys : UserInv(k)'
    BY <1>1 DEF PubInv, SubscribedInv, UserInv
  <1>6. ASSUME NEW s \in Readers \ wild PROVE OpenRuns(s)' = OpenRuns(s)
    <2>1. \A r \in 1..MaxRuns : <<s, r>> \in ReaderRuns
      BY DEF ReaderRuns
    <2> QED BY <1>2, <2>1 DEF OpenRuns
  <1> QED BY <1>3, <1>4, <1>5, <1>6, TopicsStay

LEMMA ReaderRunsStay ==
    ASSUME PubInv, NEW s, NEW r, <<s, r>> \in ReaderRuns,
           ReaderStarts(s, r) \/ ReaderStops(s, r)
    PROVE  PubInv'
  <1> DEFINE x == <<s, r>>
             old == readers[x]
  <1>1. PubTypes /\ old \in Reader
    BY DEF PubInv, PubTypes
  <1>2. CASE ReaderStarts(s, r)
    <2> DEFINE new == [old EXCEPT !.pc = "starting"]
    <2>1. new \in Reader /\ new.pc = "starting" /\ old.pc = "new"
      BY <1>1, <1>2 DEF Reader, ReaderStarts
    <2>2. readers' = [readers EXCEPT ![x] = new]
      BY <1>1, <1>2 DEF PubTypes, Reader, ReaderStarts
    <2>3. UNCHANGED <<topics, subExps, chans, wild, sinks, tableVars>> /\ panicked' \in BOOLEAN
      BY <1>1, <1>2 DEF PubTypes, ReaderStarts
    <2> HIDE DEF new
    <2> QED BY <2>1, <2>2, <2>3, RunsStay
  <1>3. CASE ReaderStops(s, r)
    <2> DEFINE new == [old EXCEPT !.stopped = TRUE]
    <2>1. new \in Reader /\ new.pc = old.pc
      BY <1>1, <1>3 DEF Reader
    <2>2. readers' = [readers EXCEPT ![x] = new]
      BY <1>1, <1>3 DEF PubTypes, Reader, ReaderStops
    <2>3. UNCHANGED <<topics, subExps, chans, wild, sinks, tableVars>> /\ panicked' \in BOOLEAN
      BY <1>1, <1>3 DEF PubTypes, ReaderStops
    <2> HIDE DEF new
    <2> QED BY <2>1, <2>2, <2>3, RunsStay
  <1> QED BY <1>2, <1>3

\* doProduce
LEMMA ProduceStep ==
    ASSUME PubInv, NEW t \in Topics, Produce(t)
    PROVE  PubInv'
  <1>1. /\ PubTypes /\ ChannelInv /\ SubscribedInv /\ panicked' \in BOOLEAN
        /\ UNCHANGED <<topics, subExps, chans, wild, readers, sinks, tables, database>>
    BY DEF PubInv, PubTypes, Produce, readerVars, tableVars
  <1>2. PubTypes' /\ ChannelInv' /\ SubscribedInv'
    BY <1>1 DEF PubTypes, ChannelInv, SubscribedInv, SubscribedRuns, SubscribedTables
  <1>3. \A k \in Keys : UserInv(k)'
    BY <1>1 DEF PubInv, UserInv
  <1>4. \A s \in Readers \ wild : OpenRuns(s)' = OpenRuns(s)
    BY <1>1 DEF OpenRuns
  <1> QED BY <1>1, <1>2, <1>3, <1>4, TopicsStay

\* Only tables and their users change.
LEMMA TablesStay ==
    ASSUME PubInv, UNCHANGED <<topics, subExps, chans, readerVars, sinks, panicked>>,
           tables' \in Seq(Table), Len(tables') <= MaxTables, database' \in [Keys -> User],
           SubscribedTables' = SubscribedTables, SubscribedInv', \A k \in Keys : UserInv(k)'
    PROVE  PubInv'
  <1>1. PubTypes /\ ChannelInv /\ UNCHANGED <<wild, readers>>
    BY DEF PubInv, readerVars
  <1>2. PubTypes'
    BY <1>1 DEF PubTypes
  <1>3. ChannelInv'
    BY <1>1 DEF ChannelInv, SubscribedRuns
  <1>4. \A s \in Readers \ wild : OpenRuns(s)' = OpenRuns(s)
    BY <1>1 DEF OpenRuns
  <1> QED BY <1>1, <1>2, <1>3, <1>4, TopicsStay

\* A table whose place in the list and key stay.
LEMMA TableChanges ==
    ASSUME PubInv, NEW i \in DOMAIN tables, NEW new \in Table,
           tables' = [tables EXCEPT ![i] = new],
           new.key = tables[i].key, new.ch = tables[i].ch,
           new.pc = "start" <=> tables[i].pc = "start"
    PROVE  /\ tables' \in Seq(Table) /\ Len(tables') <= MaxTables
           /\ DOMAIN tables' = DOMAIN tables /\ tables'[i] = new
           /\ \A j \in DOMAIN tables : j # i => tables'[j] = tables[j]
           /\ SubscribedTables' = SubscribedTables
           /\ UNCHANGED <<topics, chans>> => SubscribedInv'
  <1>1. tables \in Seq(Table) /\ Len(tables) <= MaxTables /\ SubscribedInv
    BY DEF PubInv, PubTypes, ChannelInv
  <1>2. /\ tables' \in Seq(Table) /\ Len(tables') = Len(tables)
        /\ DOMAIN tables' = DOMAIN tables /\ tables'[i] = new
        /\ \A j \in DOMAIN tables : j # i => tables'[j] = tables[j]
    BY <1>1
  <1>3. SubscribedTables' = SubscribedTables
    BY <1>2 DEF SubscribedTables
  <1>4. ASSUME UNCHANGED <<topics, chans>> PROVE SubscribedInv'
    BY <1>1, <1>2, <1>4 DEF SubscribedInv
  <1> QED BY <1>1, <1>2, <1>3, <1>4

LEMMA TableStep ==
    ASSUME PubInv, NEW i \in DOMAIN tables, TableRuns(i) \/ TableEnds(i)
    PROVE  PubInv'
  <1> DEFINE old == tables[i]
  <1>1. PubTypes /\ old \in Table
    BY DEF PubInv, PubTypes
  <1>2. ASSUME NEW p \in {"running", "end"}, tables' = [tables EXCEPT ![i].pc = p],
               old.pc # "start",
               UNCHANGED <<topics, subExps, chans, readerVars, sinks, database, panicked>>
        PROVE  PubInv'
    <2> DEFINE new == [old EXCEPT !.pc = p]
    <2>1. /\ new \in Table /\ new.pc = p /\ new.key = old.key /\ new.ch = old.ch
          /\ new.cancelled = old.cancelled
      BY <1>1 DEF Table
    <2>2. tables' = [tables EXCEPT ![i] = new]
      BY <1>2
    <2> HIDE DEF new
    <2>3. /\ tables' \in Seq(Table) /\ Len(tables') <= MaxTables
          /\ DOMAIN tables' = DOMAIN tables /\ tables'[i] = new
          /\ \A j \in DOMAIN tables : j # i => tables'[j] = tables[j]
          /\ SubscribedTables' = SubscribedTables /\ SubscribedInv'
      BY <1>2, <2>1, <2>2, TableChanges
    <2>4. \A k \in Keys : UserInv(k)'
      BY <1>2, <2>1, <2>3 DEF PubInv, UserInv
    <2>5. database' \in [Keys -> User]
      BY <1>1, <1>2 DEF PubTypes
    <2> QED BY <1>2, <2>3, <2>4, <2>5, TablesStay
  <1> QED BY <1>2 DEF TableRuns, TableEnds

\* Reg
LEMMA RegStep ==
    ASSUME PubInv, NEW k \in Keys, Reg(k)
    PROVE  PubInv'
  <1>1. /\ PubTypes /\ Len(tables) <= MaxTables /\ SubscribedInv /\ UserInv(k)
        /\ UNCHANGED <<topics, subExps, chans, readerVars, sinks, panicked>>
    BY DEF PubInv, ChannelInv, Reg
  <1>2. /\ tables \in Seq(Table) /\ database \in [Keys -> User] /\ database[k] \in User
        /\ database[k].count \in 0..MaxUsers /\ database[k].t \in 0..MaxTables
        /\ MaxUsers \in Nat /\ MaxTables \in Nat
    BY <1>1, PubConstants DEF PubTypes, User
  <1>3. database[k].count + 1 \in 0..MaxUsers /\ database[k].count \in Nat
    BY <1>2 DEF Reg
  <1>4. CASE database[k].count = 0
    <2> DEFINE e == [key |-> k, pc |-> "start", cancelled |-> FALSE, ch |-> 0]
               new == [count |-> 1, t |-> Len(tables) + 1]
    <2>1. /\ Len(tables) < MaxTables /\ tables' = Append(tables, e)
          /\ database' = [database EXCEPT ![k] = new]
      BY <1>4 DEF Reg
    <2>2. /\ e \in Table /\ e.key = k /\ e.pc = "start" /\ e.cancelled = FALSE /\ e.ch = 0
      BY PubConstants DEF Table
    <2> HIDE DEF e
    <2>3. /\ tables' \in Seq(Table) /\ Len(tables') = Len(tables) + 1 /\ Len(tables) \in Nat
          /\ DOMAIN tables = 1..Len(tables) /\ DOMAIN tables' = 1..(Len(tables) + 1)
          /\ tables'[Len(tables) + 1] = e
          /\ \A i \in DOMAIN tables : tables'[i] = tables[i]
      BY <1>2, <2>1, <2>2, AppendFacts
    <2>4. new \in User /\ new.t = Len(tables) + 1
      <3>1. 1 \in 0..MaxUsers /\ Len(tables) + 1 \in 0..MaxTables
        BY <1>2, <1>3, <1>4, <2>1, <2>3
      <3> QED BY <3>1 DEF User
    <2> HIDE DEF new
    <2>5. database' \in [Keys -> User] /\ Len(tables') <= MaxTables
      BY <1>2, <2>1, <2>3, <2>4
    <2>6. SubscribedTables' = SubscribedTables
      BY <2>2, <2>3 DEF SubscribedTables
    <2>7. SubscribedInv'
      <3>1. topics[PlainTopic].consumers[Store] >= 0
        <4>1. topics[PlainTopic] \in PubConsumers /\ Store \in SourceIds /\ Chans \subseteq Nat
          BY <1>1, PubConstants DEF PubTypes
        <4>2. topics[PlainTopic].consumers[Store] \in Chans
          BY <4>1 DEF PubConsumers
        <4>3. topics[PlainTopic].consumers[Store] \in Nat
          BY <4>1, <4>2
        <4> QED BY <4>3
      <3> QED BY <1>1, <2>2, <2>3, <3>1 DEF SubscribedInv
    <2>8. ASSUME NEW o \in Keys PROVE UserInv(o)'
      <3>1. CASE o = k
        <4>1. database'[o] = new
          BY <1>2, <2>1, <3>1
        <4> QED BY <2>2, <2>3, <2>4, <3>1, <4>1 DEF UserInv
      <3>2. CASE o # k
        <4>1. database'[o] = database[o] /\ UserInv(o)
          BY <1>2, <2>1, <3>2 DEF PubInv
        <4> QED BY <2>3, <4>1 DEF UserInv
      <3> QED BY <3>1, <3>2
    <2> QED BY <1>1, <2>3, <2>5, <2>6, <2>7, <2>8, TablesStay
  <1>5. CASE database[k].count # 0
    <2> DEFINE new == [database[k] EXCEPT !.count = @ + 1]
    <2>1. UNCHANGED tables /\ database' = [database EXCEPT ![k] = new]
      BY <1>5 DEF Reg
    <2>2. new \in User /\ new.t = database[k].t
      BY <1>2, <1>3 DEF User
    <2> HIDE DEF new
    <2>3. database' \in [Keys -> User]
      BY <1>2, <2>1, <2>2
    <2>4. SubscribedTables' = SubscribedTables /\ SubscribedInv'
      BY <1>1, <2>1 DEF SubscribedTables, SubscribedInv
    <2>5. ASSUME NEW o \in Keys PROVE UserInv(o)'
      <3>1. UserInv(o) /\ database'[o].t = database[o].t
            /\ (database'[o].count > 0 => database[o].count > 0)
        BY <1>2, <1>3, <1>5, <2>1, <2>2 DEF PubInv
      <3> QED BY <2>1, <3>1 DEF UserInv
    <2> QED BY <1>1, <1>2, <2>1, <2>3, <2>4, <2>5, TablesStay
  <1> QED BY <1>4, <1>5

\* Unreg
LEMMA UnregStep ==
    ASSUME PubInv, NEW k \in Keys, Unreg(k)
    PROVE  PubInv'
  <1> DEFINE i == database[k].t
             old == tables[i]
  <1>1. /\ PubTypes /\ Len(tables) <= MaxTables /\ SubscribedInv /\ UserInv(k)
        /\ UNCHANGED <<topics, subExps, chans, readerVars, sinks, panicked>>
    BY DEF PubInv, ChannelInv, Unreg
  <1>2. /\ tables \in Seq(Table) /\ database \in [Keys -> User] /\ database[k] \in User
        /\ database[k].count \in 0..MaxUsers /\ database[k].t \in 0..MaxTables
        /\ MaxUsers \in Nat /\ MaxTables \in Nat
    BY <1>1, PubConstants DEF PubTypes, User
  <1>3. database[k].count > 0
    BY DEF Unreg
  <1>4. i \in DOMAIN tables /\ old.key = k /\ old \in Table
    BY <1>1, <1>2, <1>3 DEF UserInv
  <1>5. CASE database[k].count = 1
    <2> DEFINE none == [count |-> 0, t |-> 0]
               c == (old.pc = "running")
               new == [old EXCEPT !.cancelled = c]
    <2>1. database' = [database EXCEPT ![k] = none] /\ tables' = [tables EXCEPT ![i] = new]
      BY <1>5 DEF Unreg
    <2>2. c \in BOOLEAN
      OBVIOUS
    <2> HIDE DEF c
    <2>3. new \in Table /\ new.key = old.key /\ new.ch = old.ch /\ new.pc = old.pc
      BY <1>4, <2>2 DEF Table
    <2>4. none \in User /\ none.count = 0
      BY <1>2 DEF User
    <2> HIDE DEF new, none
    <2>5. /\ tables' \in Seq(Table) /\ Len(tables') <= MaxTables
          /\ DOMAIN tables' = DOMAIN tables /\ tables'[i] = new
          /\ \A j \in DOMAIN tables : j # i => tables'[j] = tables[j]
          /\ SubscribedTables' = SubscribedTables /\ SubscribedInv'
      BY <1>1, <1>4, <2>1, <2>3, TableChanges
    <2>6. database' \in [Keys -> User]
      BY <1>2, <2>1, <2>4
    <2>7. ASSUME NEW o \in Keys PROVE UserInv(o)'
      <3>1. CASE o = k
        <4>1. database'[o].count = 0
          BY <1>2, <2>1, <2>4, <3>1
        <4> QED BY <4>1 DEF UserInv
      <3>2. CASE o # k
        <4>1. database'[o] = database[o] /\ UserInv(o)
          BY <1>2, <2>1, <3>2 DEF PubInv
        <4> QED BY <1>4, <2>5, <3>2, <4>1 DEF UserInv
      <3> QED BY <3>1, <3>2
    <2> QED BY <1>1, <2>5, <2>6, <2>7, TablesStay
  <1>6. CASE database[k].count # 1
    <2> DEFINE new == [database[k] EXCEPT !.count = @ - 1]
    <2>1. UNCHANGED tables /\ database' = [database EXCEPT ![k] = new]
      BY <1>6 DEF Unreg
    <2>2. database[k].count - 1 \in 0..MaxUsers
      BY <1>2, <1>3
    <2>3. new \in User /\ new.t = database[k].t
      BY <1>2, <2>2 DEF User
    <2> HIDE DEF new
    <2>4. database' \in [Keys -> User]
      BY <1>2, <2>1, <2>3
    <2>5. SubscribedTables' = SubscribedTables /\ SubscribedInv'
      BY <1>1, <2>1 DEF SubscribedTables, SubscribedInv
    <2>6. ASSUME NEW o \in Keys PROVE UserInv(o)'
      <3>1. UserInv(o) /\ database'[o].t = database[o].t
            /\ (database'[o].count > 0 => database[o].count > 0)
        BY <1>2, <1>3, <2>1, <2>3 DEF PubInv
      <3> QED BY <2>1, <3>1 DEF UserInv
    <2> QED BY <1>1, <1>2, <2>1, <2>4, <2>5, <2>6, TablesStay
  <1> QED BY <1>5, <1>6
-----------------------------------------------------------------------------
\* CreateSub: what a source finds behind it.
LEMMA CreateSubFacts ==
    ASSUME PubInv, NEW s \in SourceIds, CreateSub(s), Len(chans) + 1 \in Chans,
           UNCHANGED <<wild, sinks>>
    PROVE  /\ topics' \in [Topics -> PubConsumers] /\ subExps' \in [SourceIds -> Chans]
           /\ chans' \in Seq(Channel) /\ Len(chans') = Len(chans) + 1
           /\ \A t \in Topics : ~topics'[t].exists => topics'[t] = NoTopic
           /\ WildInv' /\ \A t \in Topics : TopicInv(t)'
           /\ Latest(s)' = Len(chans) + 1
           /\ \A o \in SourceIds \ {s} :
                 /\ Latest(o)' = Latest(o)
                 /\ topics'[PlainTopic].consumers[o] = topics[PlainTopic].consumers[o]
                 /\ topics'[PlainTopic].replaced[o] = topics[PlainTopic].replaced[o]
           /\ topics[PlainTopic].exists => topics'[PlainTopic].exists
           /\ s \notin wild =>
                 /\ topics'[PlainTopic].exists
                 /\ topics'[PlainTopic].consumers[s] = Len(chans) + 1
                 /\ topics'[PlainTopic].replaced[s] =
                       IF topics[PlainTopic].consumers[s] # 0
                       THEN topics[PlainTopic].replaced[s] + 1
                       ELSE topics[PlainTopic].replaced[s]
  <1> DEFINE ch == Len(chans) + 1
             Add(t) == AddPubConsumer(topics[t], s, ch)
  <1>1. /\ PubTypes /\ WildInv /\ PlainTopic \in Topics /\ 0 \in Chans /\ Chans \subseteq Nat
        /\ \A t \in Topics : TopicInv(t) /\ topics[t] \in PubConsumers
    BY PubConstants DEF PubInv, PubTypes
  <1>2. /\ chans' \in Seq(Channel) /\ Len(chans) \in Nat /\ Len(chans') = Len(chans) + 1
        /\ Latest(s)' = Len(chans) + 1
        /\ \A o \in SourceIds \ {s} : Latest(o)' = Latest(o)
    BY <1>1, LatestAppended DEF CreateSub, PubTypes
  <1>3. ASSUME NEW t \in Topics
        PROVE  /\ Add(t) \in PubConsumers /\ Add(t).exists
               /\ Add(t).count = topics[t].count
               /\ Add(t).consumers[s] = ch
               /\ Add(t).replaced[s] = IF topics[t].consumers[s] # 0
                                       THEN topics[t].replaced[s] + 1 ELSE topics[t].replaced[s]
               /\ \A o \in SourceIds \ {s} :
                     /\ Add(t).consumers[o] = topics[t].consumers[o]
                     /\ Add(t).replaced[o] = topics[t].replaced[o]
    <2> DEFINE c == topics[t]
               a == Add(t)
    <2>1. c \in PubConsumers /\ a = AddPubConsumer(c, s, ch)
      BY <1>1
    <2>3. ch \in Chans
      OBVIOUS
    <2> HIDE DEF c, a, ch, Add
    <2>2. /\ a \in PubConsumers /\ a.exists /\ a.count = c.count
          /\ a.consumers[s] = ch
          /\ c.consumers[s] # 0 => a.replaced[s] = c.replaced[s] + 1
          /\ c.consumers[s] = 0 => a.replaced[s] = c.replaced[s]
          /\ \A o \in SourceIds \ {s} :
                a.consumers[o] = c.consumers[o] /\ a.replaced[o] = c.replaced[o]
      BY ONLY <2>1, <2>3, s \in SourceIds, AddFields
    <2> QED BY <2>2 DEF a, c
  <1>10. ch # 0
    BY <1>2
  <1> HIDE DEF Add
  <1>4. /\ topics' \in [Topics -> PubConsumers]
        /\ \A t \in Topics : topics'[t] = topics[t] \/ topics'[t] = Add(t)
        /\ s \notin wild => topics'[PlainTopic] = Add(PlainTopic) /\ UNCHANGED subExps
    <2>1. CASE s \in wild
      <3>1. topics' = [t \in Topics |-> IF topics[t].exists THEN Add(t) ELSE topics[t]]
        BY <2>1 DEF CreateSub, Add
      <3> QED BY <1>1, <1>3, <2>1, <3>1
    <2>2. CASE s \notin wild
      <3>1. topics' = [topics EXCEPT ![PlainTopic] = Add(PlainTopic)] /\ UNCHANGED subExps
        BY <2>2 DEF CreateSub, Add
      <3> QED BY <1>1, <1>3, <2>2, <3>1 DEF PubTypes
    <2> QED BY <2>1, <2>2
  <1>5. subExps' \in [SourceIds -> Chans] /\ WildInv'
    BY <1>1 DEF CreateSub, PubTypes, WildInv
  <1>6. ASSUME NEW t \in Topics PROVE (~topics'[t].exists => topics'[t] = NoTopic) /\ TopicInv(t)'
    <2>1. CASE topics'[t] = topics[t]
      <3>1. (~topics[t].exists => topics[t] = NoTopic) /\ TopicInv(t)
        BY <1>1 DEF PubTypes
      <3>2. UNCHANGED <<sinks, wild>>
        BY DEF CreateSub
      <3> QED BY <2>1, <3>1, <3>2 DEF TopicInv, Unused
    <2>2. CASE topics'[t] = Add(t)
      <3> HIDE DEF ch
      <3>1. topics'[t].consumers[s] # 0
        BY <1>10, <1>3, <2>2
      <3> QED BY <1>1, <1>3, <2>2, <3>1 DEF TopicInv, Unused
    <2> QED BY <1>4, <2>1, <2>2
  <1>7. ASSUME NEW o \in SourceIds \ {s}
        PROVE  /\ topics'[PlainTopic].consumers[o] = topics[PlainTopic].consumers[o]
               /\ topics'[PlainTopic].replaced[o] = topics[PlainTopic].replaced[o]
    <2>1. CASE topics'[PlainTopic] = topics[PlainTopic]
      BY <2>1
    <2>2. CASE topics'[PlainTopic] = Add(PlainTopic)
      BY <1>1, <1>3, <2>2
    <2> QED BY <1>1, <1>4, <2>1, <2>2
  <1>8. topics[PlainTopic].exists => topics'[PlainTopic].exists
    BY <1>1, <1>3, <1>4
  <1>9. ASSUME s \notin wild
        PROVE  /\ topics'[PlainTopic].exists
               /\ topics'[PlainTopic].consumers[s] = Len(chans) + 1
               /\ topics'[PlainTopic].replaced[s] =
                       IF topics[PlainTopic].consumers[s] # 0
                       THEN topics[PlainTopic].replaced[s] + 1
                       ELSE topics[PlainTopic].replaced[s]
    BY <1>1, <1>3, <1>4, <1>9
  <1> QED BY <1>2, <1>4, <1>5, <1>6, <1>7, <1>8, <1>9

\* CloseSourceConsumerChannel: what a run leaves behind it.
LEMMA CloseFacts ==
    ASSUME PubInv, NEW s \in SourceIds, CloseConsumer(s), UNCHANGED <<wild, sinks>>
    PROVE  /\ topics' \in [Topics -> PubConsumers] /\ subExps' \in [SourceIds -> Chans]
           /\ chans' \in Seq(Channel) /\ Len(chans') = Len(chans)
           /\ \A t \in Topics : ~topics'[t].exists => topics'[t] = NoTopic
           /\ WildInv' /\ \A t \in Topics : TopicInv(t)'
           /\ \A o \in SourceIds : Latest(o)' = Latest(o)
           /\ \A o \in SourceIds \ ({s} \cup Readers) :
                 topics'[PlainTopic].consumers[o] = topics[PlainTopic].consumers[o]
           /\ \A o \in Readers \ ({s} \cup wild) :
                 /\ topics'[PlainTopic].consumers[o] = topics[PlainTopic].consumers[o]
                 /\ topics'[PlainTopic].replaced[o] = topics[PlainTopic].replaced[o]
                 /\ topics[PlainTopic].consumers[o] # 0 => topics'[PlainTopic].exists
  <1>1. /\ PubTypes /\ WildInv /\ PlainTopic \in Topics /\ 0 \in Chans /\ Chans \subseteq Nat
        /\ \A t \in Topics : TopicInv(t) /\ topics[t] \in PubConsumers
        /\ \A o \in Readers : o \in SourceIds
    BY PubConstants DEF PubInv, PubTypes
  <1>2. CASE subExps[s] # 0
    <2>1. /\ chans' = [chans EXCEPT ![subExps[s]].closed = TRUE]
          /\ subExps' = [subExps EXCEPT ![s] = 0]
          /\ topics' = [t \in Topics |-> RemoveWildConsumer(topics[t], s)]
      BY <1>2 DEF CloseConsumer
    <2>2. wild # {}
      BY <1>1, <1>2 DEF WildInv
    <2>3. /\ chans' \in Seq(Channel) /\ Len(chans') = Len(chans) /\ DOMAIN chans' = DOMAIN chans
          /\ \A i \in DOMAIN chans : chans'[i].of = chans[i].of
      <3> DEFINE j == subExps[s]
                 e == [chans[j] EXCEPT !.closed = TRUE]
      <3>1. chans \in Seq(Channel) /\ chans' = [chans EXCEPT ![j] = e]
        BY <1>1, <2>1 DEF PubTypes
      <3> HIDE DEF j
      <3>2. ASSUME j \in DOMAIN chans PROVE e \in Channel /\ e.of = chans[j].of
        <4>1. chans[j] \in Channel
          BY <3>1, <3>2
        <4> HIDE DEF j
        <4> QED BY <4>1 DEF Channel
      <3> HIDE DEF e
      <3>3. CASE j \in DOMAIN chans
        BY <3>1, <3>2, <3>3
      <3>4. CASE j \notin DOMAIN chans
        <4>1. chans' = chans
          BY <3>1, <3>4
        <4> QED BY <3>1, <4>1
      <3> QED BY <3>3, <3>4
    <2>4. \A o \in SourceIds : Latest(o)' = Latest(o)
      BY <2>3, LatestSame
    <2>5. subExps' \in [SourceIds -> Chans] /\ WildInv'
      BY <1>1, <2>1 DEF PubTypes, WildInv
    <2>6. ASSUME NEW t \in Topics
          PROVE  /\ topics'[t] \in PubConsumers /\ topics'[t].exists = topics[t].exists
                 /\ topics'[t].count = topics[t].count
                 /\ \A o \in SourceIds : o # s =>
                       /\ topics'[t].consumers[o] = topics[t].consumers[o]
                       /\ topics'[t].replaced[o] = topics[t].replaced[o]
                 /\ topics[t] = NoTopic => topics'[t] = NoTopic
      BY <1>1, <2>1, RemoveWildFields
    <2>7. topics' \in [Topics -> PubConsumers]
      BY <2>1, <2>6
    <2>8. ASSUME NEW t \in Topics
          PROVE  (~topics'[t].exists => topics'[t] = NoTopic) /\ TopicInv(t)'
      BY <1>1, <2>2, <2>6 DEF PubTypes, TopicInv
    <2>9. ASSUME NEW o \in Readers \ ({s} \cup wild)
          PROVE  topics[PlainTopic].consumers[o] # 0 => topics'[PlainTopic].exists
      BY <1>1, <2>6, ReadersKeep
    <2> QED BY <1>1, <2>3, <2>4, <2>5, <2>6, <2>7, <2>8, <2>9
  <1>3. CASE subExps[s] = 0
    <2>1. /\ UNCHANGED <<chans, subExps>>
          /\ topics' = IF s \in wild \/ ~topics[PlainTopic].exists THEN topics
                       ELSE [topics EXCEPT ![PlainTopic] = RemovePubConsumer(@, s)]
      BY <1>3 DEF CloseConsumer
    <2>2. /\ chans' \in Seq(Channel) /\ Len(chans') = Len(chans)
          /\ subExps' \in [SourceIds -> Chans] /\ WildInv'
          /\ \A o \in SourceIds : Latest(o)' = Latest(o)
      BY <1>1, <2>1 DEF PubTypes, WildInv, Latest
    <2>3. CASE UNCHANGED topics
      <3>1. \A t \in Topics : (~topics'[t].exists => topics'[t] = NoTopic) /\ TopicInv(t)'
        BY <1>1, <2>3 DEF PubTypes, TopicInv, Unused
      <3>2. \A o \in Readers \ ({s} \cup wild) :
               topics[PlainTopic].consumers[o] # 0 => topics'[PlainTopic].exists
        BY <2>3, ReadersKeep
      <3> QED BY <1>1, <2>2, <2>3, <3>1, <3>2 DEF PubTypes
    <2>4. CASE s \notin wild /\ topics[PlainTopic].exists
      <3> DEFINE c == topics[PlainTopic]
                 r == RemovePubConsumer(c, s)
      <3>1. topics' = [topics EXCEPT ![PlainTopic] = r] /\ c \in PubConsumers
        BY <1>1, <2>1, <2>4
      <3>2. r \in PubConsumers
        BY <3>1, RemoveFields
      <3>3. /\ c.consumers[s] # 0 /\ c.replaced[s] > 0 =>
                 /\ r.exists = c.exists /\ r.count = c.count /\ r.consumers = c.consumers
                 /\ r.replaced = [c.replaced EXCEPT ![s] = @ - 1]
            /\ c.consumers[s] = 0 \/ c.replaced[s] = 0 =>
                 \/ /\ r.exists = c.exists /\ r.count = c.count /\ r.replaced = c.replaced
                    /\ r.consumers = [c.consumers EXCEPT ![s] = 0]
                    /\ ~Unused(r)
                 \/ /\ r = NoTopic /\ c.count = 0
                    /\ \A o \in SourceIds : o # s => c.consumers[o] = 0
        BY <3>1, RemoveFields
      <3> HIDE DEF r
      <3>4. topics' \in [Topics -> PubConsumers] /\ topics'[PlainTopic] = r
            /\ \A t \in Topics \ {PlainTopic} : topics'[t] = topics[t]
        BY <1>1, <3>1, <3>2 DEF PubTypes
      <3>5. /\ c.consumers \in [SourceIds -> Chans] /\ c.replaced \in [SourceIds -> Nat]
            /\ c.consumers[s] \in Nat /\ c.replaced[s] \in Nat
        <4>1. c.consumers \in [SourceIds -> Chans] /\ c.replaced \in [SourceIds -> Nat]
          BY <3>1 DEF PubConsumers
        <4> QED BY <1>1, <4>1
      <3>6. /\ ~r.exists => r = NoTopic
            /\ r.count = sinks[PlainTopic] /\ (sinks[PlainTopic] > 0 => r.exists)
            /\ r.exists /\ wild = {} => ~Unused(r)
        <4>1. c.count = sinks[PlainTopic] /\ c.exists
          BY <1>1, <2>4 DEF TopicInv
        <4>2. CASE c.consumers[s] # 0 /\ c.replaced[s] > 0
          BY <3>3, <4>1, <4>2 DEF Unused
        <4>3. CASE c.consumers[s] = 0 \/ c.replaced[s] = 0
          <5>1. CASE r.exists = c.exists /\ r.count = c.count /\ ~Unused(r)
            BY <4>1, <5>1
          <5>2. CASE r = NoTopic /\ c.count = 0
            <6>1. ~(sinks[PlainTopic] > 0)
              BY <4>1, <5>2
            <6> QED BY <4>1, <5>2, <6>1, NoTopicFields
          <5> QED BY <3>3, <4>3, <5>1, <5>2
        <4> QED BY <3>5, <4>2, <4>3
      <3>7. ASSUME NEW t \in Topics
            PROVE  (~topics'[t].exists => topics'[t] = NoTopic) /\ TopicInv(t)'
        <4>1. CASE t = PlainTopic
          BY <3>4, <3>6, <4>1 DEF TopicInv, Unused
        <4>2. CASE t # PlainTopic
          <5>1. topics'[t] = topics[t] /\ TopicInv(t) /\ (~topics[t].exists => topics[t] = NoTopic)
            BY <1>1, <3>4, <4>2 DEF PubTypes
          <5> QED BY <5>1 DEF TopicInv, Unused
        <4> QED BY <4>1, <4>2
      <3>8. \A o \in SourceIds : o # s => r.consumers[o] = c.consumers[o]
        BY <3>3, <3>5, NoTopicFields
      <3>9. ASSUME NEW o \in Readers \ ({s} \cup wild)
            PROVE  r.replaced[o] = c.replaced[o] /\ (c.consumers[o] # 0 => r.exists)
        <4>1. o \in SourceIds /\ o # s /\ (c.consumers[o] = 0 => c.replaced[o] = 0)
          BY <1>1, ReadersKeep
        <4>2. CASE c.consumers[s] # 0 /\ c.replaced[s] > 0
          BY <2>4, <3>3, <3>5, <4>1, <4>2
        <4>3. CASE c.consumers[s] = 0 \/ c.replaced[s] = 0
          BY <2>4, <3>3, <4>1, <4>3, NoTopicFields
        <4> QED BY <3>5, <4>2, <4>3
      <3> QED BY <1>1, <2>2, <3>4, <3>7, <3>8, <3>9
    <2> QED BY <2>1, <2>3, <2>4
  <1> QED BY <1>2, <1>3
-----------------------------------------------------------------------------
\* There is a channel for everyone who has made none.
LEMMA SubscribedCounts ==
    ASSUME PubInv
    PROVE  /\ IsFiniteSet(SubscribedRuns) /\ IsFiniteSet(SubscribedTables)
           /\ Cardinality(SubscribedRuns) \in Nat /\ Cardinality(SubscribedTables) \in Nat
           /\ Cardinality(SubscribedRuns) <= Cardinality(ReaderRuns)
           /\ Cardinality(SubscribedTables) <= MaxTables
           /\ \A x \in ReaderRuns \ SubscribedRuns :
                 Cardinality(SubscribedRuns) + 1 <= Cardinality(ReaderRuns)
           /\ \A i \in DOMAIN tables \ SubscribedTables :
                 Cardinality(SubscribedTables) + 1 <= MaxTables
  <1>1. /\ tables \in Seq(Table) /\ Len(tables) <= MaxTables
        /\ IsFiniteSet(ReaderRuns) /\ Cardinality(ReaderRuns) \in Nat /\ MaxTables \in Nat
    BY PubConstants DEF PubInv, PubTypes, ChannelInv
  <1>2. Len(tables) \in Nat /\ DOMAIN tables = 1..Len(tables)
    BY <1>1
  <1>3. IsFiniteSet(DOMAIN tables) /\ Cardinality(DOMAIN tables) = Len(tables)
    <2>1. IsFiniteSet(1..Len(tables))
      BY <1>2, FS_Interval
    <2> DEFINE n == Len(tables)
    <2>2. n \in Int /\ n >= 0 /\ 1 \in Int
      BY <1>2
    <2> HIDE DEF n
    <2>3. Cardinality(1..n) = IF 1 > n THEN 0 ELSE n - 1 + 1
      BY <2>2, FS_Interval
    <2>4. Cardinality(1..n) = n
      BY <2>2, <2>3
    <2> QED BY <1>2, <2>1, <2>4 DEF n
  <1>4. /\ IsFiniteSet(SubscribedRuns) /\ Cardinality(SubscribedRuns) \in Nat
        /\ Cardinality(SubscribedRuns) <= Cardinality(ReaderRuns)
        /\ \A x \in ReaderRuns \ SubscribedRuns :
              Cardinality(SubscribedRuns) + 1 <= Cardinality(ReaderRuns)
    <2>1. SubscribedRuns \subseteq ReaderRuns
      BY DEF SubscribedRuns
    <2>2. /\ IsFiniteSet(SubscribedRuns) /\ Cardinality(SubscribedRuns) \in Nat
          /\ Cardinality(SubscribedRuns) <= Cardinality(ReaderRuns)
      BY <1>1, <2>1, FS_Subset, FS_CardinalityType
    <2>3. ASSUME NEW x \in ReaderRuns \ SubscribedRuns
          PROVE  Cardinality(SubscribedRuns) + 1 <= Cardinality(ReaderRuns)
      <3>1. SubscribedRuns # ReaderRuns
        OBVIOUS
      <3>2. Cardinality(SubscribedRuns) # Cardinality(ReaderRuns)
        BY <1>1, <2>1, <3>1, FS_Subset
      <3> QED BY <1>1, <2>2, <3>2
    <2> QED BY <2>2, <2>3
  <1>5. /\ IsFiniteSet(SubscribedTables) /\ Cardinality(SubscribedTables) \in Nat
        /\ Cardinality(SubscribedTables) <= MaxTables
        /\ \A i \in DOMAIN tables \ SubscribedTables :
              Cardinality(SubscribedTables) + 1 <= MaxTables
    <2>1. SubscribedTables \subseteq DOMAIN tables
      BY DEF SubscribedTables
    <2>2. /\ IsFiniteSet(SubscribedTables) /\ Cardinality(SubscribedTables) \in Nat
          /\ Cardinality(SubscribedTables) <= Len(tables)
      BY <1>3, <2>1, FS_Subset, FS_CardinalityType
    <2>3. ASSUME NEW i \in DOMAIN tables \ SubscribedTables
          PROVE  Cardinality(SubscribedTables) + 1 <= Len(tables)
      <3>1. SubscribedTables # DOMAIN tables
        OBVIOUS
      <3>2. Cardinality(SubscribedTables) # Len(tables)
        BY <1>3, <2>1, <3>1, FS_Subset
      <3> QED BY <1>2, <2>2, <3>2
    <2> QED BY <1>1, <1>2, <2>2, <2>3
  <1> QED BY <1>4, <1>5

\* Subscribe, of a source.
LEMMA SubscribeStep ==
    ASSUME PubInv, NEW s \in Readers, NEW r \in 1..MaxRuns, ReaderSubscribes(s, r)
    PROVE  PubInv'
  <1> DEFINE x == <<s, r>>
             old == readers[x]
             ch == Len(chans) + 1
             new == [old EXCEPT !.pc = "on", !.ch = ch]
  <1>1. /\ PubTypes /\ ChannelInv /\ SubscribedInv /\ x \in ReaderRuns /\ s \in SourceIds
        /\ old \in Reader /\ old.pc = "starting" /\ Len(chans) \in Nat
        /\ UNCHANGED <<wild, sinks, tables, database, panicked>> /\ CreateSub(s)
        /\ Store \in SourceIds /\ s # Store /\ \A o \in Readers : o \in SourceIds
    BY PubConstants DEF PubInv, PubTypes, ReaderRuns, ReaderSubscribes, tableVars
  <1>2. x \in ReaderRuns \ SubscribedRuns
    BY <1>1 DEF SubscribedRuns
  <1>3. ch \in Chans
    <2>1. Len(chans) = Cardinality(SubscribedRuns) + Cardinality(SubscribedTables)
      BY <1>1 DEF ChannelInv
    <2> QED BY <1>1, <1>2, <2>1, SubscribedCounts, PubConstants
  <1>4. /\ topics' \in [Topics -> PubConsumers] /\ subExps' \in [SourceIds -> Chans]
        /\ chans' \in Seq(Channel) /\ Len(chans') = ch
        /\ \A t \in Topics : ~topics'[t].exists => topics'[t] = NoTopic
        /\ WildInv' /\ \A t \in Topics : TopicInv(t)'
        /\ Latest(s)' = ch
        /\ \A o \in SourceIds \ {s} :
              /\ Latest(o)' = Latest(o)
              /\ topics'[PlainTopic].consumers[o] = topics[PlainTopic].consumers[o]
              /\ topics'[PlainTopic].replaced[o] = topics[PlainTopic].replaced[o]
        /\ topics[PlainTopic].exists => topics'[PlainTopic].exists
        /\ s \notin wild =>
              /\ topics'[PlainTopic].exists
              /\ topics'[PlainTopic].consumers[s] = ch
              /\ topics'[PlainTopic].replaced[s] =
                    IF topics[PlainTopic].consumers[s] # 0
                    THEN topics[PlainTopic].replaced[s] + 1
                    ELSE topics[PlainTopic].replaced[s]
    BY <1>1, <1>3, CreateSubFacts
  <1>5. new \in Reader /\ new.pc = "on" /\ readers' = [readers EXCEPT ![x] = new]
    <2>1. readers' = [readers EXCEPT ![x] = new]
      BY DEF ReaderSubscribes
    <2> HIDE DEF ch
    <2> QED BY <1>1, <1>3, <2>1 DEF Reader
  <1> HIDE DEF new
  <1>6. /\ readers' \in [ReaderRuns -> Reader] /\ readers'[x] = new
        /\ \A y \in ReaderRuns \ {x} : readers'[y] = readers[y]
    BY <1>1, <1>5 DEF PubTypes
  <1>7. PubTypes'
    BY <1>1, <1>3, <1>4, <1>6 DEF PubTypes
  <1>8. ChannelInv'
    <2>1. SubscribedRuns' = SubscribedRuns \cup {x} /\ SubscribedTables' = SubscribedTables
      BY <1>1, <1>5, <1>6 DEF SubscribedRuns, SubscribedTables
    <2>2. Cardinality(SubscribedRuns \cup {x}) = Cardinality(SubscribedRuns) + 1
      BY <1>2, SubscribedCounts, FS_AddElement
    <2>3. Len(chans) = Cardinality(SubscribedRuns) + Cardinality(SubscribedTables)
          /\ Len(tables) <= MaxTables
      BY <1>1 DEF ChannelInv
    <2>4. Len(chans') = Cardinality(SubscribedRuns') + Cardinality(SubscribedTables')
      BY <1>4, <2>1, <2>2, <2>3, SubscribedCounts
    <2> QED BY <1>1, <2>3, <2>4 DEF ChannelInv
  <1>9. SubscribedInv' /\ \A k \in Keys : UserInv(k)'
    <2>1. topics'[PlainTopic].consumers[Store] = topics[PlainTopic].consumers[Store]
      BY <1>1, <1>4
    <2>2. topics[PlainTopic].consumers[Store] \in Nat
      <3>1. topics[PlainTopic] \in PubConsumers /\ Chans \subseteq Nat
        BY <1>1, PubConstants DEF PubTypes
      <3>2. topics[PlainTopic].consumers[Store] \in Chans
        BY <1>1, <3>1 DEF PubConsumers
      <3> QED BY <3>1, <3>2
    <2>3. topics'[PlainTopic].consumers[Store] <= Len(chans')
      BY <1>1, <1>4, <2>1, <2>2 DEF SubscribedInv
    <2> QED BY <1>1, <2>1, <2>3 DEF PubInv, SubscribedInv, UserInv
  <1>10. ASSUME NEW o \in (Readers \ wild)' PROVE ReaderInv(o)'
    <2>1. o \in Readers \ wild /\ o \in SourceIds /\ ReaderInv(o)
          /\ \A q \in 1..MaxRuns : <<o, q>> \in ReaderRuns
      BY <1>1 DEF PubInv, ReaderRuns
    <2>2. CASE o # s
      <3>1. \A q \in 1..MaxRuns : readers'[<<o, q>>] = readers[<<o, q>>]
        BY <1>6, <2>1, <2>2
      <3>2. OpenRuns(o)' = OpenRuns(o)
        BY <3>1 DEF OpenRuns
      <3>3. topics[PlainTopic].consumers[o] # 0 => topics'[PlainTopic].exists
        BY <1>4, <2>1, ReadersKeep
      <3> QED BY <1>1, <1>4, <2>1, <2>2, <3>2, <3>3, ReaderSame
    <2>3. CASE o = s
      <3>1. OpenRuns(s)' = OpenRuns(s) \cup {r} /\ r \notin OpenRuns(s)
        BY <1>1, <1>5, <1>6, <2>1, <2>3 DEF OpenRuns
      <3>2. IsFiniteSet(OpenRuns(s)) /\ Cardinality(OpenRuns(s)) \in Nat
        <4>1. OpenRuns(s) \subseteq 1..MaxRuns
          BY DEF OpenRuns
        <4>2. IsFiniteSet(1..MaxRuns)
          BY PubConstants, FS_Interval
        <4> QED BY <4>1, <4>2, FS_Subset, FS_CardinalityType
      <3>3. Cardinality(OpenRuns(s) \cup {r}) = Cardinality(OpenRuns(s)) + 1
        BY <3>1, <3>2, FS_AddElement
      <3>4. topics'[PlainTopic].replaced[s] = Cardinality(OpenRuns(s))
        <4>1. CASE OpenRuns(s) = {}
          <5>1. topics[PlainTopic].consumers[s] = 0 /\ topics[PlainTopic].replaced[s] = 0
            BY <2>1, <2>3, <4>1 DEF ReaderInv
          <5> QED BY <1>4, <2>1, <2>3, <4>1, <5>1, FS_EmptySet
        <4>2. CASE OpenRuns(s) # {}
          <5>1. topics[PlainTopic].consumers[s] # 0
                /\ topics[PlainTopic].replaced[s] = Cardinality(OpenRuns(s)) - 1
            BY <2>1, <2>3, <4>2 DEF ReaderInv
          <5> QED BY <1>4, <2>1, <2>3, <3>2, <5>1
        <4> QED BY <4>1, <4>2
      <3>5. /\ topics'[PlainTopic].exists /\ ch # 0 /\ topics'[PlainTopic].consumers[s] = ch
            /\ Latest(s)' = ch
        BY <1>1, <1>4, <2>1, <2>3
      <3>6. /\ OpenRuns(s)' # {} /\ topics'[PlainTopic].exists /\ Latest(s)' # 0
            /\ topics'[PlainTopic].consumers[s] = Latest(s)'
            /\ topics'[PlainTopic].replaced[s] = Cardinality(OpenRuns(s)') - 1
        BY <3>1, <3>2, <3>3, <3>4, <3>5
      <3> QED BY <2>3, <3>6 DEF ReaderInv
    <2> QED BY <2>2, <2>3
  <1> QED BY <1>4, <1>7, <1>8, <1>9, <1>10 DEF PubInv

\* The subscription of a table.
LEMMA TableSubscribeStep ==
    ASSUME PubInv, NEW i \in DOMAIN tables, TableSubscribes(i)
    PROVE  PubInv'
  <1> DEFINE old == tables[i]
             ch == Len(chans) + 1
             new == [old EXCEPT !.pc = "subscribed", !.ch = ch]
  <1>1. /\ PubTypes /\ ChannelInv /\ SubscribedInv /\ old \in Table /\ old.pc = "start"
        /\ Len(chans) \in Nat /\ tables \in Seq(Table)
        /\ UNCHANGED <<wild, readers, sinks, database, panicked>> /\ CreateSub(Store)
        /\ Store \in SourceIds /\ Store \notin wild /\ \A o \in Readers : o \in SourceIds \ {Store}
    BY PubConstants DEF PubInv, PubTypes, TableSubscribes, readerVars
  <1>2. i \in DOMAIN tables \ SubscribedTables
    BY <1>1 DEF SubscribedTables
  <1>3. ch \in Chans
    <2>1. Len(chans) = Cardinality(SubscribedRuns) + Cardinality(SubscribedTables)
      BY <1>1 DEF ChannelInv
    <2> QED BY <1>1, <1>2, <2>1, SubscribedCounts, PubConstants
  <1>4. /\ topics' \in [Topics -> PubConsumers] /\ subExps' \in [SourceIds -> Chans]
        /\ chans' \in Seq(Channel) /\ Len(chans') = ch
        /\ \A t \in Topics : ~topics'[t].exists => topics'[t] = NoTopic
        /\ WildInv' /\ \A t \in Topics : TopicInv(t)'
        /\ \A o \in SourceIds \ {Store} :
              /\ Latest(o)' = Latest(o)
              /\ topics'[PlainTopic].consumers[o] = topics[PlainTopic].consumers[o]
              /\ topics'[PlainTopic].replaced[o] = topics[PlainTopic].replaced[o]
        /\ topics[PlainTopic].exists => topics'[PlainTopic].exists
        /\ topics'[PlainTopic].consumers[Store] = ch
    BY <1>1, <1>3, CreateSubFacts
  <1>5. /\ new \in Table /\ new.pc = "subscribed" /\ new.ch = ch /\ new.key = old.key
        /\ new.cancelled = old.cancelled
        /\ tables' = [tables EXCEPT ![i] = new]
    <2>1. tables' = [tables EXCEPT ![i] = new]
      BY DEF TableSubscribes
    <2> HIDE DEF ch
    <2> QED BY <1>1, <1>3, <2>1 DEF Table
  <1> HIDE DEF new
  <1>6. /\ tables' \in Seq(Table) /\ Len(tables') = Len(tables) /\ DOMAIN tables' = DOMAIN tables
        /\ tables'[i] = new /\ \A j \in DOMAIN tables \ {i} : tables'[j] = tables[j]
    BY <1>1, <1>5
  <1>7. PubTypes'
    BY <1>1, <1>3, <1>4, <1>6 DEF PubTypes
  <1>8. ChannelInv'
    <2>1. SubscribedTables' = SubscribedTables \cup {i}
      BY <1>1, <1>5, <1>6 DEF SubscribedTables
    <2>2. SubscribedRuns' = SubscribedRuns
      BY <1>1 DEF SubscribedRuns
    <2>3. Cardinality(SubscribedTables \cup {i}) = Cardinality(SubscribedTables) + 1
      BY <1>2, SubscribedCounts, FS_AddElement
    <2>4. Len(chans) = Cardinality(SubscribedRuns) + Cardinality(SubscribedTables)
          /\ Len(tables) <= MaxTables
      BY <1>1 DEF ChannelInv
    <2>5. Len(chans') = Cardinality(SubscribedRuns') + Cardinality(SubscribedTables')
      BY <1>4, <2>1, <2>2, <2>3, <2>4, SubscribedCounts
    <2> QED BY <1>6, <2>4, <2>5 DEF ChannelInv
  <1>9. SubscribedInv'
    <2>1. ASSUME NEW j \in DOMAIN tables' PROVE tables'[j].ch <= topics'[PlainTopic].consumers[Store]
      <3>1. CASE j = i
        BY <1>1, <1>4, <1>5, <1>6, <3>1
      <3>2. CASE j # i
        <4>1. tables'[j] = tables[j] /\ tables[j].ch <= topics[PlainTopic].consumers[Store]
          BY <1>1, <1>6, <3>2 DEF SubscribedInv
        <4>2. tables[j].ch \in Nat /\ topics[PlainTopic].consumers[Store] \in Nat
              /\ topics[PlainTopic].consumers[Store] <= Len(chans)
          <5>1. tables[j] \in Table /\ topics[PlainTopic] \in PubConsumers /\ Chans \subseteq Nat
            BY <1>1, <1>6, PubConstants DEF PubTypes
          <5>2. tables[j].ch \in Chans /\ topics[PlainTopic].consumers[Store] \in Chans
            BY <1>1, <5>1 DEF Table, PubConsumers
          <5>3. tables[j].ch \in Nat /\ topics[PlainTopic].consumers[Store] \in Nat
            BY <5>1, <5>2
          <5> QED BY <1>1, <5>3 DEF SubscribedInv
        <4> QED BY <1>1, <1>4, <4>1, <4>2
      <3> QED BY <3>1, <3>2
    <2> QED BY <1>1, <1>4, <2>1 DEF SubscribedInv
  <1>10. \A k \in Keys : UserInv(k)'
    BY <1>1, <1>5, <1>6 DEF PubInv, UserInv
  <1>11. ASSUME NEW o \in (Readers \ wild)' PROVE ReaderInv(o)'
    <2>1. o \in Readers \ wild /\ o \in SourceIds \ {Store} /\ ReaderInv(o)
      BY <1>1 DEF PubInv
    <2>2. OpenRuns(o)' = OpenRuns(o)
      BY <1>1 DEF OpenRuns
    <2>3. topics[PlainTopic].consumers[o] # 0 => topics'[PlainTopic].exists
      BY <1>4, <2>1, ReadersKeep
    <2> QED BY <1>1, <1>4, <2>1, <2>2, <2>3, ReaderSame
  <1> QED BY <1>4, <1>7, <1>8, <1>9, <1>10, <1>11 DEF PubInv

\* Close, of a source.
LEMMA CloseStep ==
    ASSUME PubInv, NEW s \in Readers, NEW r \in 1..MaxRuns, ReaderCloses(s, r)
    PROVE  PubInv'
  <1> DEFINE x == <<s, r>>
             old == readers[x]
             new == [old EXCEPT !.pc = "closed"]
  <1>1. /\ PubTypes /\ WildInv /\ ChannelInv /\ SubscribedInv /\ x \in ReaderRuns
        /\ s \in SourceIds /\ old \in Reader /\ old.pc = "on"
        /\ UNCHANGED <<wild, sinks, tables, database, panicked>> /\ CloseConsumer(s)
        /\ Store \in SourceIds \ ({s} \cup Readers) /\ \A o \in Readers : o \in SourceIds
    BY PubConstants DEF PubInv, PubTypes, ReaderRuns, ReaderCloses, tableVars
  <1>2. /\ topics' \in [Topics -> PubConsumers] /\ subExps' \in [SourceIds -> Chans]
        /\ chans' \in Seq(Channel) /\ Len(chans') = Len(chans)
        /\ \A t \in Topics : ~topics'[t].exists => topics'[t] = NoTopic
        /\ WildInv' /\ \A t \in Topics : TopicInv(t)'
        /\ \A o \in SourceIds : Latest(o)' = Latest(o)
        /\ \A o \in SourceIds \ ({s} \cup Readers) :
              topics'[PlainTopic].consumers[o] = topics[PlainTopic].consumers[o]
        /\ \A o \in Readers \ ({s} \cup wild) :
              /\ topics'[PlainTopic].consumers[o] = topics[PlainTopic].consumers[o]
              /\ topics'[PlainTopic].replaced[o] = topics[PlainTopic].replaced[o]
              /\ topics[PlainTopic].consumers[o] # 0 => topics'[PlainTopic].exists
    BY <1>1, CloseFacts
  <1>3. new \in Reader /\ new.pc = "closed" /\ readers' = [readers EXCEPT ![x] = new]
    <2>1. readers' = [readers EXCEPT ![x] = new]
      BY DEF ReaderCloses
    <2> QED BY <1>1, <2>1 DEF Reader
  <1> HIDE DEF new
  <1>4. /\ readers' \in [ReaderRuns -> Reader] /\ readers'[x] = new
        /\ \A y \in ReaderRuns \ {x} : readers'[y] = readers[y]
    BY <1>1, <1>3 DEF PubTypes
  <1>5. PubTypes'
    BY <1>1, <1>2, <1>4 DEF PubTypes
  <1>6. ChannelInv'
    <2>1. SubscribedRuns' = SubscribedRuns /\ SubscribedTables' = SubscribedTables
      BY <1>1, <1>3, <1>4 DEF SubscribedRuns, SubscribedTables
    <2> QED BY <1>1, <1>2, <2>1 DEF ChannelInv
  <1>7. SubscribedInv' /\ \A k \in Keys : UserInv(k)'
    <2>1. topics'[PlainTopic].consumers[Store] = topics[PlainTopic].consumers[Store]
      BY <1>1, <1>2
    <2> QED BY <1>1, <1>2, <2>1 DEF PubInv, SubscribedInv, UserInv
  <1>8. ASSUME NEW o \in (Readers \ wild)' PROVE ReaderInv(o)'
    <2>1. o \in Readers \ wild /\ o \in SourceIds /\ ReaderInv(o)
          /\ \A q \in 1..MaxRuns : <<o, q>> \in ReaderRuns
      BY <1>1 DEF PubInv, ReaderRuns
    <2>2. CASE o # s
      <3>1. \A q \in 1..MaxRuns : readers'[<<o, q>>] = readers[<<o, q>>]
        BY <1>4, <2>1, <2>2
      <3>2. OpenRuns(o)' = OpenRuns(o)
        BY <3>1 DEF OpenRuns
      <3> QED BY <1>1, <1>2, <2>1, <2>2, <3>2, ReaderSame
    <2>3. CASE o = s
      <3> DEFINE c == topics[PlainTopic]
                 l == RemovePubConsumer(c, s)
                 n == Cardinality(OpenRuns(s))
      <3>1. OpenRuns(s)' = OpenRuns(s) \ {r} /\ r \in OpenRuns(s)
        BY <1>1, <1>3, <1>4, <2>1, <2>3 DEF OpenRuns
      <3>2. IsFiniteSet(OpenRuns(s)) /\ n \in Nat
        <4>1. OpenRuns(s) \subseteq 1..MaxRuns
          BY DEF OpenRuns
        <4>2. IsFiniteSet(1..MaxRuns)
          BY PubConstants, FS_Interval
        <4> QED BY <4>1, <4>2, FS_Subset, FS_CardinalityType
      <3>3. IsFiniteSet(OpenRuns(s)') /\ Cardinality(OpenRuns(s)') = n - 1
        BY <3>1, <3>2, FS_RemoveElement
      <3>4. /\ c.exists /\ c.consumers[s] = Latest(s) /\ Latest(s) # 0 /\ c.replaced[s] = n - 1
            /\ c \in PubConsumers
        BY <1>1, <2>1, <2>3, <3>1, PubConstants DEF ReaderInv, PubTypes
      <3>5. topics'[PlainTopic] = l
        <4>1. subExps[s] = 0 /\ s \notin wild
          BY <1>1, <2>1, <2>3 DEF WildInv
        <4>2. topics' = [topics EXCEPT ![PlainTopic] = l]
          BY <1>1, <3>4, <4>1 DEF CloseConsumer
        <4> HIDE DEF l
        <4> QED BY <1>1, <4>2, PubConstants DEF PubTypes
      <3>6. /\ c.consumers[s] # 0 /\ c.replaced[s] > 0 =>
                 /\ l.exists = c.exists /\ l.count = c.count /\ l.consumers = c.consumers
                 /\ l.replaced = [c.replaced EXCEPT ![s] = @ - 1]
            /\ c.consumers[s] = 0 \/ c.replaced[s] = 0 =>
                 \/ /\ l.exists = c.exists /\ l.count = c.count /\ l.replaced = c.replaced
                    /\ l.consumers = [c.consumers EXCEPT ![s] = 0]
                    /\ ~Unused(l)
                 \/ /\ l = NoTopic /\ c.count = 0
                    /\ \A a \in SourceIds : a # s => c.consumers[a] = 0
        BY <1>1, <3>4, RemoveFields
      <3> HIDE DEF l
      <3>7. c.consumers \in [SourceIds -> Chans] /\ c.replaced \in [SourceIds -> Nat]
        BY <3>4 DEF PubConsumers
      <3>8. Latest(s)' = Latest(s)
        BY <1>1, <1>2
      <3>9. CASE n = 1
        <4>1. OpenRuns(s)' = {}
          BY <3>3, <3>9, FS_EmptySet
        <4>2. c.replaced[s] = 0
          BY <3>4, <3>9
        <4>3. l.consumers[s] = 0 /\ l.replaced[s] = 0
          BY <1>1, <3>6, <3>7, <4>2, NoTopicFields
        <4> QED BY <2>3, <3>5, <4>1, <4>3 DEF ReaderInv
      <3>10. CASE n # 1
        <4>1. n > 1
          <5>1. n # 0
            BY <3>1, <3>2, FS_EmptySet
          <5> QED BY <3>2, <3>10, <5>1
        <4>2. OpenRuns(s)' # {}
          BY <3>2, <3>3, <4>1, FS_EmptySet
        <4>3. /\ l.exists /\ l.consumers[s] = Latest(s) /\ l.replaced[s] = n - 2
          <5>1. c.replaced[s] > 0 /\ c.consumers[s] # 0
            BY <3>2, <3>4, <4>1
          <5>2. /\ l.exists = c.exists /\ l.consumers = c.consumers
                /\ l.replaced = [c.replaced EXCEPT ![s] = @ - 1]
            BY <3>6, <5>1
          <5>3. l.replaced[s] = c.replaced[s] - 1
            BY <1>1, <3>7, <5>2
          <5> QED BY <3>2, <3>4, <5>2, <5>3
        <4>4. /\ topics'[PlainTopic].exists /\ Latest(s)' # 0
              /\ topics'[PlainTopic].consumers[s] = Latest(s)'
              /\ topics'[PlainTopic].replaced[s] = Cardinality(OpenRuns(s)') - 1
          BY <3>2, <3>3, <3>4, <3>5, <3>8, <4>3
        <4> QED BY <2>3, <4>2, <4>4 DEF ReaderInv
      <3> QED BY <3>9, <3>10
    <2> QED BY <2>2, <2>3
  <1> QED BY <1>2, <1>5, <1>6, <1>7, <1>8 DEF PubInv
-----------------------------------------------------------------------------
LEMMA PubInitInv == PubInit => PubInv
  <1> SUFFICES ASSUME PubInit PROVE PubInv
    OBVIOUS
  <1>1. PubTypes
    <2>1. NoTopic \in PubConsumers /\ 0 \in Chans /\ 0 \in 0..MaxSinks
          /\ 0 \in 0..MaxUsers /\ 0 \in 0..MaxTables
      BY NoTopicFields, PubConstants
    <2>2. Len(chans) \in Chans /\ chans \in Seq(Channel) /\ tables \in Seq(Table)
      BY <2>1 DEF PubInit
    <2> QED BY <2>1, <2>2 DEF PubInit, PubTypes, Reader, User
  <1>2. WildInv
    BY DEF PubInit, WildInv
  <1>3. ChannelInv
    <2>1. SubscribedRuns = {} /\ SubscribedTables = {}
      BY DEF PubInit, SubscribedRuns, SubscribedTables
    <2> QED BY <2>1, FS_EmptySet, PubConstants DEF PubInit, ChannelInv
  <1>4. \A t \in Topics : topics[t] = NoTopic
    BY DEF PubInit
  <1>5. SubscribedInv
    BY <1>4, NoTopicFields, PubConstants DEF PubInit, SubscribedInv
  <1>6. ASSUME NEW s \in Readers \ wild PROVE ReaderInv(s)
    <2>1. \A r \in 1..MaxRuns : <<s, r>> \in ReaderRuns
      BY DEF ReaderRuns
    <2>2. OpenRuns(s) = {}
      BY <2>1 DEF PubInit, OpenRuns
    <2> QED BY <1>4, <2>2, NoTopicFields, PubConstants DEF ReaderInv
  <1>7. \A t \in Topics : TopicInv(t)
    BY <1>4, NoTopicFields DEF PubInit, TopicInv
  <1>8. \A k \in Keys : UserInv(k)
    BY DEF PubInit, UserInv
  <1> QED BY <1>1, <1>2, <1>3, <1>5, <1>6, <1>7, <1>8 DEF PubInv

LEMMA PubNextInv == PubInv /\ [PubNext]_pubVars => PubInv'
  <1> SUFFICES ASSUME PubInv, [PubNext]_pubVars PROVE PubInv'
    OBVIOUS
  <1>1. CASE UNCHANGED pubVars
    <2>1. UNCHANGED <<topics, subExps, chans, readerVars, sinks, tables, database, panicked>>
      BY <1>1 DEF pubVars, readerVars
    <2>2. /\ tables' \in Seq(Table) /\ Len(tables') <= MaxTables
          /\ database' \in [Keys -> User]
      BY <2>1 DEF PubInv, PubTypes, ChannelInv
    <2>3. SubscribedTables' = SubscribedTables /\ SubscribedInv' /\ \A k \in Keys : UserInv(k)'
      BY <2>1 DEF PubInv, SubscribedTables, SubscribedInv, UserInv
    <2> QED BY <2>1, <2>2, <2>3, TablesStay
  <1>2. ASSUME NEW t \in Topics, SinkConnects(t) \/ SinkCloses(t) \/ Produce(t) PROVE PubInv'
    BY <1>2, ConnectStep, DisconnectStep, ProduceStep
  <1>3. ASSUME NEW x \in ReaderRuns, ReaderSteps(x[1], x[2]) PROVE PubInv'
    <2>1. PICK s \in Readers, r \in 1..MaxRuns : x = <<s, r>>
      BY DEF ReaderRuns
    <2>2. x[1] = s /\ x[2] = r /\ <<s, r>> \in ReaderRuns
      BY <2>1
    <2>3. ReaderSteps(s, r)
      BY <1>3, <2>2
    <2> QED BY <2>2, <2>3, ReaderRunsStay, SubscribeStep, CloseStep DEF ReaderSteps
  <1>4. ASSUME NEW k \in Keys, Reg(k) \/ Unreg(k) PROVE PubInv'
    BY <1>4, RegStep, UnregStep
  <1>5. ASSUME NEW i \in DOMAIN tables, TableSubscribes(i) \/ TableRuns(i) \/ TableEnds(i)
        PROVE  PubInv'
    BY <1>5, TableSubscribeStep, TableStep
  <1> QED BY <1>1, <1>2, <1>3, <1>4, <1>5 DEF PubNext

\* Topics exist for those who use them and count them, with the latest channel of each
\* source that has no wildcard, and a table is fed as long as it has users, however the
\* runs of a rule overlap (manager.go:60-300, store.go:30-130).
THEOREM TopicsAreSound == PubSpec => []TopicsSound
  <1>1. PubInit => PubInv
    BY PubInitInv
  <1>2. PubInv /\ [PubNext]_pubVars => PubInv'
    BY PubNextInv
  <1>3. PubInv => TopicsSound
    BY PubInvImplies
  <1> QED BY <1>1, <1>2, <1>3, PTL DEF PubSpec
-----------------------------------------------------------------------------
(* Shared streams                                                          *)

Owners == Runs \cup {StreamOwner}


\* A subtopology is in the pool as long as it has a reference; only one whose
\* source has failed is closed before it has lost them all.
SubInv(i) ==
    LET s == subs[i] IN
    /\ s.refs # {} <=> pool[s.name] = i
    /\ s.opened # "closed" => s.refs # {}
    /\ s.opened = "closed" /\ s.refs # {} => s.failed
    /\ s.failed => s.opened = "closed"
    /\ s.chans \subseteq s.refs
    /\ s.name = "stream" => s.refs \subseteq Runs /\ (chained => s.src # 0)
    /\ s.src # 0 => s.src \in DOMAIN subs /\ subs[s.src].name = "conn"

SubsInv ==
    /\ chained \in BOOLEAN
    /\ subs \in Seq(SubTopo) /\ Len(subs) <= MaxSubs
    /\ pool \in [Names -> 0..Len(subs)]
    /\ \A n \in Names : pool[n] # 0 => subs[pool[n]].name = n
    /\ \A i \in DOMAIN subs : SubInv(i)

\* What a run remembers of the subtopologies.
RunInv(x) ==
    LET r == runs[x] IN
    /\ r.sub # 0 => r.sub \in DOMAIN subs /\ subs[r.sub].name = "stream"
    /\ r.conn # 0 => r.conn \in DOMAIN subs /\ subs[r.conn].name = "conn"
    /\ r.pc \notin {"new", "conn", "done"} => r.sub # 0
    /\ r.pc \in {"conn", "abandon"} \/ (r.pc = "reject" /\ chained) => r.conn # 0
    /\ r.pc = "chain" => subs[r.sub].src # 0

\* A stream refers to the runs that use it, and has a channel for those that
\* have opened it.
RefInv(x, i) ==
    subs[i].name = "stream" =>
        /\ x \in subs[i].refs =>
              runs[x].sub = i /\ runs[x].pc \in {"planned", "open", "deaf", "reject", "late"}
        /\ runs[x].sub = i /\ ~subs[i].failed =>
              /\ runs[x].pc \in {"planned", "open"} => x \in subs[i].refs
              /\ runs[x].pc = "open" => x \in subs[i].chans

ToldInv(x) == runs[x].pc = "open" /\ subs[runs[x].sub].failed => runs[x].told

UsersInv ==
    /\ runs \in [Runs -> SubRun]
    /\ \A x \in Runs : RunInv(x) /\ ToldInv(x)
    /\ \A x \in Runs, i \in DOMAIN subs : RefInv(x, i)

PoolInv == SubsInv /\ UsersInv
-----------------------------------------------------------------------------
(* The operations of one subtopology, field by field                       *)

\* The name of the stream, as the owner of a connection, is no run.
LEMMA StreamOwnerIsNoRun == StreamOwner \notin Runs
  <1>1. 0 \notin 1..MaxTopos
    OBVIOUS
  <1> QED
    BY <1>1 DEF Runs, StreamOwner

\* What a new reference changes of a subtopology.
LEMMA ReferredFields ==
    ASSUME NEW s \in SubTopo, NEW o \in Owners, NEW w \in BOOLEAN
    PROVE  /\ Referred(s, o, w) \in SubTopo
           /\ Referred(s, o, w).name = s.name
           /\ Referred(s, o, w).src = s.src
           /\ Referred(s, o, w).failed = s.failed
           /\ Referred(s, o, w).opened = s.opened
           /\ s.opened = "closed" => Referred(s, o, w) = s
           /\ s.opened # "closed" =>
                 /\ Referred(s, o, w).refs = s.refs \cup {o}
                 /\ w => Referred(s, o, w).chans = s.chans \cup {o}
                 /\ ~w => Referred(s, o, w).chans = s.chans \ {o}
  BY DEF Referred, SubTopo, Owners

\* What giving a reference back changes: the last one closes.
LEMMA RemovedFields ==
    ASSUME NEW s \in SubTopo, NEW o \in Owners, s.chans \subseteq s.refs
    PROVE  /\ RemoveRef(s, o) \in SubTopo
           /\ RemoveRef(s, o).name = s.name
           /\ RemoveRef(s, o).src = s.src
           /\ RemoveRef(s, o).failed = s.failed
           /\ RemoveRef(s, o).refs = s.refs \ {o}
           /\ RemoveRef(s, o).chans = s.chans \ {o}
           /\ RemoveRef(s, o).opened = IF s.refs = {o} THEN "closed" ELSE s.opened
  <1>1. CASE \A r \in s.refs : r[1] # o[1]
    <2>1. o \notin s.refs
      BY <1>1
    <2>2. RemoveRef(s, o) = s
      BY <1>1 DEF RemoveRef
    <2>3. s.refs = s.refs \ {o} /\ s.chans = s.chans \ {o} /\ s.refs # {o}
      BY <2>1
    <2> QED
      BY <2>2, <2>3
  <1>2. CASE ~ \A r \in s.refs : r[1] # o[1]
    <2> DEFINE R == s.refs \ {o}
               C == s.chans \ {o}
               O == IF s.refs = {o} THEN "closed" ELSE s.opened
    <2>1. RemoveRef(s, o) = [s EXCEPT !.refs = R, !.chans = C, !.opened = O]
      BY <1>2 DEF RemoveRef
    <2>2. R \in SUBSET (Runs \cup {StreamOwner}) /\ C \in SUBSET (Runs \cup {StreamOwner})
      BY DEF SubTopo
    <2>3. O \in {"init", "open", "closed"}
      BY DEF SubTopo
    <2> HIDE DEF R, C, O
    <2>4. /\ RemoveRef(s, o) \in SubTopo
          /\ RemoveRef(s, o).name = s.name
          /\ RemoveRef(s, o).src = s.src
          /\ RemoveRef(s, o).failed = s.failed
          /\ RemoveRef(s, o).refs = R
          /\ RemoveRef(s, o).chans = C
          /\ RemoveRef(s, o).opened = O
      BY <2>1, <2>2, <2>3 DEF SubTopo
    <2> QED
      BY <2>4 DEF R, C, O
  <1> QED
    BY <1>1, <1>2

\* What opening changes: of a closed subtopology, nothing.
LEMMA OpenedFields ==
    ASSUME NEW all \in Seq(SubTopo), NEW i \in DOMAIN all, NEW o \in Owners
    PROVE  /\ OpenedBy(all, i, o) \in Seq(SubTopo)
           /\ Len(OpenedBy(all, i, o)) = Len(all)
           /\ DOMAIN OpenedBy(all, i, o) = DOMAIN all
           /\ \A j \in DOMAIN all : j # i => OpenedBy(all, i, o)[j] = all[j]
           /\ OpenedBy(all, i, o)[i].name = all[i].name
           /\ OpenedBy(all, i, o)[i].src = all[i].src
           /\ OpenedBy(all, i, o)[i].failed = all[i].failed
           /\ all[i].opened = "closed" => OpenedBy(all, i, o)[i] = all[i]
           /\ all[i].opened # "closed" =>
                 /\ OpenedBy(all, i, o)[i].opened = "open"
                 /\ OpenedBy(all, i, o)[i].refs = all[i].refs \cup {o}
                 /\ OpenedBy(all, i, o)[i].chans = all[i].chans \cup {o}
  <1> DEFINE ref == Referred(all[i], o, TRUE)
             new == IF all[i].opened = "closed" THEN all[i]
                    ELSE [ref EXCEPT !.opened = "open"]
  <1>1. all[i] \in SubTopo
    OBVIOUS
  <1>2. /\ ref \in SubTopo
        /\ ref.name = all[i].name /\ ref.src = all[i].src /\ ref.failed = all[i].failed
        /\ all[i].opened # "closed" =>
              ref.refs = all[i].refs \cup {o} /\ ref.chans = all[i].chans \cup {o}
    BY <1>1, ReferredFields
  <1>3. OpenedBy(all, i, o) = [all EXCEPT ![i] = new]
    BY DEF OpenedBy
  <1> HIDE DEF ref
  <1>4. /\ new \in SubTopo
        /\ new.name = all[i].name /\ new.src = all[i].src /\ new.failed = all[i].failed
        /\ all[i].opened = "closed" => new = all[i]
        /\ all[i].opened # "closed" =>
              /\ new.opened = "open"
              /\ new.refs = all[i].refs \cup {o} /\ new.chans = all[i].chans \cup {o}
    BY <1>1, <1>2 DEF SubTopo
  <1> HIDE DEF new
  <1> QED
    BY <1>3, <1>4
-----------------------------------------------------------------------------
(* The operations of the pool                                              *)

\* What a step of a run leaves of a subtopology that exists.
Identity(i) ==
    /\ subs'[i].name = subs[i].name
    /\ subs'[i].src = subs[i].src
    /\ subs'[i].failed = subs[i].failed

\* Giving a reference back evicts the subtopology with the last one.
LEMMA CloseSubStep ==
    ASSUME SubsInv, NEW i \in DOMAIN subs, NEW o \in Owners,
           CloseSub(i, o), UNCHANGED chained
    PROVE  /\ SubsInv'
           /\ DOMAIN subs' = DOMAIN subs
           /\ Identity(i)
           /\ subs'[i].refs = subs[i].refs \ {o}
           /\ subs'[i].chans = subs[i].chans \ {o}
           /\ \A j \in DOMAIN subs : j # i => subs'[j] = subs[j]
           /\ Destroyed(i, o) <=> subs[i].refs = {o}
  <1> DEFINE new == RemoveRef(subs[i], o)
  <1>1. subs \in Seq(SubTopo) /\ subs[i] \in SubTopo /\ SubInv(i)
    BY DEF SubsInv
  <1>2. /\ new \in SubTopo
        /\ new.name = subs[i].name
        /\ new.src = subs[i].src
        /\ new.failed = subs[i].failed
        /\ new.refs = subs[i].refs \ {o}
        /\ new.chans = subs[i].chans \ {o}
        /\ new.opened = IF subs[i].refs = {o} THEN "closed" ELSE subs[i].opened
    BY <1>1, RemovedFields DEF SubInv
  <1>3. Destroyed(i, o) <=> subs[i].refs = {o}
    BY <1>2 DEF Destroyed
  <1>4. subs' = [subs EXCEPT ![i] = new]
    BY DEF CloseSub
  <1>5. pool' = IF subs[i].refs = {o} THEN [pool EXCEPT ![subs[i].name] = 0] ELSE pool
    BY <1>3 DEF CloseSub
  <1> HIDE DEF new
  <1>6. /\ subs' \in Seq(SubTopo) /\ Len(subs') = Len(subs) /\ DOMAIN subs' = DOMAIN subs
        /\ subs'[i] = new
        /\ \A j \in DOMAIN subs : j # i => subs'[j] = subs[j]
    BY <1>1, <1>2, <1>4
  <1>7. subs[i].name \in Names
    BY <1>1 DEF SubTopo
  <1>8. pool' \in [Names -> 0..Len(subs')]
    BY <1>5, <1>6, <1>7 DEF SubsInv
  <1>9. \A n \in Names : pool'[n] = pool[n] \/ pool'[n] = 0
    BY <1>5, <1>7 DEF SubsInv
  <1>10. \A j \in DOMAIN subs : subs'[j].name = subs[j].name /\ subs'[j].src = subs[j].src
    BY <1>2, <1>6
  <1>11. \A n \in Names : pool'[n] # 0 => subs'[pool'[n]].name = n
    <2> SUFFICES ASSUME NEW n \in Names, pool'[n] # 0
                 PROVE  subs'[pool'[n]].name = n
      OBVIOUS
    <2>1. pool'[n] = pool[n] /\ pool[n] \in DOMAIN subs /\ subs[pool[n]].name = n
      BY <1>1, <1>9 DEF SubsInv
    <2> QED
      BY <2>1, <1>10
  <1>12. i # 0 /\ (subs[i].refs # {} <=> pool[subs[i].name] = i)
    BY <1>1 DEF SubInv
  <1>13. ASSUME NEW j \in DOMAIN subs
         PROVE  subs'[j].refs # {} <=> pool'[subs'[j].name] = j
    <2>1. subs[j].name \in Names /\ j # 0 /\ subs'[j].name = subs[j].name
      <3>1. subs[j] \in SubTopo /\ j # 0
        BY <1>1
      <3> QED
        BY <3>1, <1>10 DEF SubTopo
    <2>2. subs[j].refs # {} <=> pool[subs[j].name] = j
      BY DEF SubsInv, SubInv
    <2>3. pool \in [Names -> 0..Len(subs)]
      BY DEF SubsInv
    <2>4. CASE subs[i].refs = {o}
      <3>1. pool' = [pool EXCEPT ![subs[i].name] = 0]
        BY <2>4, <1>5
      <3>2. pool[subs[i].name] = i
        BY <2>4, <1>12
      <3>3. CASE j = i
        BY <3>1, <3>3, <1>2, <1>6, <1>7, <2>1, <2>3, <2>4
      <3>4. CASE j # i
        BY <3>1, <3>2, <3>4, <1>6, <1>7, <2>1, <2>2, <2>3
      <3> QED
        BY <3>3, <3>4
    <2>5. CASE subs[i].refs # {o}
      <3>1. pool' = pool
        BY <2>5, <1>5
      <3>2. subs[i].refs \ {o} # {} <=> subs[i].refs # {}
        BY <2>5
      <3>3. CASE j = i
        BY <3>1, <3>2, <3>3, <1>2, <1>6, <2>1, <2>2
      <3>4. CASE j # i
        BY <3>1, <3>4, <1>6, <2>1, <2>2
      <3> QED
        BY <3>3, <3>4
    <2> QED
      BY <2>4, <2>5
  <1>14. ASSUME NEW j \in DOMAIN subs
         PROVE  SubInv(j)'
    <2>1. SubInv(j)
      BY DEF SubsInv
    <2>2. subs'[j].src # 0 =>
             subs'[j].src \in DOMAIN subs' /\ subs'[subs'[j].src].name = "conn"
      BY <2>1, <1>6, <1>10 DEF SubInv
    <2>3. subs'[j].refs # {} <=> pool'[subs'[j].name] = j
      BY <1>13
    <2>4. CASE j = i
      <3>1. /\ subs'[j].opened # "closed" => subs'[j].refs # {}
            /\ subs'[j].opened = "closed" /\ subs'[j].refs # {} => subs'[j].failed
            /\ subs'[j].failed => subs'[j].opened = "closed"
        BY <2>4, <1>1, <1>2, <1>6 DEF SubInv
      <3>2. subs'[j].chans \subseteq subs'[j].refs
        BY <2>4, <1>1, <1>2, <1>6 DEF SubInv
      <3>3. subs'[j].name = "stream" =>
               subs'[j].refs \subseteq Runs /\ (chained' => subs'[j].src # 0)
        BY <2>4, <1>1, <1>2, <1>6 DEF SubInv
      <3> QED
        BY <2>2, <2>3, <3>1, <3>2, <3>3 DEF SubInv
    <2>5. CASE j # i
      <3>1. subs'[j] = subs[j]
        BY <2>5, <1>6
      <3> QED
        BY <2>1, <2>2, <2>3, <3>1 DEF SubInv
    <2> QED
      BY <2>4, <2>5
  <1>15. SubsInv'
    <2>1. Len(subs') <= MaxSubs /\ chained' \in BOOLEAN
      BY <1>6 DEF SubsInv
    <2> QED
      BY <2>1, <1>6, <1>8, <1>11, <1>14 DEF SubsInv
  <1>16. Identity(i)
    BY <1>2, <1>6 DEF Identity
  <1> QED
    BY <1>2, <1>3, <1>6, <1>15, <1>16

\* Taking a reference to the subtopology of a name, made if the pool has none.
LEMMA GetOrCreateStep ==
    ASSUME SubsInv, NEW n \in Names, NEW o \in Owners, NEW src \in 0..MaxSubs,
           CanMake(n), UNCHANGED chained,
           subs' = GetOrCreate(n, o, src), pool' = [pool EXCEPT ![n] = Found(n)],
           n = "stream" => o \in Runs /\ (chained => src # 0),
           src # 0 => src \in DOMAIN subs /\ subs[src].name = "conn"
    PROVE  /\ SubsInv'
           /\ Found(n) \in DOMAIN subs' /\ subs'[Found(n)].name = n
           /\ DOMAIN subs \subseteq DOMAIN subs'
           /\ \A j \in DOMAIN subs' : j \in DOMAIN subs \/ j = Found(n)
           /\ \A j \in DOMAIN subs : Identity(j) /\ (j # Found(n) => subs'[j] = subs[j])
           /\ ~subs'[Found(n)].failed => o \in subs'[Found(n)].refs
           /\ Found(n) \in DOMAIN subs =>
                 /\ subs'[Found(n)].refs \subseteq subs[Found(n)].refs \cup {o}
                 /\ subs[Found(n)].refs \subseteq subs'[Found(n)].refs
                 /\ subs[Found(n)].chans \ {o} \subseteq subs'[Found(n)].chans
           /\ Found(n) \notin DOMAIN subs => subs'[Found(n)].refs = {o}
  <1>1. subs \in Seq(SubTopo) /\ pool \in [Names -> 0..Len(subs)] /\ Len(subs) \in Nat
    BY DEF SubsInv
  <1>2. CASE pool[n] = 0
    <2> DEFINE blank == [name |-> n, opened |-> "init", failed |-> FALSE, refs |-> {},
                         chans |-> {}, src |-> src, err |-> FALSE]
               new == Referred(blank, o, FALSE)
    <2>1. Found(n) = Len(subs) + 1 /\ Len(subs) < MaxSubs
      BY <1>2 DEF Found, CanMake
    <2>2. blank \in SubTopo
      BY DEF SubTopo
    <2>3. blank.name = n /\ blank.src = src /\ blank.failed = FALSE
          /\ blank.opened = "init" /\ blank.refs = {} /\ blank.chans = {}
      OBVIOUS
    <2>4. subs' = [Append(subs, blank) EXCEPT ![Len(subs) + 1] = Referred(@, o, FALSE)]
      BY <1>2, <2>1 DEF GetOrCreate
    <2> HIDE DEF blank
    <2>5. /\ new \in SubTopo
          /\ new.name = n /\ new.src = src /\ new.failed = FALSE /\ new.opened = "init"
          /\ new.refs = {o} /\ new.chans = {}
      <3>1. /\ new \in SubTopo
            /\ new.name = blank.name /\ new.src = blank.src
            /\ new.failed = blank.failed /\ new.opened = blank.opened
            /\ blank.opened # "closed" =>
                  new.refs = blank.refs \cup {o} /\ new.chans = blank.chans \ {o}
        BY <2>2, ReferredFields
      <3>2. blank.refs \cup {o} = {o} /\ blank.chans \ {o} = {}
        BY <2>3
      <3>3. new.name = n /\ new.src = src /\ new.failed = FALSE /\ new.opened = "init"
        BY <3>1, <2>3
      <3> HIDE DEF new
      <3> QED
        BY <3>1, <3>2, <3>3
    <2>6. Append(subs, blank)[Len(subs) + 1] = blank
      BY <1>1, <2>2
    <2>7. subs' = [Append(subs, blank) EXCEPT ![Len(subs) + 1] = new]
      BY <2>4, <2>6
    <2> HIDE DEF new
    <2>8. /\ subs' \in Seq(SubTopo) /\ Len(subs') = Len(subs) + 1
          /\ DOMAIN subs' = 1..(Len(subs) + 1) /\ DOMAIN subs = 1..Len(subs)
          /\ subs'[Len(subs) + 1] = new
          /\ \A j \in DOMAIN subs : subs'[j] = subs[j]
      <3> DEFINE all == Append(subs, blank)
      <3>1. /\ all \in Seq(SubTopo) /\ Len(all) = Len(subs) + 1
            /\ DOMAIN all = 1..(Len(subs) + 1) /\ DOMAIN subs = 1..Len(subs)
            /\ \A j \in DOMAIN subs : all[j] = subs[j]
        BY <1>1, <2>2
      <3> HIDE DEF all
      <3>2. subs' = [all EXCEPT ![Len(subs) + 1] = new]
        BY <2>7 DEF all
      <3>3. Len(subs) + 1 \in DOMAIN all /\ \A j \in DOMAIN subs : j # Len(subs) + 1
        BY <3>1, <1>1
      <3> QED
        BY <3>1, <3>2, <3>3, <2>5
    <2>9. pool' = [pool EXCEPT ![n] = Len(subs) + 1]
      BY <2>1
    <2>10. pool' \in [Names -> 0..Len(subs')]
      BY <1>1, <2>8, <2>9
    <2>11. \A m \in Names : pool'[m] # 0 => subs'[pool'[m]].name = m
      <3> SUFFICES ASSUME NEW m \in Names, pool'[m] # 0
                   PROVE  subs'[pool'[m]].name = m
        OBVIOUS
      <3>1. CASE m = n
        BY <3>1, <1>1, <2>5, <2>8, <2>9
      <3>2. CASE m # n
        <4>1. pool'[m] = pool[m] /\ pool[m] \in DOMAIN subs /\ subs[pool[m]].name = m
          BY <3>2, <1>1, <2>9 DEF SubsInv
        <4> QED
          BY <4>1, <2>8
      <3> QED
        BY <3>1, <3>2
    <2>12. ASSUME NEW j \in DOMAIN subs
           PROVE  SubInv(j)'
      <3>1. SubInv(j) /\ subs'[j] = subs[j] /\ subs[j].name \in Names
            /\ j \in 1..Len(subs) /\ j # 0
        <4>1. subs[j] \in SubTopo
          BY <1>1
        <4> QED
          BY <4>1, <2>8 DEF SubsInv, SubTopo
      <3>2. subs'[j].refs # {} <=> pool'[subs'[j].name] = j
        <4>1. subs[j].refs # {} <=> pool[subs[j].name] = j
          BY <3>1 DEF SubInv
        <4>2. j # Len(subs) + 1
          BY <3>1, <1>1
        <4> QED
          BY <3>1, <4>1, <4>2, <1>1, <1>2, <2>9
      <3>3. subs'[j].src # 0 =>
               subs'[j].src \in DOMAIN subs' /\ subs'[subs'[j].src].name = "conn"
        BY <3>1, <2>8 DEF SubInv
      <3> QED
        BY <3>1, <3>2, <3>3 DEF SubInv
    <2>13. ASSUME NEW k \in DOMAIN subs', k = Len(subs) + 1
           PROVE  SubInv(k)'
      <3>1. subs'[k] = new /\ pool'[n] = k
        BY <1>1, <2>8, <2>9, <2>13
      <3>2. subs'[k].src # 0 =>
               subs'[k].src \in DOMAIN subs' /\ subs'[subs'[k].src].name = "conn"
        BY <3>1, <2>5, <2>8
      <3> QED
        BY <3>1, <3>2, <2>5 DEF SubInv
    <2>14. SubsInv'
      <3>1. Len(subs') <= MaxSubs /\ chained' \in BOOLEAN
        BY <1>1, <2>1, <2>8, SubRulesAssumption DEF SubsInv
      <3>2. \A j \in DOMAIN subs' : SubInv(j)'
        <4> SUFFICES ASSUME NEW j \in DOMAIN subs'
                     PROVE  SubInv(j)'
          OBVIOUS
        <4>1. j \in DOMAIN subs \/ j = Len(subs) + 1
          BY <1>1, <2>8
        <4> QED
          BY <4>1, <2>12, <2>13
      <3> QED
        BY <3>1, <3>2, <2>8, <2>10, <2>11 DEF SubsInv
    <2>15. Found(n) \in DOMAIN subs' /\ Found(n) \notin DOMAIN subs
           /\ \A j \in DOMAIN subs' : j \in DOMAIN subs \/ j = Found(n)
      BY <1>1, <2>1, <2>8
    <2>16. /\ \A j \in DOMAIN subs : Identity(j) /\ subs'[j] = subs[j]
           /\ subs'[Found(n)].name = n /\ subs'[Found(n)].refs = {o}
           /\ DOMAIN subs \subseteq DOMAIN subs'
      BY <1>1, <2>1, <2>5, <2>8 DEF Identity
    <2> QED
      BY <2>14, <2>15, <2>16
  <1>3. CASE pool[n] # 0
    <2> DEFINE i == pool[n]
               new == Referred(subs[i], o, FALSE)
    <2>1. Found(n) = i /\ i \in DOMAIN subs /\ subs[i].name = n
      BY <1>1, <1>3 DEF Found, SubsInv
    <2>2. subs' = [subs EXCEPT ![i] = new]
      BY <1>3, <2>1 DEF GetOrCreate
    <2>3. pool' = pool
      BY <1>1, <2>1
    <2>4. subs[i] \in SubTopo /\ SubInv(i) /\ subs[i].refs # {}
      BY <1>1, <2>1 DEF SubsInv, SubInv
    <2>5. /\ new \in SubTopo
          /\ new.name = subs[i].name /\ new.src = subs[i].src
          /\ new.failed = subs[i].failed /\ new.opened = subs[i].opened
          /\ subs[i].opened = "closed" => new = subs[i]
          /\ subs[i].opened # "closed" =>
                new.refs = subs[i].refs \cup {o} /\ new.chans = subs[i].chans \ {o}
      BY <2>4, ReferredFields
    <2> HIDE DEF new, i
    <2>6. /\ subs' \in Seq(SubTopo) /\ Len(subs') = Len(subs) /\ DOMAIN subs' = DOMAIN subs
          /\ subs'[i] = new
          /\ \A j \in DOMAIN subs : j # i => subs'[j] = subs[j]
      BY <1>1, <2>1, <2>2, <2>5
    <2>7. /\ new.refs # {}
          /\ new.refs \subseteq subs[i].refs \cup {o}
          /\ subs[i].refs \subseteq new.refs
          /\ subs[i].chans \ {o} \subseteq new.chans
          /\ new.chans \subseteq new.refs
          /\ ~new.failed => o \in new.refs
      BY <2>4, <2>5 DEF SubInv
    <2>8. \A j \in DOMAIN subs : Identity(j)
      BY <2>5, <2>6 DEF Identity
    <2>9. ASSUME NEW j \in DOMAIN subs
          PROVE  SubInv(j)'
      <3>1. SubInv(j) /\ Identity(j)
        BY <2>8 DEF SubsInv
      <3>2. subs'[j].src # 0 =>
               subs'[j].src \in DOMAIN subs' /\ subs'[subs'[j].src].name = "conn"
        BY <3>1, <2>6, <2>8 DEF SubInv, Identity
      <3>3. CASE j = i
        <4>1. /\ subs'[j].refs # {} <=> pool'[subs'[j].name] = j
              /\ subs'[j].opened # "closed" => subs'[j].refs # {}
              /\ subs'[j].opened = "closed" /\ subs'[j].refs # {} => subs'[j].failed
              /\ subs'[j].failed => subs'[j].opened = "closed"
          BY <3>3, <2>3, <2>4, <2>5, <2>6, <2>7 DEF SubInv
        <4>2. subs'[j].chans \subseteq subs'[j].refs
          BY <3>3, <2>6, <2>7
        <4>3. subs'[j].name = "stream" =>
                 subs'[j].refs \subseteq Runs /\ (chained' => subs'[j].src # 0)
          BY <3>3, <2>1, <2>4, <2>5, <2>6, <2>7 DEF SubInv
        <4> QED
          BY <3>2, <4>1, <4>2, <4>3 DEF SubInv
      <3>4. CASE j # i
        <4>1. subs'[j] = subs[j]
          BY <3>4, <2>6
        <4> QED
          BY <3>1, <3>2, <4>1, <2>3 DEF SubInv
      <3> QED
        BY <3>3, <3>4
    <2>10. SubsInv'
      <3>1. Len(subs') <= MaxSubs /\ chained' \in BOOLEAN /\ pool' \in [Names -> 0..Len(subs')]
        BY <1>1, <2>3, <2>6 DEF SubsInv
      <3>2. \A m \in Names : pool'[m] # 0 => subs'[pool'[m]].name = m
        <4> SUFFICES ASSUME NEW m \in Names, pool'[m] # 0
                     PROVE  subs'[pool'[m]].name = m
          OBVIOUS
        <4>1. pool'[m] = pool[m] /\ pool[m] \in DOMAIN subs /\ subs[pool[m]].name = m
          BY <1>1, <2>3 DEF SubsInv
        <4> QED
          BY <4>1, <2>8 DEF Identity
      <3> QED
        BY <3>1, <3>2, <2>6, <2>9 DEF SubsInv
    <2> QED
      BY <2>1, <2>5, <2>6, <2>7, <2>8, <2>10
  <1> QED
    BY <1>2, <1>3

\* What opening leaves of each subtopology.
Touched(j) ==
    /\ Identity(j)
    /\ subs[j].opened = "closed" => subs'[j] = subs[j]
    /\ subs[j].opened # "closed" =>
          \/ subs'[j] = subs[j]
          \/ /\ subs'[j].opened = "open"
             /\ \E o \in Owners :
                   /\ subs[j].name = "stream" => o \in Runs
                   /\ subs'[j].refs = subs[j].refs \cup {o}
                   /\ subs'[j].chans = subs[j].chans \cup {o}

\* A run opens its stream, and the first one opens the connection below it.
LEMMA OpenStep ==
    ASSUME SubsInv, NEW x \in Runs, NEW i \in DOMAIN subs, subs[i].name = "stream",
           subs' = IF subs[i].opened = "init" /\ subs[i].src # 0
                   THEN OpenedBy(OpenedBy(subs, i, x), subs[i].src, StreamOwner)
                   ELSE OpenedBy(subs, i, x),
           UNCHANGED <<chained, pool>>
    PROVE  /\ SubsInv'
           /\ DOMAIN subs' = DOMAIN subs
           /\ \A j \in DOMAIN subs : Identity(j)
           /\ \A j \in DOMAIN subs : j # i /\ subs[j].name = "stream" => subs'[j] = subs[j]
           /\ subs[i].opened = "closed" => subs'[i] = subs[i]
           /\ subs[i].opened # "closed" =>
                 subs'[i].refs = subs[i].refs \cup {x} /\ subs'[i].chans = subs[i].chans \cup {x}
  <1> DEFINE mid == OpenedBy(subs, i, x)
             src == subs[i].src
             end == OpenedBy(mid, src, StreamOwner)
  <1>1. subs \in Seq(SubTopo) /\ x \in Owners /\ StreamOwner \in Owners
    BY DEF SubsInv, Owners
  <1>2. /\ mid \in Seq(SubTopo) /\ Len(mid) = Len(subs) /\ DOMAIN mid = DOMAIN subs
        /\ \A j \in DOMAIN subs : j # i => mid[j] = subs[j]
        /\ mid[i].name = subs[i].name /\ mid[i].src = subs[i].src
        /\ mid[i].failed = subs[i].failed
        /\ subs[i].opened = "closed" => mid[i] = subs[i]
        /\ subs[i].opened # "closed" =>
              /\ mid[i].opened = "open"
              /\ mid[i].refs = subs[i].refs \cup {x}
              /\ mid[i].chans = subs[i].chans \cup {x}
    BY <1>1, OpenedFields
  <1>3. subs' = IF subs[i].opened = "init" /\ src # 0 THEN end ELSE mid
    OBVIOUS
  <1>4. src # 0 => src \in DOMAIN subs /\ subs[src].name = "conn" /\ src # i
    BY DEF SubsInv, SubInv
  <1> HIDE DEF mid, src
  <1>5. /\ subs' \in Seq(SubTopo) /\ Len(subs') = Len(subs) /\ DOMAIN subs' = DOMAIN subs
        /\ subs'[i] = mid[i]
        /\ \A j \in DOMAIN subs : Touched(j)
        /\ \A j \in DOMAIN subs : j # i /\ subs[j].name = "stream" => subs'[j] = subs[j]
    <2>1. Touched(i) \/ subs'[i] # mid[i]
      BY <1>1, <1>2 DEF Touched, Identity
    <2>2. CASE ~(subs[i].opened = "init" /\ src # 0)
      <3>1. subs' = mid
        BY <1>3, <2>2
      <3>2. \A j \in DOMAIN subs : j # i => Touched(j)
        BY <3>1, <1>2 DEF Touched, Identity
      <3> QED
        BY <1>2, <2>1, <3>1, <3>2
    <2>3. CASE subs[i].opened = "init" /\ src # 0
      <3>1. subs' = end /\ src \in DOMAIN mid /\ src # i /\ subs[src].name = "conn"
            /\ mid[src] = subs[src]
        BY <1>2, <1>3, <1>4, <2>3
      <3>2. /\ end \in Seq(SubTopo) /\ Len(end) = Len(mid) /\ DOMAIN end = DOMAIN mid
            /\ \A j \in DOMAIN mid : j # src => end[j] = mid[j]
            /\ end[src].name = mid[src].name /\ end[src].src = mid[src].src
            /\ end[src].failed = mid[src].failed
            /\ mid[src].opened = "closed" => end[src] = mid[src]
            /\ mid[src].opened # "closed" =>
                  /\ end[src].opened = "open"
                  /\ end[src].refs = mid[src].refs \cup {StreamOwner}
                  /\ end[src].chans = mid[src].chans \cup {StreamOwner}
        <4>1. mid \in Seq(SubTopo)
          BY <1>2
        <4>2. src \in DOMAIN mid
          BY <3>1
        <4>3. StreamOwner \in Owners
          BY <1>1
        <4> QED
          BY ONLY <4>1, <4>2, <4>3, OpenedFields DEF end
      <3> HIDE DEF end
      <3>3. Touched(src)
        BY <1>1, <3>1, <3>2 DEF Touched, Identity
      <3>4. \A j \in DOMAIN subs : j # i /\ j # src => subs'[j] = subs[j] /\ Touched(j)
        BY <1>2, <3>1, <3>2 DEF Touched, Identity
      <3>5. subs'[i] = mid[i]
        BY <1>2, <3>1, <3>2
      <3>6. \A j \in DOMAIN subs : Touched(j)
        BY <2>1, <3>3, <3>4, <3>5
      <3>7. \A j \in DOMAIN subs : j # i /\ subs[j].name = "stream" => subs'[j] = subs[j]
        BY <3>1, <3>4
      <3> QED
        BY <1>2, <3>1, <3>2, <3>5, <3>6, <3>7
    <2> QED
      BY <2>2, <2>3
  <1>6. ASSUME NEW j \in DOMAIN subs
        PROVE  SubInv(j)'
    <2>1. SubInv(j) /\ Touched(j)
      BY <1>5 DEF SubsInv
    <2>2. subs'[j].src # 0 =>
             subs'[j].src \in DOMAIN subs' /\ subs'[subs'[j].src].name = "conn"
      <3>1. subs[j].src # 0 => subs[j].src \in DOMAIN subs /\ subs[subs[j].src].name = "conn"
        BY <2>1 DEF SubInv
      <3> QED
        BY <3>1, <2>1, <1>5 DEF Touched, Identity
    <2>3. CASE subs'[j] = subs[j]
      BY <2>1, <2>2, <2>3 DEF SubInv
    <2>4. CASE subs'[j] # subs[j]
      <3>1. /\ Identity(j) /\ subs[j].opened # "closed" /\ subs'[j].opened = "open"
            /\ \E o \in Owners :
                  /\ subs[j].name = "stream" => o \in Runs
                  /\ subs'[j].refs = subs[j].refs \cup {o}
                  /\ subs'[j].chans = subs[j].chans \cup {o}
        BY <2>1, <2>4 DEF Touched
      <3>2. PICK o \in Owners :
               /\ subs[j].name = "stream" => o \in Runs
               /\ subs'[j].refs = subs[j].refs \cup {o}
               /\ subs'[j].chans = subs[j].chans \cup {o}
        BY <3>1
      <3>3. subs'[j].refs # {} /\ subs[j].refs # {} /\ ~subs'[j].failed
        BY <2>1, <3>1, <3>2 DEF SubInv, Identity
      <3>4. subs'[j].refs # {} <=> pool'[subs'[j].name] = j
        BY <2>1, <3>1, <3>3 DEF SubInv, Identity
      <3>5. subs'[j].chans \subseteq subs'[j].refs
        BY <2>1, <3>2 DEF SubInv
      <3>6. subs'[j].name = "stream" =>
               subs'[j].refs \subseteq Runs /\ (chained' => subs'[j].src # 0)
        BY <2>1, <3>1, <3>2 DEF SubInv, Identity
      <3> QED
        BY <2>2, <3>1, <3>3, <3>4, <3>5, <3>6 DEF SubInv
    <2> QED
      BY <2>3, <2>4
  <1>7. SubsInv'
    <2>1. \A n \in Names : pool'[n] # 0 => subs'[pool'[n]].name = n
      <3> SUFFICES ASSUME NEW n \in Names, pool'[n] # 0
                   PROVE  subs'[pool'[n]].name = n
        OBVIOUS
      <3>1. pool'[n] = pool[n] /\ pool[n] \in DOMAIN subs /\ subs[pool[n]].name = n
        BY <1>1 DEF SubsInv
      <3> QED
        BY <3>1, <1>5 DEF Touched, Identity
    <2>2. /\ chained' \in BOOLEAN /\ Len(subs') <= MaxSubs
          /\ pool' \in [Names -> 0..Len(subs')]
      BY <1>5 DEF SubsInv
    <2> QED
      BY <2>1, <2>2, <1>5, <1>6 DEF SubsInv
  <1>8. \A j \in DOMAIN subs : Identity(j)
    BY <1>5 DEF Touched
  <1> QED
    BY <1>2, <1>5, <1>7, <1>8

\* The failure of a source closes its subtopology, and tells those that read it.
LEMMA FailStep ==
    ASSUME SubsInv, NEW i \in DOMAIN subs, SourceFails(i)
    PROVE  /\ SubsInv'
           /\ DOMAIN subs' = DOMAIN subs
           /\ \A j \in DOMAIN subs :
                 /\ subs'[j].name = subs[j].name /\ subs'[j].src = subs[j].src
                 /\ subs'[j].refs = subs[j].refs /\ subs'[j].chans = subs[j].chans
                 /\ j # i => subs'[j].failed = subs[j].failed
           /\ subs'[i].failed /\ ~subs[i].failed
  <1>1. subs \in Seq(SubTopo) /\ subs[i].opened = "open" /\ SubInv(i)
    BY DEF SubsInv, SourceFails
  <1> DEFINE new(j) ==
        IF j = i THEN [subs[i] EXCEPT !.opened = "closed", !.failed = TRUE]
        ELSE IF subs[j].src = i /\ StreamOwner \in subs[i].chans /\ subs[j].opened = "open"
        THEN [subs[j] EXCEPT !.err = TRUE]
        ELSE subs[j]
  <1>2. subs' = [j \in DOMAIN subs |-> new(j)]
    BY DEF SourceFails
  <1>3. ASSUME NEW j \in DOMAIN subs
        PROVE  /\ new(j) \in SubTopo
               /\ new(j).name = subs[j].name /\ new(j).src = subs[j].src
               /\ new(j).refs = subs[j].refs /\ new(j).chans = subs[j].chans
               /\ j # i => new(j).failed = subs[j].failed /\ new(j).opened = subs[j].opened
               /\ j = i => new(j).failed /\ new(j).opened = "closed"
    <2>1. subs[j] \in SubTopo
      BY <1>1
    <2> QED
      BY <2>1 DEF SubTopo
  <1> HIDE DEF new
  <1>4. DOMAIN subs = 1..Len(subs) /\ Len(subs) \in Nat
    BY <1>1
  <1>5. subs' \in Seq(SubTopo) /\ DOMAIN subs' = DOMAIN subs /\ Len(subs') = Len(subs)
    BY <1>2, <1>3, <1>4
  <1>6. \A j \in DOMAIN subs : subs'[j] = new(j)
    BY <1>2
  <1>7. ASSUME NEW j \in DOMAIN subs
        PROVE  SubInv(j)'
    <2>1. SubInv(j)
      BY DEF SubsInv
    <2>2. subs'[j].src # 0 =>
             subs'[j].src \in DOMAIN subs' /\ subs'[subs'[j].src].name = "conn"
      BY <2>1, <1>3, <1>5, <1>6 DEF SubInv
    <2>3. chained' = chained /\ pool' = pool
      BY DEF SourceFails
    <2>4. CASE j = i
      <3>1. subs[j].refs # {}
        BY <1>1, <2>4 DEF SubInv
      <3> QED
        BY <2>1, <2>2, <2>3, <2>4, <3>1, <1>3, <1>6 DEF SubInv
    <2>5. CASE j # i
      BY <2>1, <2>2, <2>3, <2>5, <1>3, <1>6 DEF SubInv
    <2> QED
      BY <2>4, <2>5
  <1>8. SubsInv'
    <2>1. /\ chained' \in BOOLEAN /\ Len(subs') <= MaxSubs
          /\ pool' = pool /\ pool \in [Names -> 0..Len(subs')]
      BY <1>5 DEF SubsInv, SourceFails
    <2>2. \A n \in Names : pool'[n] # 0 => subs'[pool'[n]].name = n
      <3> SUFFICES ASSUME NEW n \in Names, pool'[n] # 0
                   PROVE  subs'[pool'[n]].name = n
        OBVIOUS
      <3>1. pool'[n] = pool[n] /\ pool[n] \in DOMAIN subs /\ subs[pool[n]].name = n
        BY <1>4, <2>1 DEF SubsInv
      <3> QED
        BY <3>1, <1>3, <1>6
    <2> QED
      BY <2>1, <2>2, <1>5, <1>7 DEF SubsInv
  <1>9. ~subs[i].failed
    BY <1>1 DEF SubInv
  <1> QED
    BY <1>3, <1>5, <1>6, <1>8, <1>9
-----------------------------------------------------------------------------
(* The runs                                                                *)

\* A topology that goes on keeps what it uses; one that has ended forgets it.
LEMMA GoRunFields ==
    ASSUME runs \in [Runs -> SubRun], NEW x \in Runs, NEW at \in RunPc, GoRun(x, at)
    PROVE  /\ runs' \in [Runs -> SubRun]
           /\ \A y \in Runs : y # x => runs'[y] = runs[y]
           /\ runs'[x].pc = at
           /\ at = "done" => runs'[x].sub = 0 /\ runs'[x].conn = 0
           /\ at # "done" => /\ runs'[x].sub = runs[x].sub
                             /\ runs'[x].conn = runs[x].conn
                             /\ runs'[x].told = runs[x].told
  <1> DEFINE ended == [New EXCEPT !.pc = "done"]
             going == [runs[x] EXCEPT !.pc = at]
  <1>1. runs[x] \in SubRun
    OBVIOUS
  <1>2. ended \in SubRun /\ ended.pc = "done" /\ ended.sub = 0 /\ ended.conn = 0
    <2>1. New \in SubRun /\ New.sub = 0 /\ New.conn = 0 /\ "done" \in RunPc
      <3>1. 0 \in 0..MaxSubs
        BY SubRulesAssumption
      <3> QED
        BY <3>1 DEF New, SubRun, RunPc
    <2> QED
      BY <2>1 DEF SubRun
  <1>3. /\ going \in SubRun /\ going.pc = at /\ going.sub = runs[x].sub
        /\ going.conn = runs[x].conn /\ going.told = runs[x].told
    BY <1>1 DEF SubRun
  <1>4. runs' = [runs EXCEPT ![x] = IF at = "done" THEN ended ELSE going]
    BY DEF GoRun
  <1> HIDE DEF ended, going
  <1>5. runs'[x] = IF at = "done" THEN ended ELSE going
    BY <1>4
  <1> QED
    BY <1>2, <1>3, <1>4, <1>5

\* A step of one run keeps the invariant of the others as long as what it does
\* to the streams concerns itself only.
LEMMA OthersStep ==
    ASSUME PoolInv, NEW x \in Runs, UNCHANGED chained, SubsInv',
           DOMAIN subs \subseteq DOMAIN subs',
           \A j \in DOMAIN subs : Identity(j),
           runs' \in [Runs -> SubRun],
           \A y \in Runs : y # x => runs'[y] = runs[y],
           \A y \in Runs, j \in DOMAIN subs : y # x /\ subs[j].name = "stream" =>
               /\ y \in subs'[j].refs <=> y \in subs[j].refs
               /\ y \in subs[j].chans => y \in subs'[j].chans,
           \A j \in DOMAIN subs' : j \notin DOMAIN subs /\ subs'[j].name = "stream" =>
               subs'[j].refs \subseteq {x},
           RunInv(x)', ToldInv(x)',
           \A i \in DOMAIN subs' : RefInv(x, i)'
    PROVE  UsersInv'
  <1>1. ASSUME NEW y \in Runs, y # x
        PROVE  RunInv(y)' /\ ToldInv(y)'
    <2>1. runs'[y] = runs[y] /\ RunInv(y) /\ ToldInv(y) /\ chained' = chained
      BY <1>1 DEF PoolInv, UsersInv
    <2>2. runs[y].sub # 0 =>
             /\ runs[y].sub \in DOMAIN subs' /\ subs'[runs[y].sub].name = "stream"
             /\ subs'[runs[y].sub].src = subs[runs[y].sub].src
             /\ subs'[runs[y].sub].failed = subs[runs[y].sub].failed
      BY <2>1 DEF RunInv, Identity
    <2>3. runs[y].conn # 0 =>
             runs[y].conn \in DOMAIN subs' /\ subs'[runs[y].conn].name = "conn"
      BY <2>1 DEF RunInv, Identity
    <2>4. RunInv(y)'
      BY <2>1, <2>2, <2>3 DEF RunInv
    <2>5. runs[y].pc = "open" => runs[y].sub # 0
      BY <2>1 DEF RunInv
    <2>6. ToldInv(y)'
      BY <2>1, <2>2, <2>5 DEF ToldInv
    <2> QED
      BY <2>4, <2>6
  <1>2. ASSUME NEW y \in Runs, y # x, NEW i \in DOMAIN subs'
        PROVE  RefInv(y, i)'
    <2>1. runs'[y] = runs[y] /\ RunInv(y)
      BY <1>2 DEF PoolInv, UsersInv
    <2>2. CASE i \in DOMAIN subs
      <3>1. RefInv(y, i) /\ Identity(i)
        BY <2>2 DEF PoolInv, UsersInv
      <3>2. subs[i].name = "stream" =>
               /\ y \in subs'[i].refs <=> y \in subs[i].refs
               /\ y \in subs[i].chans => y \in subs'[i].chans
        BY <1>2, <2>2
      <3> QED
        BY <2>1, <3>1, <3>2 DEF RefInv, Identity
    <2>3. CASE i \notin DOMAIN subs
      <3>1. subs'[i].name = "stream" => y \notin subs'[i].refs
        BY <1>2, <2>3
      <3>2. i # 0
        BY DEF SubsInv
      <3>3. runs[y].sub # i
        BY <2>1, <2>3, <3>2 DEF RunInv
      <3> QED
        BY <2>1, <3>1, <3>3 DEF RefInv
    <2> QED
      BY <2>2, <2>3
  <1> QED
    BY <1>1, <1>2 DEF UsersInv

\* Giving a connection back concerns no stream.
LEMMA ConnBack ==
    ASSUME PoolInv, NEW x \in Runs, NEW c \in DOMAIN subs, subs[c].name = "conn",
           CloseSub(c, StreamOwner), GoRun(x, "done"), UNCHANGED chained,
           runs[x].pc \in {"conn", "abandon", "chain"}
    PROVE  PoolInv'
  <1>1. SubsInv /\ UsersInv /\ StreamOwner \in Owners
    BY DEF PoolInv, Owners
  <1>2. /\ SubsInv' /\ DOMAIN subs' = DOMAIN subs /\ Identity(c)
        /\ \A j \in DOMAIN subs : j # c => subs'[j] = subs[j]
    BY <1>1, CloseSubStep
  <1>3. \A j \in DOMAIN subs : Identity(j) /\ (subs[j].name = "stream" => subs'[j] = subs[j])
    BY <1>2 DEF Identity
  <1>4. /\ runs' \in [Runs -> SubRun]
        /\ \A y \in Runs : y # x => runs'[y] = runs[y]
        /\ runs'[x].pc = "done" /\ runs'[x].sub = 0 /\ runs'[x].conn = 0
    <2>1. "done" \in RunPc
      BY DEF RunPc
    <2> QED
      BY <1>1, <2>1, GoRunFields DEF UsersInv
  <1>5. RunInv(x)' /\ ToldInv(x)'
    BY <1>4 DEF RunInv, ToldInv
  <1>6. ASSUME NEW i \in DOMAIN subs'
        PROVE  RefInv(x, i)'
    <2>1. RefInv(x, i) /\ i # 0
      BY <1>1, <1>2 DEF UsersInv, SubsInv
    <2> QED
      BY <2>1, <1>2, <1>3, <1>4 DEF RefInv, Identity
  <1>7. UsersInv'
    BY <1>2, <1>3, <1>4, <1>5, <1>6, OthersStep
  <1> QED
    BY <1>2, <1>7 DEF PoolInv

\* A run that leaves its stream is no longer referred to.
LEMMA StreamLeft ==
    ASSUME PoolInv, NEW x \in Runs, NEW at \in RunPc,
           runs[x].pc \in {"reject", "planned", "open", "deaf"},
           CloseSub(runs[x].sub, x), GoRun(x, at), UNCHANGED chained,
           at \in {"chain", "abandon", "closed", "done"},
           at = "chain" => subs[runs[x].sub].src # 0,
           at = "abandon" => runs[x].conn # 0
    PROVE  PoolInv'
  <1> DEFINE i == runs[x].sub
  <1>1. SubsInv /\ UsersInv /\ RunInv(x) /\ x \in Owners
    BY DEF PoolInv, UsersInv, Owners
  <1>2. i # 0 /\ i \in DOMAIN subs /\ subs[i].name = "stream"
    BY <1>1 DEF RunInv
  <1>3. CloseSub(i, x)
    OBVIOUS
  <1>4. /\ SubsInv' /\ DOMAIN subs' = DOMAIN subs /\ Identity(i)
        /\ subs'[i].refs = subs[i].refs \ {x}
        /\ subs'[i].chans = subs[i].chans \ {x}
        /\ \A j \in DOMAIN subs : j # i => subs'[j] = subs[j]
    <2> HIDE DEF i
    <2> QED
      BY <1>1, <1>2, <1>3, CloseSubStep
  <1>5. \A j \in DOMAIN subs : Identity(j)
    BY <1>4 DEF Identity
  <1>6. /\ runs' \in [Runs -> SubRun]
        /\ \A y \in Runs : y # x => runs'[y] = runs[y]
        /\ runs'[x].pc = at
        /\ at = "done" => runs'[x].sub = 0 /\ runs'[x].conn = 0
        /\ at # "done" => /\ runs'[x].sub = i /\ runs'[x].conn = runs[x].conn
    BY <1>1, GoRunFields DEF UsersInv
  <1> HIDE DEF i
  <1>7. i \in DOMAIN subs' /\ subs'[i].name = "stream" /\ subs'[i].src = subs[i].src
    BY <1>2, <1>4 DEF Identity
  <1>8. runs[x].conn # 0 =>
           runs[x].conn \in DOMAIN subs' /\ subs'[runs[x].conn].name = "conn"
    BY <1>1, <1>4, <1>5 DEF RunInv, Identity
  <1>9. RunInv(x)'
    BY <1>2, <1>6, <1>7, <1>8 DEF RunInv, i
  <1>10. ToldInv(x)'
    BY <1>6 DEF ToldInv
  <1>11. ASSUME NEW j \in DOMAIN subs'
         PROVE  RefInv(x, j)'
    <2>1. RefInv(x, j)
      BY <1>1, <1>4 DEF UsersInv
    <2>2. subs'[j].name = "stream" => x \notin subs'[j].refs
      <3>1. CASE j = i
        BY <3>1, <1>4
      <3>2. CASE j # i
        BY <3>2, <2>1, <1>4 DEF RefInv, i
      <3> QED
        BY <3>1, <3>2
    <2>3. runs'[x].pc \notin {"planned", "open"}
      BY <1>6
    <2> QED
      BY <2>2, <2>3 DEF RefInv
  <1>12. \A y \in Runs, j \in DOMAIN subs : y # x /\ subs[j].name = "stream" =>
             /\ y \in subs'[j].refs <=> y \in subs[j].refs
             /\ y \in subs[j].chans => y \in subs'[j].chans
    BY <1>4
  <1>13. UsersInv'
    BY <1>4, <1>5, <1>6, <1>9, <1>10, <1>11, <1>12, OthersStep
  <1> QED
    BY <1>4, <1>13 DEF PoolInv
-----------------------------------------------------------------------------
(* The steps                                                               *)

LEMMA PlanConnStep ==
    ASSUME PoolInv, NEW x \in Runs, PlanConn(x)
    PROVE  PoolInv'
  <1> DEFINE c == Found("conn")
  <1>1. SubsInv /\ UsersInv /\ RunInv(x) /\ runs[x] \in SubRun /\ runs[x].pc = "new"
        /\ StreamOwner \in Owners
    BY DEF PoolInv, UsersInv, Owners, PlanConn
  <1>2. "conn" \in Names /\ 0 \in 0..MaxSubs
    BY SubRulesAssumption DEF Names
  <1>3. /\ CanMake("conn") /\ UNCHANGED chained
        /\ subs' = GetOrCreate("conn", StreamOwner, 0)
        /\ pool' = [pool EXCEPT !["conn"] = Found("conn")]
    BY DEF PlanConn
  <1>4. /\ SubsInv' /\ c \in DOMAIN subs' /\ subs'[c].name = "conn"
        /\ DOMAIN subs \subseteq DOMAIN subs'
        /\ \A j \in DOMAIN subs' : j \in DOMAIN subs \/ j = c
        /\ \A j \in DOMAIN subs : Identity(j) /\ (j # c => subs'[j] = subs[j])
    BY <1>1, <1>2, <1>3, GetOrCreateStep
  <1>5. runs' = [runs EXCEPT ![x] = [@ EXCEPT !.pc = "conn", !.conn = c]]
    BY DEF PlanConn
  <1> HIDE DEF c
  <1>6. c \in 0..MaxSubs /\ c # 0
    BY <1>4, SubRulesAssumption DEF SubsInv
  <1>7. [runs[x] EXCEPT !.pc = "conn", !.conn = c] \in SubRun
    BY <1>1, <1>6 DEF SubRun, RunPc
  <1>8. /\ runs' \in [Runs -> SubRun]
        /\ \A y \in Runs : y # x => runs'[y] = runs[y]
        /\ runs'[x].pc = "conn" /\ runs'[x].conn = c /\ runs'[x].sub = runs[x].sub
    <2>1. runs \in [Runs -> SubRun]
      BY <1>1 DEF UsersInv
    <2>2. runs'[x] = [runs[x] EXCEPT !.pc = "conn", !.conn = c]
      BY <1>5, <2>1
    <2> QED
      BY <1>1, <1>5, <1>7, <2>1, <2>2 DEF SubRun
  <1>9. \A j \in DOMAIN subs : subs[j].name = "stream" => subs'[j] = subs[j]
    BY <1>4 DEF Identity
  <1>10. runs[x].sub # 0 =>
            runs[x].sub \in DOMAIN subs' /\ subs'[runs[x].sub].name = "stream"
    BY <1>1, <1>4 DEF RunInv, Identity
  <1>11. RunInv(x)' /\ ToldInv(x)'
    BY <1>4, <1>6, <1>8, <1>10 DEF RunInv, ToldInv
  <1>12. ASSUME NEW j \in DOMAIN subs'
         PROVE  RefInv(x, j)'
    <2>1. CASE j \in DOMAIN subs
      <3>1. RefInv(x, j) /\ Identity(j)
        BY <1>1, <1>4, <2>1 DEF UsersInv
      <3> QED
        BY <2>1, <3>1, <1>1, <1>8, <1>9 DEF RefInv, Identity
    <2>2. CASE j \notin DOMAIN subs
      BY <2>2, <1>4 DEF RefInv
    <2> QED
      BY <2>1, <2>2
  <1>13. \A y \in Runs, j \in DOMAIN subs : y # x /\ subs[j].name = "stream" =>
             /\ y \in subs'[j].refs <=> y \in subs[j].refs
             /\ y \in subs[j].chans => y \in subs'[j].chans
    BY <1>9
  <1>14. \A j \in DOMAIN subs' : j \notin DOMAIN subs /\ subs'[j].name = "stream" =>
             subs'[j].refs \subseteq {x}
    BY <1>4
  <1>15. UsersInv'
    BY <1>3, <1>4, <1>8, <1>11, <1>12, <1>13, <1>14, OthersStep
  <1> QED
    BY <1>4, <1>15 DEF PoolInv

LEMMA PlanStreamStep ==
    ASSUME PoolInv, NEW x \in Runs, PlanStream(x)
    PROVE  PoolInv'
  <1> DEFINE f == Found("stream")
             src == runs[x].conn
  <1>1. /\ SubsInv /\ UsersInv /\ RunInv(x) /\ runs[x] \in SubRun
        /\ runs[x].pc = IF chained THEN "conn" ELSE "new"
        /\ x \in Owners
    BY DEF PoolInv, UsersInv, Owners, PlanStream
  <1>2. "stream" \in Names /\ src \in 0..MaxSubs
    BY <1>1 DEF Names, SubRun
  <1>3. /\ CanMake("stream") /\ UNCHANGED chained
        /\ subs' = GetOrCreate("stream", x, src)
        /\ pool' = [pool EXCEPT !["stream"] = Found("stream")]
    BY DEF PlanStream
  <1>4. /\ chained => src # 0
        /\ src # 0 => src \in DOMAIN subs /\ subs[src].name = "conn"
    BY <1>1 DEF RunInv
  <1>5. /\ SubsInv' /\ f \in DOMAIN subs' /\ subs'[f].name = "stream"
        /\ DOMAIN subs \subseteq DOMAIN subs'
        /\ \A j \in DOMAIN subs' : j \in DOMAIN subs \/ j = f
        /\ \A j \in DOMAIN subs : Identity(j) /\ (j # f => subs'[j] = subs[j])
        /\ ~subs'[f].failed => x \in subs'[f].refs
        /\ f \in DOMAIN subs =>
              /\ subs'[f].refs \subseteq subs[f].refs \cup {x}
              /\ subs[f].refs \subseteq subs'[f].refs
              /\ subs[f].chans \ {x} \subseteq subs'[f].chans
        /\ f \notin DOMAIN subs => subs'[f].refs = {x}
    <2> HIDE DEF src
    <2> QED
      BY <1>1, <1>2, <1>3, <1>4, GetOrCreateStep
  <1>6. PICK at \in {"planned", "reject"} :
           runs' = [runs EXCEPT ![x] = [@ EXCEPT !.pc = at, !.sub = f]]
    BY DEF PlanStream
  <1> HIDE DEF f, src
  <1>7. f \in 0..MaxSubs /\ f # 0
    BY <1>5, SubRulesAssumption DEF SubsInv
  <1>8. [runs[x] EXCEPT !.pc = at, !.sub = f] \in SubRun
    <2>1. at \in RunPc
      BY DEF RunPc
    <2> QED
      BY <2>1, <1>1, <1>7 DEF SubRun
  <1>9. /\ runs' \in [Runs -> SubRun]
        /\ \A y \in Runs : y # x => runs'[y] = runs[y]
        /\ runs'[x].pc = at /\ runs'[x].sub = f /\ runs'[x].conn = src
    <2>1. runs \in [Runs -> SubRun]
      BY <1>1 DEF UsersInv
    <2>2. runs'[x] = [runs[x] EXCEPT !.pc = at, !.sub = f]
      BY <1>6, <2>1
    <2> QED
      BY <1>1, <1>6, <1>8, <2>1, <2>2 DEF SubRun, src
  <1>10. src # 0 => src \in DOMAIN subs' /\ subs'[src].name = "conn"
    BY <1>4, <1>5 DEF Identity
  <1>11. RunInv(x)' /\ ToldInv(x)'
    BY <1>3, <1>4, <1>5, <1>7, <1>9, <1>10 DEF RunInv, ToldInv
  <1>12. ASSUME NEW j \in DOMAIN subs
         PROVE  subs[j].name = "stream" => x \notin subs[j].refs
    <2>1. RefInv(x, j)
      BY <1>1 DEF UsersInv
    <2> QED
      BY <2>1, <1>1 DEF RefInv
  <1>13. ASSUME NEW j \in DOMAIN subs'
         PROVE  RefInv(x, j)'
    <2>1. CASE j = f
      BY <2>1, <1>5, <1>9 DEF RefInv
    <2>2. CASE j # f
      <3>1. j \in DOMAIN subs /\ subs'[j] = subs[j]
        BY <2>2, <1>5
      <3> QED
        BY <2>2, <3>1, <1>9, <1>12 DEF RefInv
    <2> QED
      BY <2>1, <2>2
  <1>14. ASSUME NEW y \in Runs, NEW j \in DOMAIN subs, y # x, subs[j].name = "stream"
         PROVE  /\ y \in subs'[j].refs <=> y \in subs[j].refs
                /\ y \in subs[j].chans => y \in subs'[j].chans
    <2>1. CASE j = f
      BY <2>1, <1>5, <1>14
    <2>2. CASE j # f
      BY <2>2, <1>5
    <2> QED
      BY <2>1, <2>2
  <1>15. \A j \in DOMAIN subs' : j \notin DOMAIN subs /\ subs'[j].name = "stream" =>
             subs'[j].refs \subseteq {x}
    BY <1>5
  <1>16. UsersInv'
    BY <1>3, <1>5, <1>9, <1>11, <1>13, <1>14, <1>15, OthersStep
  <1> QED
    BY <1>5, <1>16 DEF PoolInv

LEMMA OpenRunStep ==
    ASSUME PoolInv, NEW x \in Runs, OpenRun(x)
    PROVE  PoolInv'
  <1> DEFINE i == runs[x].sub
             at == IF runs[x].pc = "closed" THEN "late"
                   ELSE IF subs[i].opened = "closed" THEN "deaf" ELSE "open"
  <1>1. SubsInv /\ UsersInv /\ RunInv(x) /\ runs[x].pc \in {"planned", "closed"}
    BY DEF PoolInv, UsersInv, OpenRun
  <1>2. i # 0 /\ i \in DOMAIN subs /\ subs[i].name = "stream"
    BY <1>1 DEF RunInv
  <1>3. /\ subs' = IF subs[i].opened = "init" /\ subs[i].src # 0
                   THEN OpenedBy(OpenedBy(subs, i, x), subs[i].src, StreamOwner)
                   ELSE OpenedBy(subs, i, x)
        /\ UNCHANGED <<chained, pool>>
        /\ GoRun(x, at)
    BY DEF OpenRun
  <1> HIDE DEF i
  <1>4. /\ SubsInv' /\ DOMAIN subs' = DOMAIN subs
        /\ \A j \in DOMAIN subs : Identity(j)
        /\ \A j \in DOMAIN subs : j # i /\ subs[j].name = "stream" => subs'[j] = subs[j]
        /\ subs[i].opened = "closed" => subs'[i] = subs[i]
        /\ subs[i].opened # "closed" =>
              subs'[i].refs = subs[i].refs \cup {x} /\ subs'[i].chans = subs[i].chans \cup {x}
    BY <1>1, <1>2, <1>3, OpenStep
  <1>5. /\ at \in {"late", "deaf", "open"} /\ at \in RunPc
        /\ at = "open" => subs[i].opened # "closed" /\ runs[x].pc = "planned"
    BY <1>1 DEF RunPc
  <1>6. GoRun(x, at)
    BY <1>3
  <1> HIDE DEF at
  <1>7. /\ runs' \in [Runs -> SubRun]
        /\ \A y \in Runs : y # x => runs'[y] = runs[y]
        /\ runs'[x].pc = at /\ runs'[x].sub = i /\ runs'[x].conn = runs[x].conn
    BY <1>1, <1>5, <1>6, GoRunFields DEF UsersInv, i
  <1>8. runs[x].conn # 0 =>
           runs[x].conn \in DOMAIN subs' /\ subs'[runs[x].conn].name = "conn"
    BY <1>1, <1>4 DEF RunInv, Identity
  <1>9. RunInv(x)'
    <2>1. subs'[i].name = "stream" /\ i \in DOMAIN subs'
      BY <1>2, <1>4 DEF Identity
    <2> QED
      BY <2>1, <1>2, <1>5, <1>7, <1>8 DEF RunInv
  <1>10. at = "open" => ~subs'[i].failed /\ x \in subs'[i].refs /\ x \in subs'[i].chans
    <2>1. SubInv(i)
      BY <1>1, <1>2 DEF SubsInv
    <2> QED
      BY <2>1, <1>2, <1>4, <1>5 DEF SubInv, Identity
  <1>11. ToldInv(x)'
    BY <1>7, <1>10 DEF ToldInv
  <1>12. ASSUME NEW j \in DOMAIN subs'
         PROVE  RefInv(x, j)'
    <2>1. RefInv(x, j)
      BY <1>1, <1>4 DEF UsersInv
    <2>2. CASE j = i
      BY <2>2, <1>5, <1>7, <1>10 DEF RefInv
    <2>3. CASE j # i
      <3>1. subs'[j].name = "stream" => x \notin subs'[j].refs
        BY <2>1, <2>3, <1>4 DEF RefInv, i, Identity
      <3> QED
        BY <2>3, <3>1, <1>7 DEF RefInv
    <2> QED
      BY <2>2, <2>3
  <1>13. ASSUME NEW y \in Runs, NEW j \in DOMAIN subs, y # x, subs[j].name = "stream"
         PROVE  /\ y \in subs'[j].refs <=> y \in subs[j].refs
                /\ y \in subs[j].chans => y \in subs'[j].chans
    <2>1. CASE j = i
      BY <2>1, <1>4, <1>13
    <2>2. CASE j # i
      BY <2>2, <1>4, <1>13
    <2> QED
      BY <2>1, <2>2
  <1>14. UNCHANGED chained
    BY <1>3
  <1>15. UsersInv'
    BY <1>4, <1>7, <1>9, <1>11, <1>12, <1>13, <1>14, OthersStep
  <1> QED
    BY <1>4, <1>15 DEF PoolInv

LEMMA SourceFailsStep ==
    ASSUME PoolInv, NEW i \in DOMAIN subs, SourceFails(i)
    PROVE  PoolInv'
  <1>1. SubsInv /\ UsersInv
    BY DEF PoolInv
  <1>2. /\ SubsInv' /\ DOMAIN subs' = DOMAIN subs
        /\ \A j \in DOMAIN subs :
              /\ subs'[j].name = subs[j].name /\ subs'[j].src = subs[j].src
              /\ subs'[j].refs = subs[j].refs /\ subs'[j].chans = subs[j].chans
              /\ j # i => subs'[j].failed = subs[j].failed
        /\ subs'[i].failed /\ ~subs[i].failed
    BY <1>1, FailStep
  <1>3. ASSUME NEW x \in Runs
        PROVE  /\ runs'[x] \in SubRun
               /\ runs'[x].pc = runs[x].pc /\ runs'[x].sub = runs[x].sub
               /\ runs'[x].conn = runs[x].conn
               /\ runs[x].told => runs'[x].told
               /\ x \in subs[i].chans => runs'[x].told
    <2> DEFINE told == runs[x].told \/ x \in subs[i].chans
    <2>1. runs[x] \in SubRun
      BY <1>1 DEF UsersInv
    <2>2. runs'[x] = [runs[x] EXCEPT !.told = told]
      BY DEF SourceFails
    <2>3. told \in BOOLEAN
      OBVIOUS
    <2>4. (runs[x].told => told) /\ (x \in subs[i].chans => told)
      OBVIOUS
    <2> HIDE DEF told
    <2>5. /\ runs'[x] \in SubRun
          /\ runs'[x].pc = runs[x].pc /\ runs'[x].sub = runs[x].sub
          /\ runs'[x].conn = runs[x].conn
      BY <2>1, <2>2, <2>3 DEF SubRun
    <2>6. runs'[x].told = told
      BY <2>1, <2>2 DEF SubRun
    <2> QED
      BY <2>4, <2>5, <2>6
  <1>4. runs' \in [Runs -> SubRun]
    BY <1>3 DEF SourceFails
  <1>5. ASSUME NEW x \in Runs
        PROVE  RunInv(x)' /\ ToldInv(x)'
    <2>1. RunInv(x) /\ ToldInv(x) /\ chained' = chained
      BY <1>1 DEF UsersInv, SourceFails
    <2>2. RunInv(x)'
      BY <2>1, <1>2, <1>3 DEF RunInv
    <2>3. ASSUME runs'[x].pc = "open", subs'[runs'[x].sub].failed
          PROVE  runs'[x].told
      <3>1. runs[x].pc = "open" /\ runs[x].sub # 0 /\ runs[x].sub \in DOMAIN subs
            /\ subs[runs[x].sub].name = "stream" /\ runs'[x].sub = runs[x].sub
        BY <2>1, <2>3, <1>3 DEF RunInv
      <3>2. CASE runs[x].sub = i
        <4>1. RefInv(x, i)
          BY <1>1 DEF UsersInv
        <4>2. x \in subs[i].chans
          BY <3>1, <3>2, <4>1, <1>2 DEF RefInv
        <4> QED
          BY <4>2, <1>3
      <3>3. CASE runs[x].sub # i
        <4>1. subs[runs[x].sub].failed
          BY <2>3, <3>1, <3>3, <1>2
        <4> QED
          BY <2>1, <3>1, <4>1, <1>3 DEF ToldInv
      <3> QED
        BY <3>2, <3>3
    <2> QED
      BY <2>2, <2>3 DEF ToldInv
  <1>6. ASSUME NEW x \in Runs, NEW j \in DOMAIN subs'
        PROVE  RefInv(x, j)'
    <2>1. RefInv(x, j) /\ j \in DOMAIN subs
      BY <1>1, <1>2, <1>6 DEF UsersInv
    <2>2. ~subs'[j].failed => ~subs[j].failed
      BY <2>1, <1>2
    <2> QED
      BY <2>1, <2>2, <1>2, <1>3 DEF RefInv
  <1>7. UsersInv'
    BY <1>4, <1>5, <1>6 DEF UsersInv
  <1> QED
    BY <1>2, <1>7 DEF PoolInv
-----------------------------------------------------------------------------
(* The theorem                                                             *)

LEMMA PoolInit == SubInit => PoolInv
  <1> SUFFICES ASSUME SubInit
               PROVE  PoolInv
    OBVIOUS
  <1>1. subs = << >> /\ DOMAIN subs = {} /\ Len(subs) = 0 /\ subs \in Seq(SubTopo)
    BY DEF SubInit
  <1>2. New \in SubRun
    <2>1. 0 \in 0..MaxSubs
      BY SubRulesAssumption
    <2> QED
      BY <2>1 DEF New, SubRun, RunPc
  <1>3. pool \in [Names -> 0..Len(subs)] /\ \A n \in Names : pool[n] = 0
    BY <1>1 DEF SubInit
  <1>4. SubsInv
    BY <1>1, <1>3, SubRulesAssumption DEF SubsInv, SubInit
  <1>5. \A x \in Runs : runs[x].pc = "new" /\ runs[x].sub = 0 /\ runs[x].conn = 0
    BY DEF SubInit, New
  <1>6. \A x \in Runs : RunInv(x) /\ ToldInv(x)
    BY <1>5 DEF RunInv, ToldInv
  <1>7. UsersInv
    BY <1>1, <1>2, <1>6 DEF UsersInv, SubInit
  <1> QED
    BY <1>4, <1>7 DEF PoolInv

LEMMA PoolNext == PoolInv /\ [SubNext]_subVars => PoolInv'
  <1> SUFFICES ASSUME PoolInv, [SubNext]_subVars
               PROVE  PoolInv'
    OBVIOUS
  <1>1. CASE UNCHANGED subVars
    <2>1. UNCHANGED subs /\ UNCHANGED runs /\ UNCHANGED pool /\ UNCHANGED chained
      BY <1>1 DEF subVars
    <2> QED
      BY <2>1 DEF PoolInv, SubsInv, UsersInv, SubInv, RunInv, ToldInv, RefInv
  <1>2. ASSUME NEW x \in Runs, RunSteps(x)
        PROVE  PoolInv'
    <2>1. SubsInv /\ RunInv(x)
      BY DEF PoolInv, UsersInv
    <2>2. CASE PlanConn(x)
      BY <2>2, PlanConnStep
    <2>3. CASE PlanFails(x)
      <3>1. /\ runs[x].conn \in DOMAIN subs /\ subs[runs[x].conn].name = "conn"
            /\ runs[x].pc = "conn"
        BY <2>1, <2>3 DEF PlanFails, RunInv
      <3>2. CloseSub(runs[x].conn, StreamOwner) /\ GoRun(x, "done") /\ UNCHANGED chained
        BY <2>3 DEF PlanFails
      <3> QED
        BY <3>1, <3>2, ConnBack
    <2>4. CASE PlanStream(x)
      BY <2>4, PlanStreamStep
    <2>5. CASE Reject(x)
      <3> DEFINE at == IF Destroyed(runs[x].sub, x) /\ chained THEN "chain"
                       ELSE IF chained THEN "abandon" ELSE "done"
      <3>1. /\ runs[x].pc = "reject" /\ CloseSub(runs[x].sub, x) /\ GoRun(x, at)
            /\ UNCHANGED chained
        BY <2>5 DEF Reject
      <3>2. /\ runs[x].sub \in DOMAIN subs /\ subs[runs[x].sub].name = "stream"
            /\ chained => runs[x].conn # 0
        BY <2>1, <3>1 DEF RunInv
      <3>3. chained => subs[runs[x].sub].src # 0
        <4>1. SubInv(runs[x].sub)
          BY <2>1, <3>2 DEF SubsInv
        <4> QED
          BY <3>2, <4>1 DEF SubInv
      <3>4. /\ at \in {"chain", "abandon", "closed", "done"} /\ at \in RunPc
            /\ at = "chain" => subs[runs[x].sub].src # 0
            /\ at = "abandon" => runs[x].conn # 0
        BY <3>2, <3>3 DEF RunPc
      <3> HIDE DEF at
      <3> QED
        BY <3>1, <3>4, StreamLeft
    <2>6. CASE Abandon(x)
      <3>1. /\ runs[x].conn \in DOMAIN subs /\ subs[runs[x].conn].name = "conn"
            /\ runs[x].pc = "abandon"
        BY <2>1, <2>6 DEF Abandon, RunInv
      <3>2. CloseSub(runs[x].conn, StreamOwner) /\ GoRun(x, "done") /\ UNCHANGED chained
        BY <2>6 DEF Abandon
      <3> QED
        BY <3>1, <3>2, ConnBack
    <2>7. CASE OpenRun(x)
      BY <2>7, OpenRunStep
    <2>8. CASE CloseRun(x)
      <3> DEFINE at == IF subs[runs[x].sub].src # 0 /\ Destroyed(runs[x].sub, x) THEN "chain"
                       ELSE IF runs[x].pc = "planned" THEN "closed" ELSE "done"
      <3>1. /\ runs[x].pc \in {"reject", "planned", "open", "deaf"}
            /\ CloseSub(runs[x].sub, x) /\ GoRun(x, at) /\ UNCHANGED chained
        BY <2>8 DEF CloseRun
      <3>2. /\ at \in {"chain", "abandon", "closed", "done"} /\ at \in RunPc
            /\ at = "chain" => subs[runs[x].sub].src # 0
            /\ at = "abandon" => runs[x].conn # 0
        BY DEF RunPc
      <3> HIDE DEF at
      <3> QED
        BY <3>1, <3>2, StreamLeft
    <2>9. CASE CloseChained(x)
      <3> DEFINE c == subs[runs[x].sub].src
      <3>1. /\ runs[x].sub \in DOMAIN subs /\ c # 0 /\ runs[x].pc = "chain"
        BY <2>1, <2>9 DEF CloseChained, RunInv
      <3>2. c \in DOMAIN subs /\ subs[c].name = "conn"
        BY <2>1, <3>1 DEF SubsInv, SubInv
      <3>3. CloseSub(c, StreamOwner) /\ GoRun(x, "done") /\ UNCHANGED chained
        BY <2>9 DEF CloseChained
      <3> HIDE DEF c
      <3> QED
        BY <3>1, <3>2, <3>3, ConnBack
    <2> QED
      BY <1>2, <2>2, <2>3, <2>4, <2>5, <2>6, <2>7, <2>8, <2>9 DEF RunSteps
  <1>3. ASSUME NEW i \in DOMAIN subs, SourceFails(i)
        PROVE  PoolInv'
    BY <1>3, SourceFailsStep
  <1> QED
    BY <1>1, <1>2, <1>3 DEF SubNext

LEMMA PoolInvSound == PoolInv => SharedStreamSound
  <1> SUFFICES ASSUME PoolInv
               PROVE  SharedStreamSound
    OBVIOUS
  <1>1. /\ SubsInv /\ runs \in [Runs -> SubRun]
        /\ \A x \in Runs : RunInv(x) /\ ToldInv(x)
        /\ \A x \in Runs, i \in DOMAIN subs : RefInv(x, i)
        /\ \A i \in DOMAIN subs : SubInv(i)
    BY DEF PoolInv, UsersInv, SubsInv
  <1>2. SubTypeOK
    <2>1. \A i \in DOMAIN subs : subs[i].chans \subseteq subs[i].refs
      BY <1>1 DEF SubInv
    <2> QED
      BY <1>1, <2>1 DEF SubTypeOK, SubsInv
  <1>3. PoolHoldsLive
    BY <1>1 DEF PoolHoldsLive, SubInv
  <1>4. RefsAreUsers
    BY <1>1 DEF RefsAreUsers, RefInv
  <1>5. FailureIsTold
    BY <1>1 DEF FailureIsTold, ToldInv
  <1>6. ASSUME \A x \in Runs : runs[x].pc \in {"new", "closed", "done"}
        PROVE  /\ pool["stream"] = 0
               /\ \A i \in DOMAIN subs : subs[i].name = "stream" => subs[i].opened = "closed"
    <2>1. ASSUME NEW i \in DOMAIN subs, subs[i].name = "stream"
          PROVE  subs[i].refs = {} /\ subs[i].opened = "closed" /\ pool["stream"] # i
      <3>1. SubInv(i)
        BY <1>1
      <3>2. subs[i].refs \subseteq Runs
        BY <2>1, <3>1 DEF SubInv
      <3>3. \A x \in Runs : x \notin subs[i].refs
        BY <1>1, <1>6, <2>1 DEF RefInv
      <3>4. subs[i].refs = {}
        BY <3>2, <3>3
      <3> QED
        BY <2>1, <3>1, <3>4 DEF SubInv
    <2>2. "stream" \in Names
      BY DEF Names
    <2>3. pool["stream"] # 0 =>
             pool["stream"] \in DOMAIN subs /\ subs[pool["stream"]].name = "stream"
      BY <1>1, <2>2 DEF SubsInv
    <2> QED
      BY <2>1, <2>3
  <1>7. LastOneDestroys
    BY <1>6 DEF LastOneDestroys
  <1> QED
    BY <1>2, <1>3, <1>4, <1>5, <1>7 DEF SharedStreamSound

\* For any number of rules, of topologies and of subtopologies, and in every
\* interleaving of their planning, opening and closing with failures of the
\* source: a subtopology that is not closed is the one of the pool, it refers to
\* its users and to nobody else, tells them when its source fails, and goes with
\* the last of them (subtopo.go:60-210, subtopo_pool.go:30-160).
THEOREM SharedStreamIsSound == SubSpec => []SharedStreamSound
  <1>1. SubSpec => []PoolInv
    BY PoolInit, PoolNext, PTL DEF SubSpec
  <1> QED
    BY <1>1, PoolInvSound, PTL
=============================================================================
