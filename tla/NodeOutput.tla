----------------------------- MODULE NodeOutput -----------------------------
(***************************************************************************)
(* How a node sends to the nodes behind it: defaultNode.Broadcast,         *)
(* AddOutput and RemoveOutput of node.go.                                  *)
(*                                                                         *)
(* A broadcast holds the read lock of the outputs until every one of them  *)
(* has the message.  A full channel is waited for (disableBufferFull-      *)
(* Discard), or its oldest message is taken out first; between the failed  *)
(* send and the taking, the receiver goes on.  Outputs come and go while   *)
(* the node runs only for a shared stream, which never waits.              *)
(***************************************************************************)
EXTENDS Naturals, Sequences, FiniteSets

CONSTANTS
    Outputs,     \* the nodes that may be behind it
    NoOutput,    \* no value
    OutLength,   \* capacity of a channel: bufferLength
    MaxSent      \* bound: messages

ASSUME OutputAssumption ==
    NoOutput \notin Outputs /\ OutLength \in Nat \ {0} /\ MaxSent \in Nat

VARIABLES
    blocking,    \* disableBufferFullDiscard
    outputs,     \* the outputs that are attached
    chan,        \* their channels
    reads,       \* the outputs whose node still runs
    todo,        \* the outputs the broadcast has still to serve
    at,          \* the one it serves, NoOutput between two broadcasts
    full,        \* it found the channel full, and takes the oldest
    sent,        \* messages broadcast so far: message n is the n-th
    done,        \* the context of the node is done
    \* History, not state of the program:
    got,         \* what each output has received
    dropped,     \* what was taken out of its channel
    since        \* sent, when it was attached

outVars == <<blocking, outputs, chan, reads, todo, at, full, sent, done, got, dropped,
             since>>

OutTypeOK ==
    /\ blocking \in BOOLEAN /\ done \in BOOLEAN /\ full \in BOOLEAN
    /\ outputs \subseteq Outputs /\ reads \subseteq Outputs
    /\ todo \subseteq Outputs
    /\ at \in Outputs \cup {NoOutput} /\ at \notin todo
    /\ full => at # NoOutput
    /\ sent \in 0..MaxSent
    /\ \A o \in Outputs :
         /\ chan[o] \in Seq(1..sent) /\ Len(chan[o]) <= OutLength
         /\ got[o] \in Seq(1..sent)
         /\ dropped[o] \subseteq 1..sent
         /\ since[o] \in 0..sent

OutInit ==
    /\ blocking \in BOOLEAN
    /\ outputs \in (SUBSET Outputs) \ {{}} /\ reads = outputs
    /\ chan = [o \in Outputs |-> << >>]
    /\ todo = {} /\ at = NoOutput /\ full = FALSE
    /\ sent = 0 /\ done = FALSE
    /\ got = [o \in Outputs |-> << >>]
    /\ dropped = [o \in Outputs |-> {}]
    /\ since = [o \in Outputs |-> 0]

Broadcasting == at # NoOutput \/ todo # {}
-----------------------------------------------------------------------------
(* The broadcast                                                           *)

\* doBroadcast takes the outputs there are.
Broadcast ==
    /\ ~Broadcasting /\ ~done /\ sent < MaxSent
    /\ sent' = sent + 1
    /\ todo' = outputs
    /\ UNCHANGED <<blocking, outputs, chan, reads, at, full, done, got, dropped, since>>

NextOutput(o) ==
    /\ at = NoOutput /\ o \in todo
    /\ at' = o /\ todo' = todo \ {o}
    /\ UNCHANGED <<blocking, outputs, chan, reads, full, sent, done, got, dropped, since>>

Send ==
    /\ at # NoOutput /\ ~full /\ Len(chan[at]) < OutLength
    /\ chan' = [chan EXCEPT ![at] = Append(@, sent)]
    /\ at' = NoOutput
    /\ UNCHANGED <<blocking, outputs, reads, todo, full, sent, done, got, dropped, since>>

\* Mutant: the new message is dropped instead of the oldest.
FindFullDropsNew ==
    /\ at # NoOutput /\ ~full /\ ~blocking /\ ~done /\ Len(chan[at]) = OutLength
    /\ at' = NoOutput
    /\ UNCHANGED <<blocking, outputs, chan, reads, todo, full, sent, done, got, dropped,
                   since>>

\* The default of the select: neither there is room nor the context is done.
FindFull ==
    /\ at # NoOutput /\ ~full /\ ~blocking /\ ~done /\ Len(chan[at]) = OutLength
    /\ full' = TRUE
    /\ UNCHANGED <<blocking, outputs, chan, reads, todo, at, sent, done, got, dropped,
                   since>>

\* A plain receive, without the context: it waits when the receiver was faster.
TakeOldest ==
    /\ full /\ chan[at] # << >>
    /\ dropped' = [dropped EXCEPT ![at] = @ \cup {Head(chan[at])}]
    /\ chan' = [chan EXCEPT ![at] = Tail(@)]
    /\ full' = FALSE
    /\ UNCHANGED <<blocking, outputs, reads, todo, at, sent, done, got, since>>

\* A send that is told that the context is done ends the whole broadcast.
SendCancelled ==
    /\ at # NoOutput /\ ~full /\ done
    /\ at' = NoOutput /\ todo' = {}
    /\ UNCHANGED <<blocking, outputs, chan, reads, full, sent, done, got, dropped, since>>
-----------------------------------------------------------------------------
(* The nodes behind it                                                     *)

Receive(o) ==
    /\ o \in reads /\ chan[o] # << >>
    /\ got' = [got EXCEPT ![o] = Append(@, Head(chan[o]))]
    /\ chan' = [chan EXCEPT ![o] = Tail(@)]
    /\ UNCHANGED <<blocking, outputs, reads, todo, at, full, sent, done, dropped, since>>

\* A rule joins the shared stream, with new channels.
AddOutput(o) ==
    /\ ~blocking /\ ~Broadcasting /\ o \notin outputs \cup reads
    /\ outputs' = outputs \cup {o} /\ reads' = reads \cup {o}
    /\ chan' = [chan EXCEPT ![o] = << >>]
    /\ got' = [got EXCEPT ![o] = << >>]
    /\ dropped' = [dropped EXCEPT ![o] = {}]
    /\ since' = [since EXCEPT ![o] = sent]
    /\ UNCHANGED <<blocking, todo, at, full, sent, done>>

\* A rule of the shared stream stops: its nodes end before its output goes.
StopReading(o) ==
    /\ ~blocking /\ o \in reads
    /\ reads' = reads \ {o}
    /\ UNCHANGED <<blocking, outputs, chan, todo, at, full, sent, done, got, dropped, since>>

RemoveOutput(o) ==
    /\ ~blocking /\ ~Broadcasting /\ o \in outputs \ reads
    /\ outputs' = outputs \ {o}
    /\ UNCHANGED <<blocking, chan, reads, todo, at, full, sent, done, got, dropped, since>>

\* The rule of the node stops, or the last rule of the shared stream.
Cancel ==
    /\ ~done
    /\ done' = TRUE
    /\ reads' = IF blocking THEN {} ELSE reads
    /\ UNCHANGED <<blocking, outputs, chan, todo, at, full, sent, got, dropped, since>>

SendSteps == Send \/ FindFull \/ TakeOldest \/ SendCancelled \/ \E o \in Outputs : NextOutput(o)

OutNext ==
    \/ Broadcast \/ SendSteps \/ Cancel
    \/ \E o \in Outputs : Receive(o) \/ AddOutput(o) \/ StopReading(o) \/ RemoveOutput(o)

\* The goroutines of the nodes run, and a rule that stops removes its outputs.
OutFairness ==
    /\ WF_outVars(SendSteps)
    /\ \A o \in Outputs : WF_outVars(Receive(o)) /\ WF_outVars(RemoveOutput(o))

OutSpec == OutInit /\ [][OutNext]_outVars /\ OutFairness
-----------------------------------------------------------------------------
(* Properties                                                              *)

Elems(s) == {s[i] : i \in DOMAIN s}

\* What an output receives comes in the order it was sent, and nothing twice,
\* whatever the sender takes out of the channel in between (node.go:213-224).
ReceivedInOrder ==
    \A o \in Outputs :
        LET all == got[o] \o chan[o] IN
        \A i, j \in DOMAIN all : i < j => all[i] < all[j]

\* A message that an output misses was the oldest of a full channel and was
\* taken out for a newer one: every other message since the output was attached
\* has come, or is in its channel, or is being sent (node.go:157-228).
MissedOnlyOldest ==
    \A o \in outputs :
        ~done => (since[o] + 1)..sent =
                   Elems(got[o]) \cup Elems(chan[o]) \cup dropped[o]
                   \cup (IF o \in todo \cup {at} THEN {sent} ELSE {})

\* Nothing is sent to an output that was removed (node.go:82-103).
RemovedGetsNothing ==
    [][\A o \in Outputs \ outputs : o \notin outputs' => Len(chan'[o]) <= Len(chan[o])]_outVars

\* A node that waits for room comes back: the receiver makes room, or the rule
\* ends (node.go:204-211).
BlockedSendEnds == (blocking /\ Broadcasting) ~> ~Broadcasting

\* Also a node that drops the oldest comes back (node.go:212: "Try to send the
\* latest one. If full, read the oldest one and retry").  The oldest is received
\* without looking again, and the receiver may have emptied the channel.  (The
\* code does not satisfy this: README, section 8.)
DroppingSendEnds == (~blocking /\ Broadcasting) ~> ~Broadcasting

\* An output receives what is sent in its order and once, misses only what was the oldest
\* of a full channel, and nothing comes after its removal, whichever outputs come and go
\* during a broadcast (node.go:82-103, 157-228).
OutputSound ==
    /\ [](OutTypeOK /\ ReceivedInOrder /\ MissedOnlyOldest)
    /\ RemovedGetsNothing
=============================================================================
