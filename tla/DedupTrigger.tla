---------------------------- MODULE DedupTrigger ----------------------------
(***************************************************************************)
(* The node that triggers each stretch of time once: DedupTriggerNode of   *)
(* node/dedup_trigger_op.go.  A row asks for the time from start to end,   *)
(* which may lie in the future, and says what time it is now.  It waits in *)
(* a queue until its end has come, by the time of a later row or by a      *)
(* timer; then the node sends it on with the slots of that time that were  *)
(* not sent before, of which it keeps a histogram.                         *)
(***************************************************************************)
EXTENDS Integers, Sequences, FiniteSets

CONSTANTS
    Expire,       \* how far back from its own now a row may reach
    Nows,         \* the times at which rows arrive
    Spans,        \* the stretches <<start, end>> that rows ask for
    MaxRows       \* bound: rows received

ASSUME DedupAssumption ==
    /\ Expire \in Nat /\ MaxRows \in Nat
    /\ Nows \subseteq Nat \ {0}
    \* rowToReq refuses a row that does not begin before it ends.
    /\ Spans \subseteq Nat \X Nat /\ \A s \in Spans : s[1] < s[2]

VARIABLES
    requests,   \* the priority queue
    now,        \* the time by which trigger pops, 0 when the node waits
    histogram,  \* the slots that have been taken: the state of the node
    armed,      \* the timer is running
    fired,      \* the channel of the timer holds a tick
    triggered   \* history: the requests popped, each with the slots it was sent with

dedupVars == <<requests, now, histogram, armed, fired, triggered>>

\* rowToReq: what a row asks for.
Requests == {[start |-> s[1], end |-> s[2], now |-> n] : s \in Spans, n \in Nows}

SlotSeqs == Seq(Nat \X Nat)

DedupTypeOK ==
    /\ requests \in Seq(Requests)
    \* The first to end is the first in the queue.
    /\ \A i \in 1..(Len(requests) - 1) : requests[i].end <= requests[i + 1].end
    /\ now \in Nat
    /\ histogram \in SlotSeqs
    /\ armed \in BOOLEAN /\ fired \in BOOLEAN
    /\ triggered \in Seq([req : Requests, slots : SlotSeqs])

DedupInit ==
    /\ requests = << >> /\ now = 0 /\ histogram = << >> /\ triggered = << >>
    /\ armed = FALSE /\ fired = FALSE
-----------------------------------------------------------------------------
(* The slots of a request                                                  *)

\* The first slot for which the condition holds, or the one past the last.
FirstSlot(hg, Cond(_)) ==
    CHOOSE i \in 1..(Len(hg) + 1) :
        /\ i <= Len(hg) => Cond(hg[i])
        /\ \A j \in 1..(i - 1) : ~Cond(hg[j])

\* The gaps between the slots first, ..., last of hg.
Gaps(hg, first, last) ==
    [i \in 1..(last - first) |-> <<hg[first + i - 1][2], hg[first + i][1]>>]

Leftmost(r) == r.now - Expire

LaterOf(a, b) == IF a > b THEN a ELSE b

\* What a request meets in the histogram hg: the slots left..taken of kept, what
\* has not expired.  It begins, or ends, inside the first, or the last, of them.
Touched(r, hg) ==
    LET start == LaterOf(r.start, Leftmost(r))
        kept  == SubSeq(hg, FirstSlot(hg, LAMBDA s : s[2] >= Leftmost(r)), Len(hg))
        left  == FirstSlot(kept, LAMBDA s : start < s[2])
        ahead == SubSeq(kept, left, Len(kept))
        right == left - 1 + FirstSlot(ahead, LAMBDA s : r.end <= s[2])
        inLeft  == left <= Len(kept) /\ start >= kept[left][1]
        inRight == right <= Len(kept) /\ r.end > kept[right][1]
    IN [start |-> start, kept |-> kept, left |-> left, inLeft |-> inLeft, inRight |-> inRight,
        taken |-> IF inRight THEN right ELSE right - 1]

\* doTrigger's answer for a request that ends at end and touches t: what of it
\* is in no slot yet.
FreeSlots(t, end) ==
    IF t.taken < t.left THEN <<<<t.start, end>>>>
    ELSE (IF t.inLeft THEN << >> ELSE <<<<t.start, t.kept[t.left][1]>>>>)
         \o Gaps(t.kept, t.left, t.taken)
         \o (IF t.inRight THEN << >> ELSE <<<<t.kept[t.taken][2], end>>>>)

\* Mutant: the new slot ends where the request does, inside an old one.
MergedShort(t, end) ==
    SubSeq(t.kept, 1, t.left - 1)
    \o <<<<IF t.inLeft THEN t.kept[t.left][1] ELSE t.start, end>>>>
    \o SubSeq(t.kept, t.taken + 1, Len(t.kept))

\* doTrigger's histogram: the slots that are touched become one with the request.
Merged(t, end) ==
    SubSeq(t.kept, 1, t.left - 1)
    \o <<<<IF t.inLeft THEN t.kept[t.left][1] ELSE t.start,
           IF t.inRight THEN t.kept[t.taken][2] ELSE end>>>>
    \o SubSeq(t.kept, t.taken + 1, Len(t.kept))
-----------------------------------------------------------------------------
(* The node                                                                *)

\* PriorityQueue.Push: behind every request that ends no later.
Push(queue, r) ==
    LET at == FirstSlot(queue, LAMBDA x : x.end > r.end) IN
    SubSeq(queue, 1, at - 1) \o <<r>> \o SubSeq(queue, at, Len(queue))

\* The loop of trigger: what ended by now is popped, one at a time, with the
\* answer of doTrigger.
PopDue ==
    LET r == requests[1] IN
    /\ now > 0 /\ requests # << >> /\ r.end <= now
    /\ requests' = Tail(requests)
    /\ IF r.end < Leftmost(r)
       THEN /\ triggered' = Append(triggered, [req |-> r, slots |-> << >>])
            /\ UNCHANGED histogram
       ELSE \E t \in {Touched(r, histogram)} :
            /\ histogram' = Merged(t, r.end)
            /\ triggered' = Append(triggered, [req |-> r, slots |-> FreeSlots(t, r.end)])
    /\ UNCHANGED <<now, armed, fired>>

\* Its end: the timer is set, or set again, for the first that has not ended.
EndTrigger ==
    /\ now > 0 /\ (requests # << >> => requests[1].end > now)
    /\ now' = 0
    /\ armed' = (armed \/ requests # << >>)
    /\ UNCHANGED <<requests, histogram, fired, triggered>>

\* A row arrives.  What reached the channel of the timer stays there.
ReceiveRow(r) ==
    /\ now = 0
    /\ Len(requests) + Len(triggered) < MaxRows
    /\ requests' = Push(requests, r)
    /\ now' = r.now
    /\ UNCHANGED <<histogram, armed, fired, triggered>>

\* The timer runs out at the end of the request it was set for.
TimerRuns ==
    /\ armed
    /\ armed' = FALSE /\ fired' = TRUE
    /\ UNCHANGED <<requests, now, histogram, triggered>>

\* The node takes the tick: trigger, at the end of the first request.
OnTimeout ==
    /\ now = 0 /\ fired
    /\ fired' = FALSE
    /\ now' = IF requests = << >> THEN 0 ELSE requests[1].end
    /\ UNCHANGED <<requests, histogram, armed, triggered>>

DedupNext ==
    \/ \E r \in Requests : ReceiveRow(r)
    \/ PopDue \/ EndTrigger \/ TimerRuns \/ OnTimeout

DedupFairness ==
    /\ WF_dedupVars(PopDue) /\ WF_dedupVars(EndTrigger)
    /\ WF_dedupVars(TimerRuns) /\ WF_dedupVars(OnTimeout)

DedupSpec == DedupInit /\ [][DedupNext]_dedupVars /\ DedupFairness
-----------------------------------------------------------------------------
(* Properties                                                              *)

\* The moments of a slot, one for each unit of time that begins in it.
Moments(slot) == slot[1]..(slot[2] - 1)
AllMoments(slots) == UNION {Moments(slots[i]) : i \in DOMAIN slots}

\* The histogram is a sequence of slots in order of time that do not overlap
\* (dedup_trigger_op.go:236-282 keeps it so over all cases of an overlap).
HistogramInOrder ==
    /\ \A i \in DOMAIN histogram : histogram[i][1] <= histogram[i][2]
    /\ \A i \in 1..(Len(histogram) - 1) : histogram[i][2] <= histogram[i + 1][1]

\* The requests are triggered in an order in which what a later one may reach
\* back to was not forgotten for an earlier one.
InOrderOfNow ==
    \A i, j \in DOMAIN triggered : i < j => triggered[i].req.now <= triggered[j].req.now

\* No moment is sent twice, by one request or by two (dedup_trigger_op.go:213-231),
\* as long as no request is triggered after one that knew a later time.
SlotsOnce ==
    InOrderOfNow =>
        \A i, j \in DOMAIN triggered :
            LET s == triggered[i].slots   t == triggered[j].slots IN
            \A k \in DOMAIN s, l \in DOMAIN t :
                (i # j \/ k # l) => Moments(s[k]) \cap Moments(t[l]) = {}

\* A request is sent with every moment of its own that was not sent before, and
\* no other (dedup_trigger_op.go:239-281): the slots are what is left of it.
SlotsAreTheRest ==
    InOrderOfNow =>
        \A i \in DOMAIN triggered :
            LET r      == triggered[i].req
                before == UNION {AllMoments(triggered[j].slots) : j \in 1..(i - 1)} IN
            AllMoments(triggered[i].slots) =
                (LaterOf(r.start, Leftmost(r))..(r.end - 1)) \ before

\* While a request waits, a timer runs or has run out for it (the Reset at
\* dedup_trigger_op.go:120), so that no request depends on a further row.
WaitingIsTimed == now = 0 /\ requests # << >> => armed \/ fired

\* Every request is triggered in the end (dedup_trigger_op.go:104-140).
AllTriggered == <>[](requests = << >>)

\* No slot is empty: two slots that meet leave no gap worth sending.
\* (The code does not satisfy this: README, section 8.)
NoEmptySlot ==
    \A i \in DOMAIN triggered : \A k \in DOMAIN triggered[i].slots :
        triggered[i].slots[k][1] < triggered[i].slots[k][2]

\* No moment is sent twice, whatever the order of the rows.
\* (The code does not satisfy this: README, section 8.)
SlotsOnceAlways ==
    \A i, j \in DOMAIN triggered : i # j =>
        AllMoments(triggered[i].slots) \cap AllMoments(triggered[j].slots) = {}

\* Each moment that requests ask for is sent once, with the first request that may send
\* it, however they overlap, and none waits without a timer (dedup_trigger_op.go:90-282).
DedupSound ==
    /\ DedupTypeOK
    /\ HistogramInOrder /\ SlotsOnce /\ SlotsAreTheRest
    /\ WaitingIsTimed
=============================================================================
