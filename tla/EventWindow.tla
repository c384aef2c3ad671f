----------------------------- MODULE EventWindow -----------------------------
(***************************************************************************)
(* Event time: the watermark operator, which puts the events of several    *)
(* streams in the order of their timestamps (watermark_op.go), and the     *)
(* window behind it (event_window_trigger.go, window_op.go), with the      *)
(* states that both save for a recovery.                                   *)
(*                                                                         *)
(* Time is counted in the unit of the window.  What the window does        *)
(* depends only on the sequence it receives: the watermark operator waits  *)
(* here until the window has taken what it was sent, and a checkpoint,     *)
(* whose barrier follows the same way, saves both at that point.  The      *)
(* source is rewindable: a recovery goes on from its saved offset.         *)
(***************************************************************************)
EXTENDS Integers, Sequences, FiniteSets, SequencesExt

CONSTANTS
    Kinds,       \* the types of window looked at
    Emitters,    \* the streams that are read
    Triggering,  \* those whose events fulfil the trigger condition, if sliding
    Length,      \* of the window; of a session, its maximum duration
    Hop,         \* interval of a hopping window
    Timeout,     \* interval of a session window
    Delay,       \* of the sliding window with a delay
    LateTol,     \* lateTolerance
    MaxTime,     \* bound: timestamps, within one minute (see AlignedEnd)
    MaxRead,   \* bound: events of all the streams
    MaxCrashes   \* bound: crashes

ASSUME WindowAssumption ==
    /\ Kinds \subseteq {"tumbling", "hopping", "sliding", "delayed", "session"}
    /\ Triggering \subseteq Emitters
    /\ {Length, Hop, Timeout, Delay} \subseteq Nat \ {0} /\ Hop <= Length
    /\ {LateTol, MaxTime, MaxRead, MaxCrashes} \subseteq Nat

Never   == -100           \* time.Time{}: long before every event
Forever == MaxTime + 100  \* timex.Maxtime

VARIABLES
    kind,         \* the window's type
    arrived,      \* the events of the source, in the order they are read
    readTo,       \* how many were read: the offset of the source
    cached,       \* events: what the watermark operator holds back, sorted
    streamWM,     \* streamWMs: the latest timestamp of each stream
    lastWM,       \* lastWatermarkTs
    flow,         \* the channel to the window: events and watermarks
    inputs,       \* the events in the window operator
    triggerTS,    \* timestamps that are to trigger a sliding window
    delayTS,      \* ends of the delayed windows
    phase,        \* where the handling of a watermark is
    mark,         \* that watermark
    windowEnd,    \* the end of the next window
    prevEnd,      \* prevWindowEndTs
    nextEnd,      \* nextWindowEndTs
    putState,     \* what both have put in the state of their contexts
    saved,        \* the state in the last checkpoint, with the offset
    crashes,
    \* History, not state of the program:
    late,         \* events that were dropped as late
    onMark,       \* events accepted at the time of the last watermark
    fired         \* the windows sent: their end, their events, readTo then

opVars    == <<cached, streamWM, lastWM>>
winVars   == <<inputs, triggerTS, delayTS, phase, mark, windowEnd, prevEnd, nextEnd>>
eventVars == <<kind, arrived, readTo, opVars, flow, winVars, putState, saved, crashes, late,
               onMark, fired>>

IsSliding == kind \in {"sliding", "delayed"}
Overlaps  == IsSliding \/ kind = "hopping"          \* isOverlapWindow
Span      == IF kind = "delayed" THEN Length + Delay ELSE Length

Time(i) == arrived[i].time
EventItem(i) == [event |-> i, mark |-> Never]
MarkItem(t)  == [event |-> 0, mark |-> t]

EventTypeOK ==
    /\ kind \in Kinds
    /\ arrived \in Seq([stream : Emitters, time : 1..MaxTime]) /\ Len(arrived) <= MaxRead
    /\ readTo \in 0..Len(arrived)
    /\ cached \in Seq(1..readTo) /\ inputs \in Seq(1..readTo)
    /\ phase \in {"idle", "delayed", "firing"}
    /\ (phase = "idle") = (mark = Never)
    /\ lastWM = Never \/ lastWM \in -LateTol..MaxTime
    /\ triggerTS \in Seq(1..MaxTime) /\ (triggerTS # << >> => IsSliding)
    /\ delayTS # << >> => kind = "delayed"
    /\ crashes \in 0..MaxCrashes
    /\ late \subseteq DOMAIN arrived /\ onMark \subseteq DOMAIN arrived

\* What NewWatermarkOp and Exec begin with, without a saved state.
Fresh == [readTo |-> 0, cached |-> << >>, inputs |-> << >>, lastWM |-> Never,
          streamWM |-> [s \in Emitters |-> Never + LateTol]]

EventInit ==
    /\ kind \in Kinds /\ arrived = << >>
    /\ readTo = 0 /\ cached = << >> /\ inputs = << >>
    /\ lastWM = Never /\ streamWM = Fresh.streamWM
    /\ flow = << >> /\ triggerTS = << >> /\ delayTS = << >>
    /\ phase = "idle" /\ mark = Never
    /\ windowEnd = Forever /\ prevEnd = Never /\ nextEnd = Forever
    /\ putState = Fresh /\ saved = Fresh
    /\ crashes = 0 /\ late = {} /\ onMark = {} /\ fired = << >>
-----------------------------------------------------------------------------
(* The watermark operator                                                  *)

\* Behind the events that are not later.
Insert(s, i, t) ==
    InsertAt(s, Cardinality({j \in DOMAIN s : Time(s[j]) <= t}) + 1, i)

\* computeWatermarkTs
WatermarkOf(wms) == (CHOOSE t \in Range(wms) : \A u \in Range(wms) : t <= u) - LateTol

\* The operator has read event i: track, and addAndTrigger unless it is late.
Track(i, e) ==
    LET wms  == IF e.time > streamWM[e.stream]
                THEN [streamWM EXCEPT ![e.stream] = e.time] ELSE streamWM
        all  == Insert(cached, i, e.time)
        wm   == WatermarkOf(wms)
        T(j) == IF j = i THEN e.time ELSE Time(j)
        due  == SelectSeq(all, LAMBDA j : T(j) <= wm)
        rest == SelectSeq(all, LAMBDA j : T(j) > wm) IN
    /\ streamWM' = wms
    /\ \/ /\ e.time < lastWM
          /\ late' = late \cup {i}
          /\ putState' = [putState EXCEPT !.streamWM = wms]
          /\ UNCHANGED <<cached, lastWM, flow>>
       \/ /\ e.time >= lastWM /\ wm <= lastWM
          /\ cached' = all
          /\ putState' = [putState EXCEPT !.streamWM = wms]
          /\ UNCHANGED <<lastWM, flow, late>>
       \/ /\ e.time >= lastWM /\ wm > lastWM
          /\ cached' = rest /\ lastWM' = wm
          /\ flow' = [k \in DOMAIN due |-> EventItem(due[k])] \o <<MarkItem(wm)>>
          /\ putState' = [putState EXCEPT !.streamWM = wms, !.lastWM = wm,
                                    !.cached = IF due = << >> THEN @ ELSE rest]
          /\ UNCHANGED late
    /\ onMark' = IF e.time = lastWM THEN onMark \cup {i} ELSE onMark
    /\ readTo' = i
    /\ UNCHANGED <<kind, winVars, saved, crashes, fired>>

\* The next event is a new one, or is read again after a recovery.
Read ==
    /\ flow = << >> /\ phase = "idle"
    /\ \/ /\ readTo < Len(arrived)
          /\ Track(readTo + 1, arrived[readTo + 1])
          /\ UNCHANGED arrived
       \/ /\ readTo = Len(arrived) /\ readTo < MaxRead
          /\ \E e \in [stream : Emitters, time : 1..MaxTime] :
                /\ arrived' = Append(arrived, e)
                /\ Track(readTo + 1, e)
-----------------------------------------------------------------------------
(* The window                                                              *)

\* getAlignedWindowEndTime, within a minute.
AlignedEnd(t, interval) ==
    IF t > interval THEN interval * (t \div interval + 1) ELSE interval

\* getEarliestEventTs
Earliest(in, from, to) ==
    LET ts == {Time(in[k]) : k \in DOMAIN in} \cap (from + 1)..to IN
    IF ts = {} THEN Forever ELSE CHOOSE t \in ts : \A u \in ts : t <= u

\* getNextSessionWindow: the first gap longer than the timeout, or the second
\* check of the duration, at the times aligned to it; at last the silence
\* since the last event.
SessionEnd(in, wm) ==
    LET tick[k \in 0..Len(in)] ==
            IF k = 0 THEN AlignedEnd(Time(in[1]), Length)
            ELSE IF Time(in[k]) > tick[k - 1] THEN tick[k - 1] + Length ELSE tick[k - 1]
        gap(k)  == k > 1 /\ Time(in[k]) - Time(in[k - 1]) > Timeout
        long(k) == /\ Time(in[k]) > tick[k - 1] /\ tick[k - 1] - Length > Time(in[1])
                   /\ gap(k) => tick[k - 1] < Time(in[k - 1]) + Timeout
        cuts == {k \in DOMAIN in : gap(k) \/ long(k)} IN
    IF in = << >> THEN Forever
    ELSE IF cuts # {} THEN
        LET k == CHOOSE k \in cuts : \A j \in cuts : k <= j IN
        IF long(k) THEN tick[k - 1] ELSE Time(in[k - 1]) + Timeout
    ELSE IF wm - Time(Last(in)) > Timeout THEN Time(Last(in)) + Timeout ELSE Forever

\* getNextWindow and getNextSessionWindow
NextWindow(in, prev, wm) ==
    CASE kind = "session" -> SessionEnd(in, wm)
      [] IsSliding        -> Earliest(in, prev, wm)
      [] OTHER ->
           LET interval == IF kind = "hopping" THEN Hop ELSE Length
               first    == Earliest(in, prev, wm) IN
           IF prev # Never THEN prev + interval
           ELSE IF first = Forever THEN Forever ELSE AlignedEnd(first, interval)

TakeEvent ==
    /\ phase = "idle" /\ flow # << >> /\ Head(flow).event # 0
    /\ LET i == Head(flow).event IN
       /\ inputs' = Append(inputs, i)
       /\ triggerTS' = IF IsSliding /\ arrived[i].stream \in Triggering
                       THEN Append(triggerTS, Time(i)) ELSE triggerTS
    /\ putState' = [putState EXCEPT !.inputs = inputs']
    /\ flow' = Tail(flow)
    /\ UNCHANGED <<kind, arrived, readTo, opVars, delayTS, phase, mark, windowEnd, prevEnd,
                   nextEnd, saved, crashes, late, onMark, fired>>

\* A watermark has come.  The end of the open window is kept; a session's end
\* depends on the inputs, and a sliding window looks at its delayed ends first.
TakeMark ==
    /\ phase = "idle" /\ flow # << >> /\ Head(flow).event = 0
    /\ mark' = Head(flow).mark /\ flow' = Tail(flow)
    /\ phase' = IF IsSliding THEN "delayed" ELSE "firing"
    /\ windowEnd' = IF nextEnd = Forever \/ kind = "session"
                    THEN NextWindow(inputs, prevEnd, Head(flow).mark) ELSE nextEnd
    /\ UNCHANGED <<kind, arrived, readTo, opVars, inputs, triggerTS, delayTS, prevEnd,
                   nextEnd, putState, saved, crashes, late, onMark, fired>>

\* Mutant: the window is open at its beginning.
ExpiredEarly(i, right) == Overlaps /\ Time(i) <= right - Span

\* handleInputs: the events of the window that ends at "right", and the inputs
\* that are kept.  Where windows overlap, what is older than the window goes,
\* and the inputs are kept from the first event of the window on: all of them
\* go when it has none.  Elsewhere what is in the window goes.
Expired(i, right) == Overlaps /\ Time(i) < right - Span
Meets(i, right)   == /\ ~Expired(i, right)
                     /\ Time(i) < right \/ (kind = "sliding" /\ Time(i) = right)

Content(in, right) == {in[k] : k \in {k \in DOMAIN in : Meets(in[k], right)}}

Kept(in, right) ==
    LET from == {k \in DOMAIN in : IF Overlaps THEN Meets(in[k], right)
                                   ELSE ~Meets(in[k], right)} IN
    SelectSeq(in, LAMBDA i : \E j \in from : \E k \in DOMAIN in : in[k] = i /\ j <= k)

\* scan: the window is sent.
Scan(right) ==
    /\ fired' = Append(fired, [end |-> right, events |-> Content(inputs, right),
                               upto |-> readTo])
    /\ inputs' = Kept(inputs, right)

\* The delayed windows whose end the watermark has passed.
FireDelayed ==
    /\ phase = "delayed" /\ delayTS # << >> /\ Head(delayTS) <= mark
    /\ Scan(Head(delayTS))
    /\ delayTS' = Tail(delayTS)
    /\ UNCHANGED <<kind, arrived, readTo, opVars, flow, triggerTS, phase, mark, windowEnd,
                   prevEnd, nextEnd, putState, saved, crashes, late,
                   onMark>>

DelayedDone ==
    /\ phase = "delayed"
    /\ delayTS # << >> => Head(delayTS) > mark
    /\ phase' = "firing"
    /\ windowEnd' = NextWindow(inputs, prevEnd, mark)
    /\ UNCHANGED <<kind, arrived, readTo, opVars, flow, inputs, triggerTS, delayTS, mark,
                   prevEnd, nextEnd, putState, saved, crashes, late, onMark, fired>>

Due == phase = "firing" /\ windowEnd <= mark

\* One round of the loop for a window that is not sliding.
Fire ==
    /\ Due /\ ~IsSliding
    /\ Scan(windowEnd)
    /\ prevEnd' = windowEnd
    /\ windowEnd' = NextWindow(inputs', windowEnd, mark)
    /\ UNCHANGED <<kind, arrived, readTo, opVars, flow, triggerTS, delayTS, phase, mark,
                   nextEnd, putState, saved, crashes, late,
                   onMark>>

\* One trigger of a sliding window, or its delay begins.
Trigger ==
    /\ Due /\ triggerTS # << >> /\ Head(triggerTS) <= mark
    /\ IF kind = "delayed"
       THEN /\ delayTS' = Append(delayTS, Head(triggerTS) + Delay)
            /\ UNCHANGED <<inputs, fired>>
       ELSE Scan(Head(triggerTS)) /\ UNCHANGED delayTS
    /\ triggerTS' = Tail(triggerTS)
    /\ UNCHANGED <<kind, arrived, readTo, opVars, flow, phase, mark, windowEnd, prevEnd,
                   nextEnd, putState, saved, crashes, late,
                   onMark>>

\* The round ends when no trigger is left.
NextRound ==
    /\ Due /\ IsSliding
    /\ triggerTS # << >> => Head(triggerTS) > mark
    /\ prevEnd' = windowEnd
    /\ windowEnd' = NextWindow(inputs, windowEnd, mark)
    /\ UNCHANGED <<kind, arrived, readTo, opVars, flow, inputs, triggerTS, delayTS, phase,
                   mark, nextEnd, putState, saved, crashes, late, onMark, fired>>

MarkDone ==
    /\ phase = "firing" /\ ~Due
    /\ nextEnd' = windowEnd
    /\ phase' = "idle" /\ mark' = Never
    /\ UNCHANGED <<kind, arrived, readTo, opVars, flow, inputs, triggerTS, delayTS, windowEnd,
                   prevEnd, putState, saved, crashes, late, onMark, fired>>
-----------------------------------------------------------------------------
(* Checkpoint and recovery                                                 *)

\* The barrier has come through both: the states are saved with the offset.
Save ==
    /\ flow = << >> /\ phase = "idle" /\ crashes < MaxCrashes
    /\ saved' = [putState EXCEPT !.readTo = readTo]
    /\ UNCHANGED <<kind, arrived, readTo, opVars, flow, winVars, putState, crashes, late, onMark, fired>>

\* A crash, and the recovery: what is not in the saved state begins anew.
Crash ==
    /\ crashes < MaxCrashes
    /\ crashes' = crashes + 1
    /\ readTo' = saved.readTo /\ cached' = saved.cached /\ inputs' = saved.inputs
    /\ lastWM' = saved.lastWM /\ streamWM' = saved.streamWM
    /\ flow' = << >> /\ triggerTS' = << >> /\ delayTS' = << >>
    /\ phase' = "idle" /\ mark' = Never
    /\ windowEnd' = Forever /\ prevEnd' = Never /\ nextEnd' = Forever
    /\ putState' = saved
    /\ UNCHANGED <<kind, arrived, saved, late, onMark, fired>>

EventNext ==
    \/ Read \/ TakeEvent \/ TakeMark \/ FireDelayed \/ DelayedDone \/ Fire \/ Trigger
    \/ NextRound \/ MarkDone \/ Save \/ Crash

EventSpec == EventInit /\ [][EventNext]_eventVars
-----------------------------------------------------------------------------
(* Properties                                                              *)

\* The window receives the events in the order of their timestamps, of all the
\* streams together, and also across a recovery (watermark_op.go:33 "sends out
\* the data in time order"; window_op.go:641 "Assume the inputs are sorted").
InputsSorted ==
    \A j, k \in DOMAIN inputs : j < k => Time(inputs[j]) <= Time(inputs[k])

\* The events that were accepted when a window was sent, with a time in it.
Within(w) ==
    {i \in 1..w.upto \ late :
        /\ Time(i) >= w.end - Span
        /\ Time(i) < w.end \/ (kind = "sliding" /\ Time(i) = w.end)}

\* A tumbling or sliding window that is sent has all the accepted events of its
\* time and no other, whatever the order in which the streams deliver them; a
\* hopping window misses one only when a window that ended before it found no
\* events at all (window_op.go:626-676).
WindowsExact ==
    (crashes = 0 /\ kind # "session") =>
        \A n \in DOMAIN fired :
            LET w == fired[n] IN
            /\ w.events \subseteq Within(w)
            /\ \/ w.events = Within(w)
               \/ /\ kind = "hopping"
                  /\ \A i \in Within(w) \ w.events :
                        \E m \in 1..n - 1 : fired[m].events = {} /\ fired[m].end <= Time(i)

\* No event that is accepted is too late for its tumbling window: when all is
\* handled, every window up to the watermark has been sent with all of its
\* events, and an event is in exactly one (event_window_trigger.go:137-180).
EachInItsWindow ==
    (crashes = 0 /\ kind = "tumbling" /\ flow = << >> /\ phase = "idle") =>
        \A i \in 1..readTo \ late :
            LET its == {n \in DOMAIN fired : i \in fired[n].events}
                end == Length * (Time(i) \div Length + 1) IN
            IF end <= lastWM THEN \E n \in its : its = {n} /\ fired[n].end = end
            ELSE its = {}

\* The events of a session follow each other within the timeout, the next event
\* is further off or the session was cut at an aligned time, and no accepted
\* event is in two sessions or forgotten (event_window_trigger.go:77-110).
SessionsWhole ==
    (crashes = 0 /\ kind = "session") =>
        /\ \A n \in DOMAIN fired :
             LET ev   == fired[n].events
                 last == CHOOSE t \in {Time(i) : i \in ev} : \A i \in ev : Time(i) <= t IN
             /\ ev # {}
             /\ \A i \in ev : Time(i) = last \/
                  \E j \in ev : Time(j) > Time(i) /\ Time(j) - Time(i) <= Timeout
             /\ \A m \in n + 1 .. Len(fired) : \A j \in fired[m].events :
                  /\ j \notin ev
                  /\ Time(j) - last > Timeout \/ fired[n].end % Length = 0
        /\ \A i \in 1..readTo \ late :
             \/ \E n \in DOMAIN fired : i \in fired[n].events
             \/ i \in Range(inputs) \cup Range(cached) \cup {f.event : f \in Range(flow)}

\* Every event that triggers gets its sliding window when the watermark has
\* reached it, and only once; a delayed one still has its end.  An event that is
\* accepted at the time of the last watermark may wait longer, as the round of
\* its time is over (event_window_trigger.go:129-135, 147-166).
EachTriggers ==
    (crashes = 0 /\ IsSliding /\ flow = << >> /\ phase = "idle") =>
        \A t \in 1..lastWM :
            LET wanted == {i \in 1..readTo \ (late \cup Range(cached)) :
                             Time(i) = t /\ arrived[i].stream \in Triggering}
                end    == IF kind = "delayed" THEN t + Delay ELSE t
                have    == Cardinality({n \in DOMAIN fired : fired[n].end = end})
                          + Cardinality({k \in DOMAIN delayTS : delayTS[k] = end}) IN
            /\ have <= Cardinality(wanted)
            /\ have >= Cardinality(wanted \ onMark)

\* At least once (state_and_fault_tolerance.md:27 "Nothing is lost, but you may
\* experience duplicated results"): an event that was read and not late is in a
\* window that was sent, or still held.  The code violates it: the events that
\* the watermark operator holds back are put in the state only when others are
\* sent (watermark_op.go:223).
NothingLostOnRecovery ==
    kind = "tumbling" => \A i \in 1..readTo \ late :
        \/ \E n \in DOMAIN fired : i \in fired[n].events
        \/ i \in Range(inputs) \cup Range(cached) \cup {f.event : f \in Range(flow)}

\* The windows of event time have what belongs to them, and an event that is not too late
\* comes in each of its windows, in whatever order the streams deliver
\* (watermark_op.go:33-240, event_window_trigger.go:77-180, window_op.go:600-683).
EventWindowSound ==
    /\ EventTypeOK
    /\ InputsSorted /\ EachInItsWindow
    /\ WindowsExact /\ SessionsWhole /\ EachTriggers
=============================================================================
