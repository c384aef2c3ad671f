----------------------------- MODULE ClockWindow -----------------------------
(***************************************************************************)
(* Windows in processing time and by count: execProcessingWindow, tick and *)
(* scan of node/window_op.go.                                              *)
(*                                                                         *)
(* A row is stamped when its source reads it and reaches the node later;   *)
(* the streams of a join arrive mixed.  The ends of tumbling, hopping and  *)
(* session windows are those of natural time: a first timer fires at the   *)
(* next of them, and a ticker after it.  A tick waits in its channel, and  *)
(* another that comes meanwhile is dropped.  The node saves its state for  *)
(* a recovery, from which the sources send again what came later.  The     *)
(* unit of time is longer than the 50 ms that a tick may be late.          *)
(***************************************************************************)
EXTENDS Integers, Sequences, FiniteSets
LOCAL INSTANCE SequencesExt
LOCAL INSTANCE Functions

CONSTANTS
    RowStreams,      \* the streams of the query
    WinKinds,        \* the types of window looked at
    WinLength,       \* Length
    HopInterval,     \* Interval of a hopping window
    SessionGap,      \* Interval of a session window
    WinDelay,        \* Delay of the sliding windows that have one
    CountLength, CountInterval,
    MaxWinTime,      \* bound: the time
    MaxRowsRead,     \* bound: rows of all streams, fewer when there are recoveries
    MaxRecoveries    \* bound: recoveries

Never == 0

ASSUME WinAssumption ==
    /\ WinKinds \subseteq {"tumbling", "hopping", "sliding", "session", "count"}
    /\ CountInterval <= CountLength
    /\ {WinLength, HopInterval, SessionGap, CountLength, CountInterval} \subseteq Nat \ {0}
    /\ {WinDelay, MaxWinTime, MaxRowsRead, MaxRecoveries} \subseteq Nat

VARIABLES
    winKind,
    winDelay,      \* Delay: WinDelay, or 0
    sendTwice,     \* enableSlidingWindowSendTwice
    winTime,
    rowsRead,      \* stream -> its rows so far, [from, at, hit]
    winInputs, triggerTime, msgCount,
    firstTimer,    \* when it fires, or Never
    tickerStart,   \* when the ticker was started, or Never
    winTick,       \* the tick in its channel, or Never
    nextTime,
    timeoutAt,     \* when the timeout of a session fires, or Never
    timeoutSet,    \* timeoutTicker is not nil
    delayed,       \* the goroutines that wait for delayCh: [end, due]
    put,           \* what was put into the state: [inputs, trigger, count]
    checkpointed,  \* the state that was saved, the number of rows before it, and the
                   \* recoveries before it, plus one
    recoveries,
    arrived,       \* history: the rows the node has taken, in their order
    winSent,       \* history: the windows: [end, rows, after], behind which rows
    winDropped,    \* history: rows dropped because none before them was in a window
    overrun        \* history: rows were cleared for a later time while a window waited

winConfig == <<winKind, winDelay, sendTwice>>
winTimers == <<firstTimer, tickerStart, winTick, nextTime, timeoutAt, timeoutSet>>
winHistory == <<arrived, winSent, winDropped, overrun>>
winVars == <<winConfig, winTime, rowsRead, winInputs, triggerTime, msgCount, winTimers,
             delayed, put, checkpointed, recoveries, winHistory>>

WinTimes == 0..MaxWinTime + WinLength + WinDelay
WinRows  == [from : RowStreams, at : 1..MaxWinTime, nr : 1..MaxRowsRead, hit : BOOLEAN]
States   == [inputs : Seq(WinRows), trigger : WinTimes, count : Nat]

WinTypeOK ==
    /\ winKind \in WinKinds /\ winDelay \in {0, WinDelay} /\ sendTwice \in BOOLEAN
    /\ winTime \in 1..MaxWinTime
    /\ \A s \in RowStreams : rowsRead[s] \in Seq(WinRows)
    /\ winInputs \in Seq(WinRows) /\ triggerTime \in WinTimes
    /\ msgCount \in 0..CountInterval - 1
    /\ firstTimer \in WinTimes /\ tickerStart \in WinTimes /\ winTick \in WinTimes
    /\ nextTime \in WinTimes /\ timeoutAt \in 0..MaxWinTime + SessionGap
    /\ timeoutSet \in BOOLEAN
    /\ delayed \in Seq([end : WinTimes, due : WinTimes])
    /\ put \in States
    /\ checkpointed \in [state : States, rows : Nat, nr : 0..MaxRecoveries]
    /\ recoveries \in 0..MaxRecoveries
    /\ arrived \in Seq(WinRows)
    /\ winSent \in Seq([end : WinTimes, rows : Seq(WinRows), after : Nat])
    /\ winDropped \in SUBSET WinRows
    /\ overrun \in BOOLEAN
-----------------------------------------------------------------------------
(* Time                                                                    *)

\* o.duration: what is between two ticks.
Duration == IF winKind = "hopping" THEN HopInterval ELSE WinLength

\* Windows that end by themselves.
HasTicker == winKind \in {"tumbling", "hopping", "session"}

\* Mutant: a window that begins now.
AlignedEndFromNow(t) == t + Duration

\* getAlignedWindowEndTime, counted from the beginning of the larger unit.
AlignedEnd(t) == IF t > Duration THEN Duration * ((t \div Duration) + 1) ELSE Duration

\* isTimeRelatedWindow: a row stamped at the end of such a window is behind it.
TimeRelated == HasTicker \/ (winKind = "sliding" /\ winDelay > 0)
-----------------------------------------------------------------------------
(* What a window takes                                                     *)

From(rs, i) == SubSeq(rs, i, Len(rs))

\* rs from the first row on that holds by P.
FromFirst(rs, P(_)) ==
    LET found == {i \in DOMAIN rs : P(rs[i])} IN
    IF found = {} THEN << >> ELSE From(rs, CHOOSE i \in found : \A j \in found : i <= j)

\* handleInputs: the rows that are kept, the rows of the window, and those that a
\* window which overlaps others drops when it has none.  last is the former end.
HandleInputs(rs, end, last) ==
    LET InTime(r) == IF TimeRelated THEN r.at < end ELSE r.at <= end
        overlaps  == winKind \in {"hopping", "sliding"}
        delta     == IF winKind = "hopping" THEN end - last - HopInterval ELSE 0
        left      == end - (WinLength + winDelay) - delta
        Alive(r)  == ~overlaps \/ r.at >= left
        Begins(r) == IF overlaps THEN InTime(r) ELSE ~InTime(r)
        alive     == FromFirst(rs, Alive)
        kept      == FromFirst(alive, Begins)
    IN  [kept    |-> kept,
         rows    |-> SelectSeq(alive, InTime),
         dropped |-> IF overlaps /\ kept = << >> THEN ToSet(alive) ELSE {}]

\* handleInputsForSlidingWindow: what is sent of the rows behind start, and what is
\* kept, which is what has expired if there is some and not all of it has.
HandlePart(rs, start, end) ==
    LET left    == end - (WinLength + winDelay)
        expired == {i \in DOMAIN rs : rs[i].at < left}
        last    == CHOOSE i \in expired : \A j \in expired : j <= i
        IsIn(r) == r.at >= left /\ start < r.at /\ r.at <= end
    IN  [kept    |-> IF expired = {} THEN rs
                     ELSE IF last = Len(rs) THEN << >> ELSE SubSeq(rs, 1, last),
         rows    |-> SelectSeq(rs, IsIn),
         dropped |-> IF expired = {} THEN {} ELSE ToSet(From(rs, last + 1))]

\* gcInputs, of the rows in front that no window from end on takes.
Collected(rs, end) ==
    LET IsIn(r) == r.at + WinLength + winDelay >= end IN FromFirst(rs, IsIn)

Window(end, rs) == [end |-> end, rows |-> rs, after |-> Len(arrived')]

\* scan, of the rows rs for the window that ends at end.
Scan(rs, end) ==
    LET w == HandleInputs(rs, end, triggerTime) IN
    /\ winInputs' = w.kept
    /\ triggerTime' = end
    /\ winSent' = Append(winSent, Window(end, w.rows))
    /\ winDropped' = winDropped \cup w.dropped

\* scan, of one part of a window.
ScanPart(rs, end, length) ==
    LET w == HandlePart(rs, end - length, end) IN
    /\ winInputs' = w.kept
    /\ triggerTime' = end
    /\ winSent' = Append(winSent, Window(end, w.rows))
    /\ winDropped' = winDropped \cup w.dropped

NoWindow(rs) == winInputs' = rs /\ UNCHANGED <<triggerTime, winSent, winDropped>>

\* PutState of some of the keys.
Put(keys) ==
    put' = [inputs  |-> IF "inputs"  \in keys THEN winInputs'   ELSE put.inputs,
            trigger |-> IF "trigger" \in keys THEN triggerTime' ELSE put.trigger,
            count   |-> IF "count"   \in keys THEN msgCount'    ELSE put.count]

NewState == [inputs |-> << >>, trigger |-> Never, count |-> 0]

\* What execProcessingWindow sets up when it starts at time t.
Setup(t) ==
    /\ firstTimer' = IF HasTicker THEN AlignedEnd(t) ELSE Never
    /\ tickerStart' = Never /\ winTick' = Never /\ nextTime' = Never
    /\ timeoutAt' = Never /\ timeoutSet' = FALSE
    /\ delayed' = << >>

WinInit ==
    /\ winKind \in WinKinds
    /\ winDelay \in {0, WinDelay} /\ (winDelay > 0 => winKind = "sliding")
    /\ sendTwice \in BOOLEAN /\ (sendTwice => winDelay > 0)
    /\ winTime \in 1..WinLength
    /\ rowsRead = [s \in RowStreams |-> << >>]
    /\ winInputs = << >> /\ triggerTime = winTime /\ msgCount = 0
    /\ firstTimer = (IF HasTicker THEN AlignedEnd(winTime) ELSE Never)
    /\ tickerStart = Never /\ winTick = Never /\ nextTime = Never
    /\ timeoutAt = Never /\ timeoutSet = FALSE
    /\ delayed = << >>
    /\ put = NewState /\ checkpointed = [state |-> NewState, rows |-> 0, nr |-> 0]
    /\ recoveries = 0
    /\ arrived = << >> /\ winSent = << >> /\ winDropped = {} /\ overrun = FALSE
-----------------------------------------------------------------------------
(* Time and the sources                                                    *)

\* Time passes; a tick is dropped when another is still in the channel.
WinTimePasses ==
    /\ winTime < MaxWinTime
    /\ winTime' = winTime + 1
    /\ winTick' = IF /\ tickerStart # Never /\ winTick = Never
                     /\ (winTime' - tickerStart) % Duration = 0
                  THEN winTime' ELSE winTick
    /\ UNCHANGED <<winConfig, rowsRead, winInputs, triggerTime, msgCount, firstTimer,
                   tickerStart, nextTime, timeoutAt, timeoutSet, delayed, put,
                   checkpointed, recoveries, winHistory>>

RowsSoFar == SumFunction([s \in RowStreams |-> Len(rowsRead[s])])

\* The source reads a row and stamps it; hit: it fulfils the trigger condition.
ReadRow(s, hit) ==
    /\ RowsSoFar + checkpointed.nr < MaxRowsRead
    /\ winKind = "sliding" \/ hit
    /\ rowsRead' = [rowsRead EXCEPT ![s] =
                       Append(@, [from |-> s, at |-> winTime, nr |-> Len(@) + 1, hit |-> hit])]
    /\ UNCHANGED <<winConfig, winTime, winInputs, triggerTime, msgCount, winTimers, delayed,
                   put, checkpointed, recoveries, winHistory>>

IsFrom(s) == {i \in DOMAIN arrived : arrived[i].from = s}

\* The node takes the next row of stream s, which its window then has as got.
Arrives(s) ==
    /\ Cardinality(IsFrom(s)) < Len(rowsRead[s])
    /\ arrived' = Append(arrived, rowsRead[s][Cardinality(IsFrom(s)) + 1])
    /\ UNCHANGED <<winConfig, winTime, rowsRead, checkpointed, recoveries>>

got == Append(winInputs, Last(arrived'))
-----------------------------------------------------------------------------
(* A row                                                                   *)

\* A tumbling or hopping window only keeps it.
TakeRow(s) ==
    /\ winKind \in {"tumbling", "hopping"}
    /\ Arrives(s)
    /\ NoWindow(got)
    /\ UNCHANGED <<msgCount, winTimers, delayed, overrun>>
    /\ Put({"inputs", "count"})

\* A window that ends before t has still to be sent.
Waiting(t) == \E i \in DOMAIN delayed : delayed[i].end < t

\* A sliding window ends at a row that fulfils the condition, or some time later;
\* one that does not only clears what is too old.
SlidingRow(s) ==
    /\ winKind = "sliding"
    /\ Arrives(s)
    /\ LET r == Last(arrived') IN
       /\ overrun' = (overrun \/ (~r.hit /\ Waiting(r.at)))
       /\ IF ~r.hit THEN NoWindow(Collected(got, r.at + 1)) /\ UNCHANGED delayed
          ELSE IF winDelay = 0 THEN Scan(got, r.at) /\ UNCHANGED delayed
          ELSE /\ IF sendTwice THEN ScanPart(got, r.at, WinLength) ELSE NoWindow(got)
               /\ delayed' = Append(delayed, [end |-> r.at + winDelay,
                                              due |-> winTime + winDelay])
    /\ UNCHANGED <<msgCount, winTimers>>
    /\ Put({"inputs", "count"})

\* A session goes on; the first row since the last timeout begins one.
SessionRow(s) ==
    /\ winKind = "session"
    /\ Arrives(s)
    /\ winInputs' = got
    /\ timeoutAt' = winTime + SessionGap /\ timeoutSet' = TRUE
    /\ triggerTime' = IF timeoutSet THEN triggerTime ELSE Last(arrived').at
    /\ UNCHANGED <<msgCount, firstTimer, tickerStart, winTick, nextTime, delayed, winSent,
                   winDropped, overrun>>
    /\ Put({"inputs", "count"} \cup IF timeoutSet THEN {} ELSE {"trigger"})

\* A count window is sent with every CountInterval-th row, once there are enough;
\* the rows in between go on without PutState.
CountRow(s) ==
    /\ winKind = "count"
    /\ Arrives(s)
    /\ LET triggers == (msgCount + 1) % CountInterval = 0
           sends    == triggers /\ Len(got) >= CountLength IN
       /\ msgCount' = IF triggers THEN 0 ELSE msgCount + 1
       /\ winInputs' = IF sends THEN From(got, Len(got) - CountLength + 2) ELSE got
       /\ winSent' = IF sends
                     THEN Append(winSent, Window(winTime, From(got, Len(got) - CountLength + 1)))
                     ELSE winSent
       /\ IF triggers THEN Put({"inputs", "count"}) ELSE put' = put
    /\ UNCHANGED <<triggerTime, winTimers, delayed, winDropped, overrun>>
-----------------------------------------------------------------------------
(* The end of a window                                                     *)

NoRow == UNCHANGED <<winConfig, winTime, rowsRead, arrived, msgCount, checkpointed, recoveries>>

\* tick: a session whose first row is younger than Length goes on.
EndAt(end) ==
    IF winKind = "session" /\ (winInputs = << >> \/ end - winInputs[1].at < WinLength)
    THEN NoWindow(winInputs) /\ put' = put
    ELSE Scan(winInputs, end) /\ Put({"inputs", "trigger"})

\* The first timer has fired: the ticker starts.
FirstTick ==
    /\ firstTimer # Never /\ firstTimer <= winTime
    /\ NoRow
    /\ EndAt(firstTimer)
    /\ firstTimer' = Never
    /\ tickerStart' = winTime /\ winTick' = Never
    /\ nextTime' = firstTimer
    /\ UNCHANGED <<timeoutAt, timeoutSet, delayed, overrun>>

\* A tick at the time it is expected ends a window; after another the ticker stops,
\* and a timer for the next end takes its place.
NextTick ==
    LET end == nextTime + Duration IN
    /\ winTick # Never
    /\ NoRow
    /\ nextTime' = end /\ winTick' = Never
    /\ IF winTick = end
       THEN EndAt(end) /\ UNCHANGED <<tickerStart, firstTimer>>
       ELSE /\ NoWindow(winInputs) /\ put' = put
            /\ tickerStart' = Never /\ firstTimer' = AlignedEnd(winTime)
    /\ UNCHANGED <<timeoutAt, timeoutSet, delayed, overrun>>

\* The timeout of a session: whatever is left of its rows is dropped.
OnSessionTimeout ==
    /\ timeoutAt # Never /\ timeoutAt <= winTime
    /\ NoRow
    /\ timeoutAt' = Never
    /\ IF winInputs = << >> THEN NoWindow(winInputs) /\ UNCHANGED <<put, timeoutSet>>
       ELSE LET w == HandleInputs(winInputs, timeoutAt, triggerTime) IN
            /\ winInputs' = << >>
            /\ triggerTime' = timeoutAt
            /\ winSent' = Append(winSent, Window(timeoutAt, w.rows))
            /\ winDropped' = winDropped \cup ToSet(w.kept)
            /\ timeoutSet' = FALSE
            /\ Put({"inputs", "trigger"})
    /\ UNCHANGED <<firstTimer, tickerStart, winTick, nextTime, delayed, overrun>>

\* A sliding window whose delay is over: of two that are, either may be first.
DelayedWindow(i) ==
    LET end == delayed[i].end IN
    /\ delayed[i].due <= winTime
    /\ NoRow
    /\ IF sendTwice THEN ScanPart(winInputs, end, winDelay) ELSE Scan(winInputs, end)
    /\ Put({"inputs", "count"})
    /\ delayed' = RemoveAt(delayed, i)
    /\ overrun' = (overrun \/ Waiting(end))
    /\ UNCHANGED winTimers
-----------------------------------------------------------------------------
(* A recovery                                                              *)

\* A checkpoint, whose barrier is behind the rows that have arrived.  (Only the last
\* one before a recovery matters, so that one is enough.)
SaveWindow ==
    /\ recoveries < MaxRecoveries /\ winKind # "session"
    /\ checkpointed.nr <= recoveries /\ RowsSoFar < MaxRowsRead
    /\ checkpointed' = [state |-> put, rows |-> Len(arrived), nr |-> recoveries + 1]
    /\ UNCHANGED <<winConfig, winTime, rowsRead, winInputs, triggerTime, msgCount, winTimers,
                   delayed, put, recoveries, winHistory>>

\* The windows that a start at time t sends of the rows rs, after one that ended at
\* last: all that end by the next tick, which may lie ahead.
Resumed(rs, last, t) ==
    LET ends == [k \in 1..(t - last) \div Duration + 1 |-> last + k * Duration]
        Step(w, end) == LET h == HandleInputs(w.inputs, end, w.last) IN
                        [inputs  |-> h.kept, last |-> end,
                         sent    |-> Append(w.sent, Window(end, h.rows)),
                         dropped |-> w.dropped \cup h.dropped]
    IN  FoldLeft(Step, [inputs |-> rs, last |-> last, sent |-> << >>, dropped |-> {}],
                 IF winKind \in {"tumbling", "hopping"} /\ rs # << >> THEN ends ELSE << >>)

\* The rule starts again from the checkpoint, after some time, and the sources read
\* again what came behind it.  A session is left out.
Recover(t) ==
    LET st == checkpointed.state
        w  == Resumed(st.inputs, IF st.trigger = Never THEN t ELSE st.trigger, t)
    IN
    /\ checkpointed.nr > recoveries
    /\ recoveries' = recoveries + 1
    /\ t >= winTime /\ winTime' = t
    /\ arrived' = SubSeq(arrived, 1, checkpointed.rows)
    /\ rowsRead' = [s \in RowStreams |-> SelectSeq(arrived', LAMBDA r : r.from = s)]
    /\ winInputs' = w.inputs /\ triggerTime' = w.last /\ msgCount' = st.count
    /\ put' = IF w.sent = << >> THEN st
              ELSE [inputs |-> w.inputs, trigger |-> w.last, count |-> st.count]
    /\ winSent' = winSent \o w.sent /\ winDropped' = winDropped \cup w.dropped
    /\ Setup(t)
    /\ UNCHANGED <<winConfig, checkpointed, overrun>>

WinNext ==
    \/ WinTimePasses
    \/ \E s \in RowStreams : \/ \E hit \in BOOLEAN : ReadRow(s, hit)
                             \/ TakeRow(s) \/ SlidingRow(s) \/ SessionRow(s) \/ CountRow(s)
    \/ FirstTick \/ NextTick \/ OnSessionTimeout
    \/ \E i \in DOMAIN delayed : DelayedWindow(i)
    \/ SaveWindow
    \/ \E t \in 1..MaxWinTime : Recover(t)

WinSpec == WinInit /\ [][WinNext]_winVars
-----------------------------------------------------------------------------
(* Properties                                                              *)

\* The rows came in the order of their stamps, as those of one stream do.
Sorted == \A i, j \in DOMAIN arrived : i < j => arrived[i].at <= arrived[j].at

Taken(w)    == ToSet(w.rows)
SentIn(r)     == {i \in DOMAIN winSent : r \in Taken(winSent[i])}

\* In windows that do not overlap, a row that has arrived is either held or in one
\* window, and not in a second one, whenever it comes beside a tick, and whatever
\* the timeout drops (window_op.go:460-470, 600-624, 640-683).
RowsOnce ==
    winKind \in {"tumbling", "session"} /\ Sorted /\ recoveries = 0 =>
        \A r \in ToSet(arrived) :
            Cardinality(SentIn(r)) = IF r \in ToSet(winInputs) THEN 0 ELSE 1

\* Also when the rows of two streams are not in order.  (The code does not satisfy
\* this: README, section 8.)
RowsOnceAlways ==
    winKind = "tumbling" /\ recoveries = 0 =>
        \A r \in ToSet(arrived) :
            Cardinality(SentIn(r)) = IF r \in ToSet(winInputs) THEN 0 ELSE 1

\* Over recoveries, no row that had arrived is lost to a tumbling window: it is held,
\* or was in a window that was sent (window_op.go:295-307).
RowsKept ==
    winKind = "tumbling" =>
        \A r \in ToSet(arrived) :
            r \in ToSet(winInputs) \/ \E i \in DOMAIN winSent : r \in Taken(winSent[i])

\* The same of a count window.  (The code does not satisfy this: README, section 8.)
CountedRowsKept ==
    winKind = "count" =>
        \A r \in ToSet(arrived) :
            r \in ToSet(winInputs) \/ \E i \in DOMAIN winSent : r \in Taken(winSent[i])

\* The rows of a window are of its time, and it has all of that time that had
\* arrived and were not in a former one, if it ends by the clock or at a row.
WindowsWhole ==
    Sorted /\ ~sendTwice /\ ~overrun /\ winKind \in {"tumbling", "hopping", "sliding"} =>
        \A i \in DOMAIN winSent :
            LET w      == winSent[i]
                before == ToSet(SubSeq(arrived, 1, w.after)) \ winDropped
                start  == w.end - WinLength - winDelay
            IN  recoveries = 0 =>
                /\ \A r \in Taken(w) :
                     IF TimeRelated THEN r.at < w.end
                     ELSE start <= r.at /\ r.at <= w.end
                /\ \A r \in before :
                     CASE winKind = "tumbling" ->
                            r.at < w.end => \E j \in SentIn(r) : j <= i
                       [] winKind = "hopping"  -> start <= r.at /\ r.at < w.end => r \in Taken(w)
                       [] winDelay > 0 -> start < r.at /\ r.at < w.end => r \in Taken(w)
                       [] OTHER        -> start < r.at /\ r.at <= w.end => r \in Taken(w)

\* No row is dropped because it came before the tick of a window without rows.
\* (The code does not satisfy this: README, section 8.)
NothingDropped == winKind = "hopping" => winDropped = {}

\* The two parts of a sliding window that is sent twice have all its rows.  (The code
\* does not satisfy this: README, section 8.)
PartsAreWhole == sendTwice => winDropped = {}

\* The ends of windows are those of natural time, and each is later than the one
\* before, however late the ticks are handled (docs/en_US/sqls/windows.md:11).
EndsAreNatural ==
    winKind \in {"tumbling", "hopping"} /\ recoveries = 0 =>
        \A i \in DOMAIN winSent :
            /\ winSent[i].end % Duration = 0
            /\ \A j \in 1..i - 1 : winSent[j].end < winSent[i].end

\* The windows end at natural times also after a recovery.  (The code does not satisfy
\* this: README, section 8.)
EndsAreNaturalAlways ==
    winKind \in {"tumbling", "hopping"} => \A i \in DOMAIN winSent : winSent[i].end % Duration = 0

\* A count window is sent with each CountInterval-th row and has the CountLength rows
\* up to it (window_op.go:408-440, 530-574).
CountsAreExact ==
    winKind = "count" /\ recoveries = 0 =>
        LET nrs == SetToSortSeq({n \in 1..Len(arrived) : n % CountInterval = 0 /\ n >= CountLength}, <)
        IN  [i \in DOMAIN winSent |-> winSent[i].rows]
              = [i \in DOMAIN nrs |-> SubSeq(arrived, nrs[i] - CountLength + 1, nrs[i])]

\* Every row that fulfils the condition has its sliding window, or a goroutine waits
\* to have it sent (window_op.go:374-402).
EachHitHasWindow ==
    winKind = "sliding" /\ ~sendTwice /\ recoveries = 0 =>
        \A end \in WinTimes :
            Cardinality({i \in DOMAIN winSent : winSent[i].end = end})
              + Cardinality({i \in DOMAIN delayed : delayed[i].end = end})
              = Cardinality({r \in ToSet(arrived) : r.hit /\ r.at + winDelay = end})

\* Also a recovery does not forget those that wait.  (The code does not satisfy this:
\* README, section 8.)
DelaysSurvive ==
    winKind = "sliding" /\ ~sendTwice =>
        \A r \in ToSet(arrived) : r.hit =>
            \/ \E i \in DOMAIN winSent : winSent[i].end = r.at + winDelay
            \/ \E i \in DOMAIN delayed : delayed[i].end = r.at + winDelay

\* The windows by the clock and by count take what is theirs: no row is lost or comes in
\* two windows that do not overlap, each window has all rows of its time or number, ends
\* when it should, and comes when one is due, however late rows and ticks are handled.
WindowSound ==
    /\ WinTypeOK
    /\ RowsOnce /\ RowsKept
    /\ WindowsWhole /\ EndsAreNatural /\ CountsAreExact /\ EachHitHasWindow
=============================================================================
