------------------------------ MODULE FileSink ------------------------------
(***************************************************************************)
(* The file sink: fileSink of internal/io/file/sink.go and fileWriter of   *)
(* file_writer.go, for one path and the JSON type of files.                *)
(*                                                                         *)
(* Collect looks up the writer of the path under the lock, creates one if  *)
(* there is none, and writes under the lock taken again.  A full file is   *)
(* rolled: it is closed, and the next item opens another.  A goroutine     *)
(* rolls what is open too long; Close rolls what is left, without lock.    *)
(***************************************************************************)
EXTENDS Integers, Sequences, FiniteSets, SequencesExt

CONSTANTS
    RollingCount,     \* items in a file, 0 if they do not matter
    RollingInterval,  \* the time after which the check rolls a file
    MaxCollects,      \* bound: items collected
    MaxClock          \* bound: the time, in the unit that names a file

ASSUME FileAssumption ==
    {RollingCount, RollingInterval, MaxCollects} \subseteq Nat /\ MaxClock \in Nat \ {0}

VARIABLES
    stamped,     \* rollingNamePattern puts the time into the name of a file
    fileClock,
    disk,        \* the contents of the files by name: the time, or 0
    writers,     \* every fileWriter that was created
    fws,         \* the writer of the path: an index in writers, 0 if there is none
    collector,   \* Collect, with the item it has and the writer it found
    collected,   \* history: the items for which Collect returned no error
    ticker,      \* the goroutine that checks, and what it has done of a roll
    closer,      \* Close, likewise
    fileLock,    \* mux is held between two steps of the ticker
    staleWrite,  \* history: an item was written after its file was closed
    reused,      \* history: a file was opened under the name of another
    rolledTwice  \* history: Close and the ticker rolled a file at the same time

fileVars == <<stamped, fileClock, disk, writers, fws, collector, collected, ticker,
              closer, fileLock, staleWrite, reused, rolledTwice>>

\* What is written beside items, which are positive.
Header == 0
LineSep == -1
Footer == -2

FileWriter == [name : 0..MaxClock, start : 0..MaxClock, count : Nat, written : BOOLEAN,
               buffer : Seq(Int), open : BOOLEAN]

RollSteps == {"idle", "flush", "delete", "done"}

FileTypeOK ==
    /\ stamped \in BOOLEAN /\ fileClock \in 1..MaxClock
    /\ disk \in [0..MaxClock -> Seq(Int)]
    /\ writers \in Seq(FileWriter)
    /\ fws \in 0..Len(writers)
    /\ collector \in [item : 0..MaxCollects, writer : 0..Len(writers)]
    /\ collected \in Seq(1..MaxCollects)
    /\ {ticker, closer.at} \subseteq RollSteps
    /\ closer.writer \in 0..Len(writers)
    /\ {fileLock, staleWrite, reused, rolledTwice} \subseteq BOOLEAN
    /\ \A i \in DOMAIN writers : RollingCount > 0 => writers[i].count <= RollingCount

FileInit ==
    /\ stamped \in BOOLEAN /\ fileClock = 1
    /\ disk = [n \in 0..MaxClock |-> << >>]
    /\ writers = << >> /\ fws = 0
    /\ collector = [item |-> 0, writer |-> 0] /\ collected = << >>
    /\ ticker = "idle" /\ closer = [at |-> "idle", writer |-> 0] /\ fileLock = FALSE
    /\ staleWrite = FALSE /\ reused = FALSE /\ rolledTwice = FALSE
-----------------------------------------------------------------------------
(* Writers                                                                 *)

\* createFileWriter: the file is emptied.
NewWriter(name) ==
    [name |-> name, start |-> fileClock, count |-> 0, written |-> FALSE,
     buffer |-> <<Header>>, open |-> TRUE]

\* The end of Collect: the item goes to the buffer, behind a separator.
WithItem(w, item) ==
    [w EXCEPT !.buffer = @ \o (IF w.written THEN <<LineSep, item>> ELSE <<item>>),
              !.written = TRUE, !.count = @ + 1]

WithFooter(w) == [w EXCEPT !.buffer = Append(@, Footer)]

\* fileWriter.Close: the buffer is flushed to the file and the file is closed.
ClosedWriter(w) == [w EXCEPT !.open = FALSE, !.buffer = << >>]

\* Mutant: what the buffer holds is dropped.
FlushedNothing(w) == disk

\* What is on disk then; a file that is closed takes nothing.
Flushed(w) == IF w.open THEN [disk EXCEPT ![w.name] = @ \o w.buffer] ELSE disk
-----------------------------------------------------------------------------
(* Collect                                                                 *)

\* GetFws.
GetFws ==
    /\ ~fileLock /\ closer.at = "idle" /\ collector.item = 0
    /\ Len(collected) < MaxCollects
    /\ LET item == IF collected = << >> THEN 1 ELSE Last(collected) + 1
           name == IF stamped THEN fileClock ELSE 0 IN
       /\ item <= MaxCollects
       /\ collector' = [item |-> item, writer |-> IF fws # 0 THEN fws ELSE Len(writers) + 1]
       /\ IF fws # 0 THEN UNCHANGED <<writers, fws, disk, reused>>
          ELSE /\ writers' = Append(writers, NewWriter(name))
               /\ fws' = Len(writers')
               /\ disk' = [disk EXCEPT ![name] = << >>]
               /\ reused' = (reused \/ disk[name] # << >>)
    /\ UNCHANGED <<stamped, fileClock, collected, ticker, closer, fileLock, staleWrite,
                   rolledTwice>>

\* The rest of Collect, with the writer GetFws found.  A roll that fails to close
\* the file returns its error.
CollectItem ==
    /\ ~fileLock /\ collector.item # 0
    /\ LET i == collector.writer
           w == WithItem(writers[i], collector.item)
           full == RollingCount > 0 /\ w.count >= RollingCount IN
       /\ writers' = [writers EXCEPT ![i] =
                        IF full THEN [ClosedWriter(WithFooter(w)) EXCEPT !.written = ~w.open]
                        ELSE w]
       /\ disk' = IF full THEN Flushed(WithFooter(w)) ELSE disk
       /\ fws' = IF full /\ w.open THEN 0 ELSE fws
       /\ collected' = IF full /\ ~w.open THEN collected
                       ELSE Append(collected, collector.item)
       /\ staleWrite' = (staleWrite \/ ~w.open)
    /\ collector' = [item |-> 0, writer |-> 0]
    /\ UNCHANGED <<stamped, fileClock, ticker, closer, fileLock, reused, rolledTwice>>
-----------------------------------------------------------------------------
(* Rolls beside it                                                         *)

\* The ticker finds a file that is open too long, under the lock: its roll, in
\* three steps because Close may run beside it.
TickFooter ==
    /\ ticker = "idle" /\ ~fileLock /\ fws # 0
    /\ fileClock - writers[fws].start > RollingInterval
    /\ writers' = [writers EXCEPT ![fws] = WithFooter(@)]
    /\ ticker' = "flush" /\ fileLock' = TRUE
    /\ rolledTwice' = (rolledTwice \/ closer.at \in {"flush", "delete"})
    /\ UNCHANGED <<stamped, fileClock, disk, fws, collector, collected, closer,
                   staleWrite, reused>>

TickFlush ==
    /\ ticker = "flush"
    /\ IF fws = 0 THEN UNCHANGED <<writers, disk>>
       ELSE /\ writers' = [writers EXCEPT ![fws] = ClosedWriter(@)]
            /\ disk' = Flushed(writers[fws])
    /\ ticker' = "delete"
    /\ UNCHANGED <<stamped, fileClock, fws, collector, collected, closer, fileLock,
                   staleWrite, reused, rolledTwice>>

\* The next item opens another file.  (Where Close was faster, the file is closed
\* already, and this error ends the roll: Close forgets the writer then.)
TickDelete ==
    /\ ticker = "delete"
    /\ fws' = 0
    /\ writers' = IF fws = 0 THEN writers ELSE [writers EXCEPT ![fws].written = FALSE]
    /\ ticker' = "idle" /\ fileLock' = FALSE
    /\ UNCHANGED <<stamped, fileClock, disk, collector, collected, closer, staleWrite,
                   reused, rolledTwice>>

\* The context of the rule is done: the goroutine ends when it sees that.
TickerEnds ==
    /\ ticker = "idle" /\ closer.at # "idle"
    /\ ticker' = "done"
    /\ UNCHANGED <<stamped, fileClock, disk, writers, fws, collector, collected, closer,
                   fileLock, staleWrite, reused, rolledTwice>>

\* Close, after the last Collect, by the goroutine of the sink node.
CloseFooter ==
    /\ closer.at = "idle" /\ collector.item = 0
    /\ IF fws = 0 THEN closer' = [at |-> "done", writer |-> 0] /\ UNCHANGED writers
       ELSE /\ writers' = [writers EXCEPT ![fws] = WithFooter(@)]
            /\ closer' = [at |-> "flush", writer |-> fws]
    /\ rolledTwice' = (rolledTwice \/ (fws # 0 /\ ticker \in {"flush", "delete"}))
    /\ UNCHANGED <<stamped, fileClock, disk, fws, collector, collected, ticker, fileLock,
                   staleWrite, reused>>

CloseFlush ==
    /\ closer.at = "flush"
    /\ writers' = [writers EXCEPT ![closer.writer] = ClosedWriter(@)]
    /\ disk' = Flushed(writers[closer.writer])
    /\ closer' = [closer EXCEPT !.at = "delete"]
    /\ UNCHANGED <<stamped, fileClock, fws, collector, collected, ticker, fileLock,
                   staleWrite, reused, rolledTwice>>

CloseDelete ==
    /\ closer.at = "delete"
    /\ fws' = 0
    /\ closer' = [closer EXCEPT !.at = "done"]
    /\ UNCHANGED <<stamped, fileClock, disk, writers, collector, collected, ticker,
                   fileLock, staleWrite, reused, rolledTwice>>

TimePasses ==
    /\ fileClock < MaxClock
    /\ fileClock' = fileClock + 1
    /\ UNCHANGED <<stamped, disk, writers, fws, collector, collected, ticker, closer,
                   fileLock, staleWrite, reused, rolledTwice>>

FileNext ==
    \/ GetFws \/ CollectItem \/ TimePasses
    \/ TickFooter \/ TickFlush \/ TickDelete \/ TickerEnds
    \/ CloseFooter \/ CloseFlush \/ CloseDelete

FileSpec == FileInit /\ [][FileNext]_fileVars
-----------------------------------------------------------------------------
(* Properties                                                              *)

ItemsOf(tokens) ==
    FlattenSeq([k \in DOMAIN tokens |-> IF tokens[k] > 0 THEN <<tokens[k]>> ELSE << >>])

\* An array: items between a header and a footer, and a separator between two.
WellFormed(tokens) ==
    LET last == Len(tokens) IN
    /\ last = 2 \/ \E n \in 1..last : last = 2 * n + 1
    /\ tokens[1] = Header /\ tokens[last] = Footer
    /\ \A k \in 2..(last - 1) : IF k % 2 = 0 THEN tokens[k] > 0 ELSE tokens[k] = LineSep

\* A file that no writer has open holds one whole array (file_writer.go:119-147,
\* sink.go:183-200), unless Close and the ticker closed it together.
FilesAreWhole ==
    ~rolledTwice =>
        \A n \in 0..MaxClock :
            disk[n] # << >> => WellFormed(disk[n])

\* What a writer has of items, in its buffer or its file.
HeldBy(w) == ItemsOf(IF w.open THEN w.buffer ELSE disk[w.name])

\* The items collected are in the files, each once and in order, across all rolls
\* (sink.go:167-214, 235-250), unless an item met a file just closed or a file
\* was opened under the name of another.
KeptInOrder ==
    ~staleWrite /\ ~reused =>
        FlattenSeq([i \in DOMAIN writers |-> HeldBy(writers[i])]) = collected

\* After Close no file is open, and nothing is left in a buffer (sink.go:216-233).
ClosedIsOnDisk ==
    closer.at = "done" => \A i \in DOMAIN writers : ~writers[i].open

\* No item is lost, whoever rolls the file.
\* (The code does not satisfy this: README, section 8.)
KeptAlways ==
    \A k \in DOMAIN collected : \E i \in DOMAIN writers :
        collected[k] \in {HeldBy(writers[i])[j] : j \in DOMAIN HeldBy(writers[i])}

\* Each file is a whole array, also when Close and the ticker roll it at once.
\* (The code does not satisfy this: README, section 8.)
WholeAlways == \A n \in 0..MaxClock : disk[n] # << >> => WellFormed(disk[n])

\* The files have all items in order, as long as no item meets a file that was just
\* rolled and none is opened under the name of another; each is a whole array, as long
\* as Close and the ticker do not roll one at once; and Close leaves none open, however
\* Collect, the ticker and Close meet (sink.go:160-250, file_writer.go:60-150).
FilesSound == FileTypeOK /\ FilesAreWhole /\ KeptInOrder /\ ClosedIsOnDisk
=============================================================================
