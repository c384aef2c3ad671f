--------------------------- MODULE FileSinkProofs ----------------------------
(***************************************************************************)
(* Proofs about the files of the file sink (FileSink), for any number of   *)
(* items in a file, any interval, any items and any times                  *)
(***************************************************************************)
EXTENDS FileSink, SequenceLemmas

FileTypes ==
    /\ stamped \in BOOLEAN /\ fileClock \in 1..MaxClock
    /\ disk \in [0..MaxClock -> Seq(Int)]
    /\ writers \in Seq(FileWriter)
    /\ fws \in 0..Len(writers)
    /\ collector \in [item : 0..MaxCollects, writer : 0..Len(writers)]
    /\ collected \in Seq(1..MaxCollects)
    /\ ticker \in RollSteps
    /\ closer \in [at : RollSteps, writer : 0..Len(writers)]
    /\ fileLock \in BOOLEAN /\ staleWrite \in BOOLEAN /\ reused \in BOOLEAN
    /\ rolledTwice \in BOOLEAN

\* At most the writer of the path is open, and its file is empty.
OpenInv ==
    \A i \in 1..Len(writers) : writers[i].open =>
        i = fws /\ disk[writers[i].name] = << >> /\ writers[i].buffer # << >>

\* Who is where: Collect is over when Close begins, and whoever has flushed a file finds it
\* closed, and is about to forget its writer.
RollInv ==
    /\ fileLock <=> ticker \in {"flush", "delete"}
    /\ collector.item # 0 => collector.writer \in 1..Len(writers) /\ closer.at = "idle"
    /\ closer.at \in {"flush", "delete"} =>
           closer.writer \in 1..Len(writers) /\ fws \in {0, closer.writer}
    /\ closer.at = "delete" => ~writers[closer.writer].open
    /\ closer.at = "done" => fws = 0
    /\ fws # 0 => fws = Len(writers)
    /\ fws # 0 /\ ticker = "delete" => ~writers[fws].open
    /\ fws # 0 /\ ~writers[fws].open => ticker = "delete" \/ closer.at \in {"flush", "delete"}

\* The writer of the path has room for an item, and so has the one that Collect found.
RoomInv ==
    RollingCount > 0 =>
        /\ \A i \in 1..Len(writers) : writers[i].count <= RollingCount
        /\ fws # 0 => writers[fws].count < RollingCount
        /\ collector.item # 0 => writers[collector.writer].count < RollingCount

\* An array without its end.
Begun(tokens, written) ==
    /\ Len(tokens) >= 1 /\ tokens[1] = Header
    /\ IF written THEN \E n \in 1..Len(tokens) : Len(tokens) = 2 * n ELSE Len(tokens) = 1
    /\ \A k \in 2..Len(tokens) : IF k % 2 = 0 THEN tokens[k] > 0 ELSE tokens[k] = LineSep

\* One of them rolls the file at a time, and what is open has no end but from this one.
WholeInv ==
    ~rolledTwice =>
        /\ ~(ticker \in {"flush", "delete"} /\ closer.at \in {"flush", "delete"})
        /\ \A i \in 1..Len(writers) : writers[i].open =>
               IF ticker = "flush" \/ closer.at = "flush"
                 THEN WellFormed(writers[i].buffer)
                 ELSE Begun(writers[i].buffer, writers[i].written)
        /\ FilesAreWhole

\* What is closed has a file of its own, with a header at least, unless a name was reused.
NamesInv ==
    ~reused =>
        /\ \A i, j \in 1..Len(writers) : writers[i].name = writers[j].name => i = j
        /\ \A i \in 1..Len(writers) : ~writers[i].open => disk[writers[i].name] # << >>

FileInv == FileTypes /\ OpenInv /\ RollInv /\ RoomInv /\ WholeInv /\ NamesInv /\ KeptInOrder


-----------------------------------------------------------------------------
(* What the file sink makes of a writer.                                   *)

LEMMA FileBounds ==
    /\ RollingCount \in Nat /\ MaxCollects \in Nat /\ MaxClock \in Nat /\ MaxClock >= 1
    /\ Header = 0 /\ LineSep = -1 /\ Footer = -2
    /\ "idle" \in RollSteps /\ "flush" \in RollSteps /\ "delete" \in RollSteps
    /\ "done" \in RollSteps
  BY FileAssumption DEF Header, LineSep, Footer, RollSteps

LEMMA WriterFields ==
    ASSUME NEW w \in FileWriter
    PROVE  /\ w = [name |-> w.name, start |-> w.start, count |-> w.count, written |-> w.written,
                   buffer |-> w.buffer, open |-> w.open]
           /\ w.name \in 0..MaxClock /\ w.start \in 0..MaxClock /\ w.count \in Nat
           /\ w.written \in BOOLEAN /\ w.buffer \in Seq(Int) /\ w.open \in BOOLEAN
  BY DEF FileWriter

LEMMA UnwrittenIs ==
    ASSUME NEW w \in FileWriter, NEW b \in BOOLEAN
    PROVE  /\ [w EXCEPT !.written = b] = [name |-> w.name, start |-> w.start, count |-> w.count,
                                          written |-> b, buffer |-> w.buffer, open |-> w.open]
           /\ [w EXCEPT !.written = b] \in FileWriter
  BY DEF FileWriter

LEMMA OpenedIs ==
    ASSUME NEW w \in FileWriter, NEW b \in BOOLEAN
    PROVE  /\ [w EXCEPT !.open = b] = [name |-> w.name, start |-> w.start, count |-> w.count,
                                       written |-> w.written, buffer |-> w.buffer, open |-> b]
           /\ [w EXCEPT !.open = b] \in FileWriter
  BY DEF FileWriter

\* What WithItem puts behind the buffer.
Entry(w, item) == IF w.written THEN <<LineSep, item>> ELSE <<item>>

LEMMA WithItemIs ==
    ASSUME NEW w \in FileWriter, NEW item \in Nat
    PROVE  /\ WithItem(w, item) = [name |-> w.name, start |-> w.start, count |-> w.count + 1,
                                   written |-> TRUE, buffer |-> w.buffer \o Entry(w, item),
                                   open |-> w.open]
           /\ WithItem(w, item) \in FileWriter /\ Entry(w, item) \in Seq(Int)
  <1> DEFINE e == Entry(w, item)
             b == w.buffer \o e
             y == [w EXCEPT !.buffer = b]
             z == [y EXCEPT !.written = TRUE]
  <1>1. WithItem(w, item) = [z EXCEPT !.count = z.count + 1]
    BY DEF WithItem, Entry
  <1>2. e \in Seq(Int)
    BY FileBounds DEF Entry
  <1>3. b \in Seq(Int)
    BY <1>2, WriterFields, ConcatProperties
  <1> HIDE DEF e, b
  <1>4. y = [name |-> w.name, start |-> w.start, count |-> w.count, written |-> w.written,
             buffer |-> b, open |-> w.open]
    BY DEF FileWriter
  <1> HIDE DEF y
  <1>8. y \in FileWriter
    BY <1>3, <1>4, WriterFields DEF FileWriter
  <1>5. z = [name |-> w.name, start |-> w.start, count |-> w.count, written |-> TRUE,
             buffer |-> b, open |-> w.open]
    BY <1>4, <1>8, UnwrittenIs
  <1> HIDE DEF z
  <1>6. WithItem(w, item) = [name |-> w.name, start |-> w.start, count |-> w.count + 1,
                             written |-> TRUE, buffer |-> b, open |-> w.open]
    BY <1>1, <1>5
  <1>7. WithItem(w, item) \in FileWriter
    BY <1>3, <1>6, WriterFields DEF FileWriter
  <1> QED BY <1>2, <1>6, <1>7 DEF b, e

LEMMA WithItemFields ==
    ASSUME NEW w \in FileWriter, NEW item \in Nat
    PROVE  /\ WithItem(w, item) \in FileWriter /\ WithItem(w, item).name = w.name
           /\ WithItem(w, item).count = w.count + 1 /\ WithItem(w, item).written = TRUE
           /\ WithItem(w, item).buffer = w.buffer \o Entry(w, item)
           /\ WithItem(w, item).open = w.open
  <1> DEFINE v == WithItem(w, item)
             b == w.buffer \o Entry(w, item)
  <1>1. /\ v = [name |-> w.name, start |-> w.start, count |-> w.count + 1, written |-> TRUE,
               buffer |-> b, open |-> w.open]
        /\ v \in FileWriter
    BY WithItemIs
  <1> HIDE DEF v, b
  <1>2. v.name = w.name /\ v.count = w.count + 1 /\ v.written = TRUE /\ v.buffer = b
        /\ v.open = w.open
    BY <1>1
  <1> QED BY <1>1, <1>2 DEF v, b

LEMMA WithFooterIs ==
    ASSUME NEW w \in FileWriter
    PROVE  /\ WithFooter(w) = [name |-> w.name, start |-> w.start, count |-> w.count,
                               written |-> w.written, buffer |-> Append(w.buffer, Footer),
                               open |-> w.open]
           /\ WithFooter(w) \in FileWriter
  <1> DEFINE b == Append(w.buffer, Footer)
  <1>1. b \in Seq(Int)
    BY FileBounds, WriterFields, AppendProperties
  <1>2. WithFooter(w) = [w EXCEPT !.buffer = b]
    BY DEF WithFooter
  <1> HIDE DEF b
  <1>3. WithFooter(w) = [name |-> w.name, start |-> w.start, count |-> w.count,
                         written |-> w.written, buffer |-> b, open |-> w.open]
    BY <1>2 DEF FileWriter
  <1> QED BY <1>1, <1>3, WriterFields DEF FileWriter, b

LEMMA ClosedWriterIs ==
    ASSUME NEW w \in FileWriter
    PROVE  /\ ClosedWriter(w) = [name |-> w.name, start |-> w.start, count |-> w.count,
                                 written |-> w.written, buffer |-> << >>, open |-> FALSE]
           /\ ClosedWriter(w) \in FileWriter
  <1> DEFINE y == [w EXCEPT !.open = FALSE]
  <1>1. ClosedWriter(w) = [y EXCEPT !.buffer = << >>]
    BY DEF ClosedWriter
  <1>2. y = [name |-> w.name, start |-> w.start, count |-> w.count, written |-> w.written,
             buffer |-> w.buffer, open |-> FALSE]
    BY OpenedIs
  <1> HIDE DEF y
  <1>3. ClosedWriter(w) = [name |-> w.name, start |-> w.start, count |-> w.count,
                           written |-> w.written, buffer |-> << >>, open |-> FALSE]
    BY <1>1, <1>2
  <1> QED BY <1>3, WriterFields DEF FileWriter

LEMMA NewWriterIs ==
    ASSUME FileTypes, NEW name \in 0..MaxClock
    PROVE  /\ NewWriter(name) \in FileWriter /\ NewWriter(name).name = name
           /\ NewWriter(name).open = TRUE /\ NewWriter(name).written = FALSE
           /\ NewWriter(name).count = 0 /\ NewWriter(name).buffer = <<Header>>
  <1>1. <<Header>> \in Seq(Int) /\ fileClock \in 0..MaxClock
    BY FileBounds DEF FileTypes
  <1> QED BY <1>1 DEF NewWriter, FileWriter

-----------------------------------------------------------------------------
(* Items in what is written.                                               *)

Piece(t) == IF t > 0 THEN <<t>> ELSE << >>

\* Two sequences of one more and the same before it.
LEMMA OneMoreIs ==
    ASSUME NEW S, NEW s \in Seq(S), NEW t \in Seq(S), Len(t) = Len(s) + 1,
           \A k \in 1..Len(s) : t[k] = s[k]
    PROVE  t = Append(s, t[Len(t)]) /\ t[Len(t)] \in S
  <1> DEFINE x == t[Len(t)]
             a == Append(s, x)
  <1>1. Len(s) \in Nat /\ x \in S
    OBVIOUS
  <1>2. /\ a \in Seq(S) /\ Len(a) = Len(s) + 1 /\ a[Len(s) + 1] = x
        /\ \A k \in 1..Len(s) : a[k] = s[k]
    BY <1>1, AppendProperties
  <1>3. x = t[Len(s) + 1]
    OBVIOUS
  <1> HIDE DEF a, x
  <1>4. \A k \in 1..Len(t) : t[k] = a[k]
    <2>1. \A k \in 1..Len(t) : k \in 1..Len(s) \/ k = Len(s) + 1
      BY <1>1
    <2> QED BY <1>2, <1>3, <2>1
  <1>5. t = a
    BY <1>2, <1>4, SeqEqual
  <1> QED BY <1>1, <1>5 DEF a, x

LEMMA PiecesOf ==
    ASSUME NEW s \in Seq(Int)
    PROVE  /\ [k \in DOMAIN s |-> Piece(s[k])] \in Seq(Seq(Int))
           /\ Len([k \in DOMAIN s |-> Piece(s[k])]) = Len(s)
           /\ \A k \in 1..Len(s) : [j \in DOMAIN s |-> Piece(s[j])][k] = Piece(s[k])
           /\ ItemsOf(s) = FlattenSeq([k \in DOMAIN s |-> Piece(s[k])])
           /\ ItemsOf(s) \in Seq(Int)
  <1> DEFINE p == [k \in DOMAIN s |-> Piece(s[k])]
  <1>1. DOMAIN s = 1..Len(s) /\ Len(s) \in Nat
    OBVIOUS
  <1>2. \A k \in 1..Len(s) : Piece(s[k]) \in Seq(Int)
    BY DEF Piece
  <1>3. p \in [1..Len(s) -> Seq(Int)]
    BY <1>1, <1>2
  <1>4. p \in Seq(Seq(Int)) /\ Len(p) = Len(s)
    BY <1>1, <1>3
  <1>5. ItemsOf(s) = FlattenSeq(p)
    BY DEF ItemsOf, Piece
  <1>6. \A k \in 1..Len(s) : p[k] = Piece(s[k])
    BY <1>1
  <1> HIDE DEF p
  <1>7. FlattenSeq(p) \in Seq(Int)
    BY <1>4, FlattenType
  <1> QED BY <1>4, <1>5, <1>6, <1>7 DEF p

LEMMA ItemsOfAppend ==
    ASSUME NEW s \in Seq(Int), NEW t \in Int
    PROVE  ItemsOf(Append(s, t)) = ItemsOf(s) \o Piece(t)
  <1> DEFINE a == Append(s, t)
             p == [k \in DOMAIN s |-> Piece(s[k])]
             q == [k \in DOMAIN a |-> Piece(a[k])]
  <1>1. /\ a \in Seq(Int) /\ Len(a) = Len(s) + 1 /\ a[Len(s) + 1] = t /\ Len(s) \in Nat
        /\ \A k \in 1..Len(s) : a[k] = s[k]
    BY AppendProperties, LenProperties
  <1> HIDE DEF a
  <1>2. /\ p \in Seq(Seq(Int)) /\ Len(p) = Len(s) /\ ItemsOf(s) = FlattenSeq(p)
        /\ \A k \in 1..Len(s) : p[k] = Piece(s[k])
    BY PiecesOf
  <1>3. /\ q \in Seq(Seq(Int)) /\ Len(q) = Len(a) /\ ItemsOf(a) = FlattenSeq(q)
        /\ \A k \in 1..Len(a) : q[k] = Piece(a[k])
    BY <1>1, PiecesOf
  <1> HIDE DEF p, q
  <1>4. Len(q) = Len(p) + 1 /\ \A k \in 1..Len(p) : q[k] = p[k]
    <2>1. \A k \in 1..Len(p) : k \in 1..Len(a)
      BY <1>1, <1>2
    <2> QED BY <1>1, <1>2, <1>3, <2>1
  <1>5. q = Append(p, q[Len(q)]) /\ q[Len(q)] \in Seq(Int)
    BY <1>2, <1>3, <1>4, OneMoreIs
  <1>6. q[Len(q)] = Piece(t)
    <2>1. Len(q) \in 1..Len(a) /\ Len(q) = Len(s) + 1
      BY <1>1, <1>3
    <2> QED BY <1>1, <1>3, <2>1
  <1>7. FlattenSeq(q) = FlattenSeq(p) \o Piece(t)
    BY <1>2, <1>5, <1>6, FlattenAppend
  <1> QED BY <1>2, <1>3, <1>7 DEF a

LEMMA ItemsOfEmpty ==
    ItemsOf(<< >>) = << >> /\ ItemsOf(<<Header>>) = << >>
  <1>1. ItemsOf(<< >>) = << >>
    <2>1. [k \in DOMAIN << >> |-> IF << >>[k] > 0 THEN << << >>[k] >> ELSE << >>] = << >>
      OBVIOUS
    <2> QED BY <2>1, FlattenEmpty DEF ItemsOf
  <1>2. <<Header>> = Append(<< >>, Header) /\ << >> \in Seq(Int) /\ Header \in Int
    BY FileBounds
  <1>3. Piece(Header) = << >>
    BY FileBounds DEF Piece
  <1>4. ItemsOf(<<Header>>) = ItemsOf(<< >>) \o << >>
    BY <1>2, <1>3, ItemsOfAppend
  <1> QED BY <1>1, <1>2, <1>4, ConcatEmptySeq

\* What a separator, an item or the end of the array adds.
LEMMA ItemsOfWritten ==
    ASSUME NEW w \in FileWriter, NEW item \in Nat \ {0}
    PROVE  /\ ItemsOf(w.buffer \o Entry(w, item)) = Append(ItemsOf(w.buffer), item)
           /\ ItemsOf(Append(w.buffer \o Entry(w, item), Footer)) = Append(ItemsOf(w.buffer), item)
           /\ ItemsOf(Append(w.buffer, Footer)) = ItemsOf(w.buffer)
           /\ ItemsOf(w.buffer) \in Seq(Int)
  <1> DEFINE b == w.buffer
             s == Append(b, LineSep)
             c == b \o Entry(w, item)
  <1>1. b \in Seq(Int) /\ s \in Seq(Int) /\ item \in Int /\ LineSep \in Int /\ Footer \in Int
    BY FileBounds, WriterFields, AppendProperties
  <1>2. Piece(LineSep) = << >> /\ Piece(Footer) = << >> /\ Piece(item) = <<item>>
    BY FileBounds DEF Piece
  <1>3. ItemsOf(b) \in Seq(Int) /\ ItemsOf(s) = ItemsOf(b)
        /\ ItemsOf(Append(b, Footer)) = ItemsOf(b)
    <2>1. ItemsOf(b) \in Seq(Int)
      BY <1>1, PiecesOf
    <2>2. ItemsOf(b) \o << >> = ItemsOf(b)
      BY <2>1, ConcatEmptySeq
    <2> QED BY <1>1, <1>2, <2>1, <2>2, ItemsOfAppend
  <1>4. c = Append(b, item) \/ c = Append(s, item)
    <2>1. b \o <<item>> = Append(b, item) /\ s \o <<item>> = Append(s, item)
          /\ s = b \o <<LineSep>>
      BY <1>1, AppendIsConcat
    <2>2. CASE ~w.written
      BY <2>1, <2>2 DEF Entry
    <2>3. CASE w.written
      <3>1. <<LineSep, item>> = Append(<<LineSep>>, item)
        OBVIOUS
      <3> HIDE DEF s
      <3>2. b \o Append(<<LineSep>>, item) = Append(b \o <<LineSep>>, item)
        BY <1>1
      <3> QED BY <2>1, <2>3, <3>1, <3>2 DEF Entry
    <2> QED BY <2>2, <2>3
  <1> HIDE DEF s, c
  <1>5. ItemsOf(c) = ItemsOf(b) \o <<item>> /\ c \in Seq(Int)
    <2>1. ItemsOf(Append(b, item)) = ItemsOf(b) \o <<item>>
          /\ ItemsOf(Append(s, item)) = ItemsOf(s) \o <<item>>
          /\ Append(b, item) \in Seq(Int) /\ Append(s, item) \in Seq(Int)
      BY <1>1, <1>2, ItemsOfAppend, AppendProperties
    <2> QED BY <1>3, <1>4, <2>1
  <1>6. ItemsOf(Append(c, Footer)) = ItemsOf(c)
    <2>1. ItemsOf(c) \in Seq(Int)
      BY <1>5, PiecesOf
    <2>2. ItemsOf(c) \o << >> = ItemsOf(c)
      BY <2>1, ConcatEmptySeq
    <2> QED BY <1>1, <1>2, <1>5, <2>2, ItemsOfAppend
  <1>7. ItemsOf(b) \o <<item>> = Append(ItemsOf(b), item)
    BY <1>1, <1>3, AppendIsConcat
  <1> QED BY <1>3, <1>5, <1>6, <1>7 DEF c


-----------------------------------------------------------------------------
(* Arrays.                                                                 *)

LEMMA Parity ==
    ASSUME NEW n \in Nat
    PROVE  (2 * n) % 2 = 0 /\ (2 * n + 1) % 2 = 1
  OBVIOUS

\* Two sequences, one behind the other: the second of one or two entries.
LEMMA EntryIs ==
    ASSUME NEW w \in FileWriter, NEW item \in Nat \ {0}
    PROVE  LET b == w.buffer   c == b \o Entry(w, item) IN
           /\ b \in Seq(Int) /\ c \in Seq(Int) /\ Len(b) \in Nat /\ c # << >>
           /\ Len(c) = IF w.written THEN Len(b) + 2 ELSE Len(b) + 1
           /\ \A k \in 1..Len(b) : c[k] = b[k]
           /\ c[Len(c)] = item
           /\ w.written => c[Len(b) + 1] = LineSep
  <1> DEFINE b == w.buffer
             e == Entry(w, item)
             c == b \o e
  <1>1. b \in Seq(Int) /\ Len(b) \in Nat /\ e \in Seq(Int)
    BY WriterFields, WithItemIs
  <1>2. /\ w.written => Len(e) = 2 /\ e[1] = LineSep /\ e[2] = item
        /\ ~w.written => Len(e) = 1 /\ e[1] = item
    BY DEF Entry
  <1> HIDE DEF b, e
  <1>3. /\ c \in Seq(Int) /\ Len(c) = Len(b) + Len(e)
        /\ \A k \in 1..(Len(b) + Len(e)) : c[k] = IF k <= Len(b) THEN b[k] ELSE e[k - Len(b)]
    BY <1>1, ConcatProperties
  <1> HIDE DEF c
  <1>4. Len(e) \in Nat /\ \A k \in 1..Len(b) : c[k] = b[k]
    BY <1>1, <1>3
  <1>5. CASE w.written
    <2>0. Len(e) = 2 /\ e[1] = LineSep /\ e[2] = item
      BY <1>2, <1>5, Zenon
    <2>1. Len(b) + 1 \in 1..(Len(b) + Len(e)) /\ Len(b) + 2 \in 1..(Len(b) + Len(e))
      BY <1>1, <2>0
    <2>2. c[Len(b) + 1] = LineSep /\ c[Len(b) + 2] = item
      <3>1. ~(Len(b) + 1 <= Len(b)) /\ (Len(b) + 1) - Len(b) = 1
            /\ ~(Len(b) + 2 <= Len(b)) /\ (Len(b) + 2) - Len(b) = 2
        BY <1>1
      <3>2. c[Len(b) + 1] = e[1]
        BY <1>3, <2>1, <3>1
      <3>3. c[Len(b) + 2] = e[2]
        BY <1>3, <2>1, <3>1
      <3> QED BY <2>0, <3>2, <3>3
    <2>3. Len(c) = Len(b) + 2 /\ c # << >>
      BY <1>1, <1>3, <2>0
    <2> QED BY <1>1, <1>3, <1>4, <1>5, <2>2, <2>3 DEF b, c, e
  <1>6. CASE ~w.written
    <2>0. Len(e) = 1 /\ e[1] = item
      BY <1>2, <1>6, Zenon
    <2>1. Len(b) + 1 \in 1..(Len(b) + Len(e))
      BY <1>1, <2>0
    <2>2. c[Len(b) + 1] = item
      BY <1>1, <1>3, <2>0, <2>1
    <2>3. Len(c) = Len(b) + 1 /\ c # << >>
      BY <1>1, <1>3, <2>0
    <2> QED BY <1>1, <1>3, <1>4, <1>6, <2>2, <2>3 DEF b, c, e
  <1> QED BY <1>5, <1>6

LEMMA BegunGrows ==
    ASSUME NEW w \in FileWriter, NEW item \in Nat \ {0}, Begun(w.buffer, w.written)
    PROVE  Begun(w.buffer \o Entry(w, item), TRUE)
  <1> DEFINE b == w.buffer
             c == b \o Entry(w, item)
  <1>1. /\ b \in Seq(Int) /\ c \in Seq(Int) /\ Len(b) \in Nat
        /\ Len(c) = IF w.written THEN Len(b) + 2 ELSE Len(b) + 1
        /\ \A k \in 1..Len(b) : c[k] = b[k]
        /\ c[Len(c)] = item
        /\ w.written => c[Len(b) + 1] = LineSep
    BY EntryIs
  <1>2. Begun(b, w.written)
    OBVIOUS
  <1> HIDE DEF b, c
  <1>3. Len(b) >= 1 /\ c[1] = Header /\ Len(c) >= 1
    <2>1. Len(b) >= 1 /\ b[1] = Header
      BY <1>2 DEF Begun
    <2>2. 1 \in 1..Len(b)
      BY <1>1, <2>1
    <2> QED BY <1>1, <2>1, <2>2
  <1>4. \A k \in 2..Len(b) : IF k % 2 = 0 THEN c[k] > 0 ELSE c[k] = LineSep
    <2>1. \A k \in 2..Len(b) : IF k % 2 = 0 THEN b[k] > 0 ELSE b[k] = LineSep
      BY <1>2 DEF Begun
    <2>2. \A k \in 2..Len(b) : k \in 1..Len(b)
      BY <1>1
    <2> QED BY <1>1, <2>1, <2>2
  <1>5. CASE w.written
    <2>1. PICK n \in 1..Len(b) : Len(b) = 2 * n
      BY <1>2, <1>5 DEF Begun
    <2>0. Len(c) = Len(b) + 2 /\ c[Len(b) + 1] = LineSep
      BY <1>1, <1>5, Zenon
    <2>2. n \in Nat /\ n + 1 \in Nat /\ Len(c) = 2 * (n + 1) /\ n + 1 \in 1..Len(c)
      BY <1>1, <2>0, <2>1
    <2>3. (2 * n + 1) % 2 = 1 /\ (2 * (n + 1)) % 2 = 0
      BY <2>2, Parity
    <2>4. \A k \in 2..Len(c) : k \in 2..Len(b) \/ k = 2 * n + 1 \/ k = 2 * (n + 1)
      BY <1>1, <2>1, <2>2
    <2>5. \A k \in 2..Len(c) : IF k % 2 = 0 THEN c[k] > 0 ELSE c[k] = LineSep
      <3>1. c[2 * n + 1] = LineSep /\ c[2 * (n + 1)] = item
        BY <1>1, <2>0, <2>1, <2>2
      <3>2. ASSUME NEW k \in 2..Len(c)
            PROVE  IF k % 2 = 0 THEN c[k] > 0 ELSE c[k] = LineSep
        <4>1. CASE k \in 2..Len(b)
          BY <1>4, <4>1
        <4>2. CASE k = 2 * n + 1
          BY <2>3, <3>1, <4>2
        <4>3. CASE k = 2 * (n + 1)
          <5>1. k % 2 = 0 /\ c[k] = item
            BY <2>3, <3>1, <4>3
          <5> QED BY <1>4, <5>1
        <4> QED BY <2>4, <4>1, <4>2, <4>3
      <3> QED BY <3>2
    <2> QED BY <1>3, <2>2, <2>5 DEF Begun, b, c
  <1>6. CASE ~w.written
    <2>1. Len(b) = 1 /\ Len(c) = 2
      <3>1. Len(b) = 1 /\ Len(c) = Len(b) + 1
        BY <1>1, <1>2, <1>6, Zenon DEF Begun
      <3> QED BY <3>1
    <2>2. \A k \in 2..Len(c) : k = 2
      BY <2>1
    <2>3. 2 % 2 = 0 /\ 2 = 2 * 1 /\ 1 \in 1..Len(c) /\ Len(c) = 2 * 1
      BY <2>1
    <2>4. \A k \in 2..Len(c) : IF k % 2 = 0 THEN c[k] > 0 ELSE c[k] = LineSep
      BY <1>1, <2>1, <2>2, <2>3
    <2> QED BY <1>3, <2>3, <2>4 DEF Begun, b, c
  <1> QED BY <1>5, <1>6

LEMMA BegunEnds ==
    ASSUME NEW b \in Seq(Int), NEW written \in BOOLEAN, Begun(b, written)
    PROVE  WellFormed(Append(b, Footer))
  <1> DEFINE c == Append(b, Footer)
  <1>1. /\ c \in Seq(Int) /\ Len(c) = Len(b) + 1 /\ c[Len(b) + 1] = Footer /\ Len(b) \in Nat
        /\ \A k \in 1..Len(b) : c[k] = b[k]
    BY FileBounds, AppendProperties, LenProperties
  <1> HIDE DEF c
  <1>2. Len(b) >= 1 /\ c[1] = Header
    <2>1. Len(b) >= 1 /\ b[1] = Header
      BY DEF Begun
    <2>2. 1 \in 1..Len(b)
      BY <1>1, <2>1
    <2> QED BY <1>1, <2>1, <2>2
  <1>3. \A k \in 2..(Len(c) - 1) : IF k % 2 = 0 THEN c[k] > 0 ELSE c[k] = LineSep
    <2>1. \A k \in 2..Len(b) : IF k % 2 = 0 THEN b[k] > 0 ELSE b[k] = LineSep
      BY DEF Begun
    <2>2. \A k \in 2..(Len(c) - 1) : k \in 1..Len(b) /\ k \in 2..Len(b)
      BY <1>1
    <2> QED BY <1>1, <2>1, <2>2
  <1>4. Len(c) = 2 \/ \E n \in 1..Len(c) : Len(c) = 2 * n + 1
    <2>1. CASE written
      <3>1. PICK n \in 1..Len(b) : Len(b) = 2 * n
        BY <2>1 DEF Begun
      <3>2. n \in 1..Len(c) /\ Len(c) = 2 * n + 1
        BY <1>1, <3>1
      <3> QED BY <3>2
    <2>2. CASE ~written
      <3>1. Len(b) = 1
        BY <2>2 DEF Begun
      <3> QED BY <1>1, <3>1
    <2> QED BY <2>1, <2>2
  <1>5. c[Len(c)] = Footer
    BY <1>1
  <1> QED BY <1>2, <1>3, <1>4, <1>5 DEF WellFormed, c

LEMMA BegunAtFirst == Begun(<<Header>>, FALSE)
  <1>1. Len(<<Header>>) = 1 /\ <<Header>>[1] = Header /\ 2..1 = {}
    OBVIOUS
  <1> QED BY <1>1 DEF Begun

-----------------------------------------------------------------------------
(* What all writers have of items.                                         *)

HeldIn(w, d) == ItemsOf(IF w.open THEN w.buffer ELSE d[w.name])
HeldList(ws, d) == [i \in DOMAIN ws |-> HeldIn(ws[i], d)]
Disks == [0..MaxClock -> Seq(Int)]

LEMMA HeldInType ==
    ASSUME NEW w \in FileWriter, NEW d \in Disks
    PROVE  HeldIn(w, d) \in Seq(Int) /\ d[w.name] \in Seq(Int)
  <1>1. w.buffer \in Seq(Int) /\ d[w.name] \in Seq(Int)
    BY WriterFields DEF Disks
  <1> QED BY <1>1, PiecesOf DEF HeldIn

LEMMA HeldListIs ==
    ASSUME NEW ws \in Seq(FileWriter), NEW d \in Disks
    PROVE  /\ HeldList(ws, d) \in Seq(Seq(Int)) /\ Len(HeldList(ws, d)) = Len(ws)
           /\ \A i \in 1..Len(ws) : HeldList(ws, d)[i] = HeldIn(ws[i], d)
  <1>1. DOMAIN ws = 1..Len(ws) /\ Len(ws) \in Nat /\ \A i \in 1..Len(ws) : ws[i] \in FileWriter
    OBVIOUS
  <1>2. \A i \in 1..Len(ws) : HeldIn(ws[i], d) \in Seq(Int)
    BY <1>1, HeldInType
  <1>3. HeldList(ws, d) \in [1..Len(ws) -> Seq(Int)]
    BY <1>1, <1>2 DEF HeldList
  <1>4. HeldList(ws, d) \in Seq(Seq(Int)) /\ Len(HeldList(ws, d)) = Len(ws)
    BY <1>1, <1>3
  <1> QED BY <1>1, <1>4 DEF HeldList

LEMMA HeldSame ==
    ASSUME NEW ws \in Seq(FileWriter), NEW d \in Disks, NEW vs \in Seq(FileWriter), NEW e \in Disks,
           Len(vs) = Len(ws), \A i \in 1..Len(ws) : HeldIn(vs[i], e) = HeldIn(ws[i], d)
    PROVE  FlattenSeq(HeldList(vs, e)) = FlattenSeq(HeldList(ws, d))
  <1>1. DOMAIN ws = 1..Len(ws) /\ DOMAIN vs = 1..Len(ws)
    BY LenProperties
  <1>2. HeldList(vs, e) = HeldList(ws, d)
    BY <1>1 DEF HeldList
  <1> QED BY <1>2

LEMMA HeldNew ==
    ASSUME NEW ws \in Seq(FileWriter), NEW d \in Disks, NEW w \in FileWriter, NEW e \in Disks,
           \A i \in 1..Len(ws) : HeldIn(ws[i], e) = HeldIn(ws[i], d), HeldIn(w, e) = << >>
    PROVE  FlattenSeq(HeldList(Append(ws, w), e)) = FlattenSeq(HeldList(ws, d))
  <1> DEFINE vs == Append(ws, w)
             p == HeldList(ws, d)
             q == HeldList(vs, e)
  <1>1. /\ vs \in Seq(FileWriter) /\ Len(vs) = Len(ws) + 1 /\ vs[Len(ws) + 1] = w
        /\ Len(ws) \in Nat /\ \A i \in 1..Len(ws) : vs[i] = ws[i]
    BY AppendProperties, LenProperties
  <1> HIDE DEF vs
  <1>2. /\ p \in Seq(Seq(Int)) /\ Len(p) = Len(ws)
        /\ \A i \in 1..Len(ws) : p[i] = HeldIn(ws[i], d)
    BY HeldListIs
  <1>3. /\ q \in Seq(Seq(Int)) /\ Len(q) = Len(vs)
        /\ \A i \in 1..Len(vs) : q[i] = HeldIn(vs[i], e)
    BY <1>1, HeldListIs
  <1> HIDE DEF p, q
  <1>4. Len(q) = Len(p) + 1 /\ \A k \in 1..Len(p) : q[k] = p[k]
    <2>1. \A k \in 1..Len(p) : k \in 1..Len(vs)
      BY <1>1, <1>2
    <2> QED BY <1>1, <1>2, <1>3, <2>1
  <1>5. q = Append(p, q[Len(q)])
    BY <1>2, <1>3, <1>4, OneMoreIs
  <1>6. q[Len(q)] = << >>
    <2>1. Len(q) \in 1..Len(vs) /\ Len(q) = Len(ws) + 1
      BY <1>1, <1>3
    <2> QED BY <1>1, <1>3, <2>1
  <1>7. << >> \in Seq(Int) /\ FlattenSeq(p) \in Seq(Int)
    BY <1>2, FlattenType
  <1>8. FlattenSeq(q) = FlattenSeq(p) \o << >>
    BY <1>2, <1>5, <1>6, <1>7, FlattenAppend
  <1> QED BY <1>7, <1>8, ConcatEmptySeq DEF p, q, vs

\* The last of the sequences gets one more.
LEMMA FlattenLast ==
    ASSUME NEW p \in Seq(Seq(Int)), NEW q \in Seq(Seq(Int)), NEW x \in Int,
           Len(q) = Len(p), Len(p) >= 1, \A k \in 1..(Len(p) - 1) : q[k] = p[k],
           q[Len(p)] = Append(p[Len(p)], x)
    PROVE  FlattenSeq(q) = Append(FlattenSeq(p), x)
  <1> DEFINE n == Len(p)
             f == SubSeq(p, 1, n - 1)
             g == SubSeq(q, 1, n - 1)
             a == p[n]
             b == q[n]
             F == FlattenSeq(f)
  <1>1. n \in Nat /\ n - 1 \in 0..(Len(p) - 1) /\ n - 1 \in 0..(Len(q) - 1) /\ (n - 1) + 1 = n
    OBVIOUS
  <1>2. p = Append(f, a) /\ q = Append(g, b) /\ f \in Seq(Seq(Int)) /\ a \in Seq(Int)
        /\ g \in Seq(Seq(Int)) /\ b \in Seq(Int)
    <2>1. /\ SubSeq(p, 1, Len(p)) = p /\ SubSeq(q, 1, Len(q)) = q
          /\ SubSeq(p, 1, (n - 1) + 1) = Append(f, p[(n - 1) + 1])
          /\ SubSeq(q, 1, (n - 1) + 1) = Append(g, q[(n - 1) + 1])
          /\ f \in Seq(Seq(Int)) /\ g \in Seq(Seq(Int))
          /\ p[(n - 1) + 1] \in Seq(Int) /\ q[(n - 1) + 1] \in Seq(Int)
      BY <1>1, FirstOnes
    <2> HIDE DEF f, g
    <2> QED BY <1>1, <2>1
  <1>3. f = g
    <2>1. Len(f) = n - 1 /\ Len(g) = n - 1 /\ \A k \in 1..(n - 1) : f[k] = p[k] /\ g[k] = q[k]
      OBVIOUS
    <2>2. f \in Seq(Seq(Int)) /\ g \in Seq(Seq(Int))
      BY <1>2
    <2> HIDE DEF f, g
    <2>3. \A k \in 1..Len(f) : f[k] = g[k]
      BY <2>1
    <2>4. Len(f) = Len(g)
      BY <2>1
    <2> QED BY <2>2, <2>3, <2>4, SeqEqual
  <1>4. b = a \o <<x>> /\ <<x>> \in Seq(Int)
    <2>1. b = Append(a, x) /\ a \in Seq(Int)
      BY <1>2
    <2> HIDE DEF a, b
    <2> QED BY <2>1, AppendIsConcat
  <1> HIDE DEF f, g, a, b
  <1>5. FlattenSeq(p) = F \o a /\ FlattenSeq(q) = F \o b /\ F \in Seq(Int)
    BY <1>2, <1>3, FlattenAppend, FlattenType
  <1> HIDE DEF F
  <1>6. F \o (a \o <<x>>) = (F \o a) \o <<x>>
    <2>0. F \in Seq(Int) /\ a \in Seq(Int) /\ <<x>> \in Seq(Int)
      BY <1>2, <1>4, <1>5
    <2> DEFINE t == <<x>>
    <2>1. t \in Seq(Int)
      BY <2>0
    <2> HIDE DEF t
    <2>2. Cat(Cat(F, a), t) = Cat(F, Cat(a, t))
      BY <2>0, <2>1, CatAssociative
    <2> QED BY <2>2 DEF Cat, t
  <1>7. F \o a \in Seq(Int)
    BY <1>2, <1>5, ConcatProperties
  <1>8. Append(F \o a, x) = (F \o a) \o <<x>>
    BY <1>7, AppendIsConcat
  <1> QED BY <1>4, <1>5, <1>6, <1>8

LEMMA HeldLast ==
    ASSUME NEW ws \in Seq(FileWriter), NEW d \in Disks, NEW vs \in Seq(FileWriter), NEW e \in Disks,
           NEW x \in Int, Len(vs) = Len(ws), Len(ws) >= 1,
           \A i \in 1..(Len(ws) - 1) : HeldIn(vs[i], e) = HeldIn(ws[i], d),
           HeldIn(vs[Len(ws)], e) = Append(HeldIn(ws[Len(ws)], d), x)
    PROVE  FlattenSeq(HeldList(vs, e)) = Append(FlattenSeq(HeldList(ws, d)), x)
  <1> DEFINE p == HeldList(ws, d)
             q == HeldList(vs, e)
  <1>1. /\ p \in Seq(Seq(Int)) /\ Len(p) = Len(ws) /\ q \in Seq(Seq(Int)) /\ Len(q) = Len(ws)
        /\ \A i \in 1..Len(ws) : p[i] = HeldIn(ws[i], d) /\ q[i] = HeldIn(vs[i], e)
    BY HeldListIs
  <1> HIDE DEF p, q
  <1>2. Len(ws) \in 1..Len(ws) /\ \A i \in 1..(Len(ws) - 1) : i \in 1..Len(ws)
    BY LenProperties
  <1>3. /\ Len(q) = Len(p) /\ Len(p) >= 1 /\ \A k \in 1..(Len(p) - 1) : q[k] = p[k]
        /\ q[Len(p)] = Append(p[Len(p)], x)
    BY <1>1, <1>2
  <1>4. FlattenSeq(q) = Append(FlattenSeq(p), x)
    BY <1>1, <1>3, FlattenLast
  <1> QED BY <1>4 DEF p, q

LEMMA KeptIs ==
    /\ KeptInOrder <=> (~staleWrite /\ ~reused => FlattenSeq(HeldList(writers, disk)) = collected)
    /\ KeptInOrder' <=> (~staleWrite' /\ ~reused' => FlattenSeq(HeldList(writers', disk')) = collected')
  BY DEF KeptInOrder, HeldBy, HeldList, HeldIn


-----------------------------------------------------------------------------
(* Steps.                                                                  *)

LEMMA FileFacts ==
    ASSUME FileTypes
    PROVE  /\ writers \in Seq(FileWriter) /\ Len(writers) \in Nat
           /\ \A i \in 1..Len(writers) : writers[i] \in FileWriter
           /\ fws \in Nat /\ fws <= Len(writers) /\ (fws # 0 => fws \in 1..Len(writers))
           /\ disk \in Disks /\ \A n \in 0..MaxClock : disk[n] \in Seq(Int)
           /\ collector.item \in 0..MaxCollects /\ collector.item \in Nat
           /\ collector.writer \in 0..Len(writers)
           /\ closer.at \in RollSteps /\ closer.writer \in 0..Len(writers)
           /\ ticker \in RollSteps /\ collected \in Seq(1..MaxCollects)
  <1>1. writers \in Seq(FileWriter) /\ fws \in 0..Len(writers) /\ disk \in Disks
    BY DEF FileTypes, Disks
  <1>2. Len(writers) \in Nat /\ \A i \in 1..Len(writers) : writers[i] \in FileWriter
    BY <1>1
  <1>3. \A n \in 0..MaxClock : disk[n] \in Seq(Int)
    BY <1>1 DEF Disks
  <1>4. /\ collector.item \in 0..MaxCollects /\ collector.writer \in 0..Len(writers)
        /\ closer.at \in RollSteps /\ closer.writer \in 0..Len(writers)
        /\ ticker \in RollSteps /\ collected \in Seq(1..MaxCollects)
    BY DEF FileTypes
  <1> QED BY <1>1, <1>2, <1>3, <1>4, FileBounds

LEMMA OneWriter ==
    ASSUME FileTypes, NEW i \in 1..Len(writers), NEW r \in FileWriter,
           writers' = [writers EXCEPT ![i] = r]
    PROVE  /\ writers' \in Seq(FileWriter) /\ Len(writers') = Len(writers) /\ writers'[i] = r
           /\ \A j \in 1..Len(writers) : j # i => writers'[j] = writers[j]
           /\ writers[i] \in FileWriter
  BY FileFacts, ExceptSeq

\* The end of the array goes to the buffer of a writer.
LEMMA FooterFacts ==
    ASSUME FileTypes, NEW i \in 1..Len(writers),
           writers' = [writers EXCEPT ![i] = WithFooter(writers[i])], disk' = disk
    PROVE  /\ writers' \in Seq(FileWriter) /\ Len(writers') = Len(writers)
           /\ \A j \in 1..Len(writers) : /\ writers'[j].name = writers[j].name
                                         /\ writers'[j].count = writers[j].count
                                         /\ writers'[j].open = writers[j].open
                                         /\ writers'[j].written = writers[j].written
                                         /\ j # i => writers'[j] = writers[j]
           /\ writers'[i].buffer = Append(writers[i].buffer, Footer)
           /\ writers'[i].buffer # << >>
           /\ FlattenSeq(HeldList(writers', disk')) = FlattenSeq(HeldList(writers, disk))
  <1> DEFINE r == WithFooter(writers[i])
  <1>1. writers[i] \in FileWriter
    BY FileFacts
  <1>2. /\ r \in FileWriter /\ r.name = writers[i].name /\ r.count = writers[i].count
        /\ r.open = writers[i].open /\ r.written = writers[i].written
        /\ r.buffer = Append(writers[i].buffer, Footer)
    BY <1>1, WithFooterIs
  <1> HIDE DEF r
  <1>3. /\ writers' \in Seq(FileWriter) /\ Len(writers') = Len(writers) /\ writers'[i] = r
        /\ \A j \in 1..Len(writers) : j # i => writers'[j] = writers[j]
    BY <1>2, OneWriter DEF r
  <1>4. \A j \in 1..Len(writers) : /\ writers'[j].name = writers[j].name
                                   /\ writers'[j].count = writers[j].count
                                   /\ writers'[j].open = writers[j].open
                                   /\ writers'[j].written = writers[j].written
                                   /\ j # i => writers'[j] = writers[j]
    BY <1>2, <1>3
  <1>5. writers'[i].buffer = Append(writers[i].buffer, Footer)
    BY <1>2, <1>3
  <1>6. writers'[i].buffer # << >>
    BY <1>1, <1>5, WriterFields, AppendProperties, FileBounds
  <1>7. \A j \in 1..Len(writers) : HeldIn(writers'[j], disk) = HeldIn(writers[j], disk)
    <2> SUFFICES ASSUME NEW j \in 1..Len(writers)
                 PROVE  HeldIn(writers'[j], disk) = HeldIn(writers[j], disk)
      OBVIOUS
    <2>1. CASE j # i
      BY <1>4, <2>1
    <2>2. CASE j = i
      <3>1. 1 \in Nat \ {0}
        OBVIOUS
      <3>2. ItemsOf(Append(writers[i].buffer, Footer)) = ItemsOf(writers[i].buffer)
        BY <1>1, <3>1, ItemsOfWritten
      <3>3. writers'[i].open = writers[i].open /\ writers'[i].name = writers[i].name
        BY <1>4
      <3>4. CASE writers[i].open
        <4>1. HeldIn(writers'[i], disk) = ItemsOf(writers'[i].buffer)
              /\ HeldIn(writers[i], disk) = ItemsOf(writers[i].buffer)
          BY <3>3, <3>4 DEF HeldIn
        <4> QED BY <1>5, <2>2, <3>2, <4>1
      <3>5. CASE ~writers[i].open
        <4>1. HeldIn(writers'[i], disk) = ItemsOf(disk[writers'[i].name])
              /\ HeldIn(writers[i], disk) = ItemsOf(disk[writers[i].name])
          BY <3>3, <3>5 DEF HeldIn
        <4> QED BY <2>2, <3>3, <4>1
      <3> QED BY <3>4, <3>5
    <2> QED BY <2>1, <2>2
  <1>8. FlattenSeq(HeldList(writers', disk)) = FlattenSeq(HeldList(writers, disk))
    BY <1>3, <1>7, FileFacts, HeldSame
  <1> QED BY <1>3, <1>4, <1>5, <1>6, <1>8

LEMMA FlushedIs ==
    ASSUME FileTypes, NEW w \in FileWriter, w.open => disk[w.name] = << >>
    PROVE  /\ Flushed(w) \in Disks /\ Flushed(w) \in [0..MaxClock -> Seq(Int)]
           /\ \A n \in 0..MaxClock : Flushed(w)[n] = IF w.open /\ n = w.name THEN w.buffer ELSE disk[n]
  <1>1. /\ disk \in [0..MaxClock -> Seq(Int)] /\ w.name \in 0..MaxClock /\ w.buffer \in Seq(Int)
    BY WriterFields DEF FileTypes
  <1>2. CASE w.open
    <2> DEFINE b == << >> \o w.buffer
    <2>1. b = w.buffer
      BY <1>1, ConcatEmptySeq
    <2>2. Flushed(w) = [disk EXCEPT ![w.name] = b]
      BY <1>2 DEF Flushed
    <2> HIDE DEF b
    <2>3. Flushed(w) \in [0..MaxClock -> Seq(Int)]
          /\ \A n \in 0..MaxClock : Flushed(w)[n] = IF n = w.name THEN w.buffer ELSE disk[n]
      BY <1>1, <2>1, <2>2
    <2> QED BY <1>2, <2>3 DEF Disks
  <1>3. CASE ~w.open
    <2>1. Flushed(w) = disk
      BY <1>3 DEF Flushed
    <2> QED BY <1>1, <1>3, <2>1 DEF Disks
  <1> QED BY <1>2, <1>3

\* A writer is closed, after its buffer was flushed to its file.
LEMMA FlushFacts ==
    ASSUME FileTypes, OpenInv, NamesInv, NEW i \in 1..Len(writers),
           writers' = [writers EXCEPT ![i] = ClosedWriter(writers[i])], disk' = Flushed(writers[i])
    PROVE  /\ writers' \in Seq(FileWriter) /\ Len(writers') = Len(writers)
           /\ \A j \in 1..Len(writers) : /\ writers'[j].name = writers[j].name
                                         /\ writers'[j].count = writers[j].count
                                         /\ j # i => writers'[j] = writers[j]
           /\ ~writers'[i].open /\ writers[i] \in FileWriter
           /\ disk' \in Disks /\ disk' \in [0..MaxClock -> Seq(Int)]
           /\ \A n \in 0..MaxClock : disk'[n] = IF writers[i].open /\ n = writers[i].name
                                                THEN writers[i].buffer ELSE disk[n]
           /\ ~reused =>
                FlattenSeq(HeldList(writers', disk')) = FlattenSeq(HeldList(writers, disk))
  <1> DEFINE r == ClosedWriter(writers[i])
  <1>1. writers[i] \in FileWriter
    BY FileFacts
  <1>2. r \in FileWriter /\ r.name = writers[i].name /\ r.count = writers[i].count /\ ~r.open
    BY <1>1, ClosedWriterIs
  <1> HIDE DEF r
  <1>3. /\ writers' \in Seq(FileWriter) /\ Len(writers') = Len(writers) /\ writers'[i] = r
        /\ \A j \in 1..Len(writers) : j # i => writers'[j] = writers[j]
    BY <1>2, OneWriter DEF r
  <1>4. \A j \in 1..Len(writers) : /\ writers'[j].name = writers[j].name
                                   /\ writers'[j].count = writers[j].count
                                   /\ j # i => writers'[j] = writers[j]
    BY <1>2, <1>3
  <1>5. ~writers'[i].open
    BY <1>2, <1>3
  <1>6. writers[i].open => disk[writers[i].name] = << >>
    BY DEF OpenInv
  <1>7. /\ disk' \in Disks /\ disk' \in [0..MaxClock -> Seq(Int)]
        /\ \A n \in 0..MaxClock : disk'[n] = IF writers[i].open /\ n = writers[i].name
                                             THEN writers[i].buffer ELSE disk[n]
    BY <1>1, <1>6, FlushedIs
  <1>8. ASSUME ~reused, NEW j \in 1..Len(writers)
        PROVE  HeldIn(writers'[j], disk') = HeldIn(writers[j], disk)
    <2>1. writers[j] \in FileWriter /\ writers[j].name \in 0..MaxClock /\ writers[i].name \in 0..MaxClock
      BY FileFacts, <1>1, WriterFields
    <2>2. CASE j = i
      <3>1. disk'[writers[i].name] = IF writers[i].open THEN writers[i].buffer
                                     ELSE disk[writers[i].name]
        BY <1>7, <2>1
      <3>2. HeldIn(writers'[i], disk') = ItemsOf(disk'[writers[i].name])
        BY <1>4, <1>5 DEF HeldIn
      <3> QED BY <2>2, <3>1, <3>2 DEF HeldIn
    <2>3. CASE j # i
      <3>1. writers'[j] = writers[j] /\ writers[j].name # writers[i].name
        BY <1>4, <1>8, <2>3 DEF NamesInv
      <3>2. disk'[writers[j].name] = disk[writers[j].name]
        BY <1>7, <2>1, <3>1
      <3> QED BY <3>1, <3>2 DEF HeldIn
    <2> QED BY <2>2, <2>3
  <1>9. ASSUME ~reused
        PROVE  FlattenSeq(HeldList(writers', disk')) = FlattenSeq(HeldList(writers, disk))
    <2>1. \A j \in 1..Len(writers) : HeldIn(writers'[j], disk') = HeldIn(writers[j], disk)
      BY <1>8, <1>9
    <2> QED BY <1>3, <1>7, <2>1, FileFacts, HeldSame
  <1> QED BY <1>1, <1>3, <1>4, <1>5, <1>7, <1>9


LEMMA KeptSame ==
    ASSUME KeptInOrder, collected' = collected, staleWrite' = staleWrite, reused' = reused,
           ~reused => FlattenSeq(HeldList(writers', disk')) = FlattenSeq(HeldList(writers, disk))
    PROVE  KeptInOrder'
  BY KeptIs

\* Neither a writer nor a file changes, nor which writer the path has.
LEMMA FileQuiet ==
    ASSUME FileInv, FileTypes', RollInv',
           UNCHANGED <<disk, writers, fws, collector, collected, staleWrite, reused, rolledTwice>>,
           ticker' \in {"flush", "delete"} <=> ticker \in {"flush", "delete"},
           closer'.at \in {"flush", "delete"} <=> closer.at \in {"flush", "delete"},
           ticker' = "flush" <=> ticker = "flush", closer'.at = "flush" <=> closer.at = "flush"
    PROVE  FileInv'
  <1>1. OpenInv'
    BY DEF FileInv, OpenInv
  <1>2. RoomInv'
    BY DEF FileInv, RoomInv
  <1>3. WholeInv'
    BY DEF FileInv, WholeInv, FilesAreWhole
  <1>4. NamesInv'
    BY DEF FileInv, NamesInv
  <1>5. KeptInOrder'
    BY KeptSame DEF FileInv
  <1> QED BY <1>1, <1>2, <1>3, <1>4, <1>5 DEF FileInv

LEMMA FileStutters ==
    ASSUME FileInv, UNCHANGED fileVars
    PROVE  FileInv'
  <1>1. FileTypes'
    BY DEF FileInv, FileTypes, fileVars
  <1>2. RollInv'
    BY DEF FileInv, RollInv, fileVars
  <1> QED BY <1>1, <1>2, FileQuiet DEF fileVars

LEMMA TimePassesKeeps ==
    ASSUME FileInv, TimePasses
    PROVE  FileInv'
  <1>1. FileTypes'
    <2>1. fileClock' \in 1..MaxClock
      BY FileBounds DEF FileInv, FileTypes, TimePasses
    <2> QED BY <2>1 DEF FileInv, FileTypes, TimePasses
  <1>2. RollInv'
    BY DEF FileInv, RollInv, TimePasses
  <1> QED BY <1>1, <1>2, FileQuiet DEF TimePasses

LEMMA TickerEndsKeeps ==
    ASSUME FileInv, TickerEnds
    PROVE  FileInv'
  <1>1. FileTypes'
    BY FileBounds DEF FileInv, FileTypes, TickerEnds
  <1>2. RollInv'
    BY DEF FileInv, RollInv, TickerEnds
  <1> QED BY <1>1, <1>2, FileQuiet DEF TickerEnds

\* The path has no writer any more, and none is open.
LEMMA CloseDeleteKeeps ==
    ASSUME FileInv, CloseDelete
    PROVE  FileInv'
  <1>0. FileTypes /\ RollInv /\ OpenInv
    BY DEF FileInv
  <1>1. closer'.at = "done" /\ closer'.writer = closer.writer
    BY <1>0 DEF FileTypes, CloseDelete
  <1>2. FileTypes'
    <2>1. closer' \in [at : RollSteps, writer : 0..Len(writers)]
      BY <1>0, FileBounds DEF FileTypes, CloseDelete
    <2>2. fws' \in 0..Len(writers)
      BY <1>0, FileFacts DEF CloseDelete
    <2> QED BY <1>0, <2>1, <2>2 DEF FileTypes, CloseDelete
  <1>3. \A i \in 1..Len(writers) : ~writers[i].open
    BY <1>0 DEF OpenInv, RollInv, CloseDelete
  <1>4. OpenInv'
    BY <1>3 DEF OpenInv, CloseDelete
  <1>5. RollInv'
    BY <1>0, <1>1 DEF RollInv, CloseDelete
  <1>6. RoomInv'
    BY DEF FileInv, RoomInv, CloseDelete
  <1>7. WholeInv'
    BY <1>1, <1>3 DEF FileInv, WholeInv, FilesAreWhole, CloseDelete
  <1>8. NamesInv'
    BY DEF FileInv, NamesInv, CloseDelete
  <1>9. KeptInOrder'
    BY KeptSame DEF FileInv, CloseDelete
  <1> QED BY <1>2, <1>4, <1>5, <1>6, <1>7, <1>8, <1>9 DEF FileInv

LEMMA TickDeleteKeeps ==
    ASSUME FileInv, TickDelete
    PROVE  FileInv'
  <1>0. FileTypes /\ RollInv /\ OpenInv
    BY DEF FileInv
  <1>1. \A i \in 1..Len(writers) : ~writers[i].open
    BY <1>0 DEF OpenInv, RollInv, TickDelete
  <1>2. /\ writers' \in Seq(FileWriter) /\ Len(writers') = Len(writers)
        /\ \A i \in 1..Len(writers) : /\ writers'[i].name = writers[i].name
                                      /\ writers'[i].count = writers[i].count
                                      /\ ~writers'[i].open
    <2>1. CASE fws = 0
      <3>1. writers' = writers
        BY <2>1 DEF TickDelete
      <3> QED BY <1>0, <1>1, <3>1, FileFacts
    <2>2. CASE fws # 0
      <3> DEFINE r == [writers[fws] EXCEPT !.written = FALSE]
      <3>1. fws \in 1..Len(writers) /\ writers[fws] \in FileWriter
        BY <1>0, <2>2, FileFacts
      <3>2. r \in FileWriter /\ r.name = writers[fws].name /\ r.count = writers[fws].count
            /\ r.open = writers[fws].open
        <4> DEFINE w == writers[fws]
        <4>1. FALSE \in BOOLEAN /\ w \in FileWriter
          BY <3>1
        <4> HIDE DEF w
        <4>2. /\ [w EXCEPT !.written = FALSE] = [name |-> w.name, start |-> w.start,
                 count |-> w.count, written |-> FALSE, buffer |-> w.buffer, open |-> w.open]
              /\ [w EXCEPT !.written = FALSE] \in FileWriter
          BY <4>1, UnwrittenIs
        <4>3. r = [w EXCEPT !.written = FALSE]
          BY DEF w
        <4> HIDE DEF r
        <4> QED BY <4>2, <4>3 DEF w
      <3>3. writers' = [writers EXCEPT ![fws] = r]
        BY <2>2, <3>1 DEF TickDelete
      <3> HIDE DEF r
      <3>4. /\ writers' \in Seq(FileWriter) /\ Len(writers') = Len(writers) /\ writers'[fws] = r
            /\ \A j \in 1..Len(writers) : j # fws => writers'[j] = writers[j]
        BY <1>0, <3>1, <3>2, <3>3, OneWriter
      <3> QED BY <1>1, <3>1, <3>2, <3>4
    <2> QED BY <2>1, <2>2
  <1>3. FileTypes'
    <2>1. fws' \in 0..Len(writers)
      BY <1>0, FileFacts DEF TickDelete
    <2>2. collector' \in [item : 0..MaxCollects, writer : 0..Len(writers')]
          /\ closer' \in [at : RollSteps, writer : 0..Len(writers')]
      BY <1>0, <1>2 DEF FileTypes, TickDelete
    <2> QED BY <1>0, <1>2, <2>1, <2>2, FileBounds DEF FileTypes, TickDelete
  <1>4. OpenInv'
    BY <1>2 DEF OpenInv, TickDelete
  <1>5. RollInv'
    BY <1>0, <1>2 DEF RollInv, TickDelete
  <1>6. RoomInv'
    BY <1>0, <1>2 DEF FileInv, RoomInv, RollInv, TickDelete
  <1>7. WholeInv'
    BY <1>2 DEF FileInv, WholeInv, FilesAreWhole, TickDelete
  <1>8. NamesInv'
    BY <1>1, <1>2 DEF FileInv, NamesInv, TickDelete
  <1>9. KeptInOrder'
    <2>1. \A i \in 1..Len(writers) : HeldIn(writers'[i], disk) = HeldIn(writers[i], disk)
      BY <1>1, <1>2 DEF HeldIn
    <2>2. FlattenSeq(HeldList(writers', disk)) = FlattenSeq(HeldList(writers, disk))
      BY <1>0, <1>2, <2>1, FileFacts, HeldSame
    <2> QED BY <2>2, KeptSame DEF FileInv, TickDelete
  <1> QED BY <1>3, <1>4, <1>5, <1>6, <1>7, <1>8, <1>9 DEF FileInv


\* What CloseFooter and TickFooter have in common: the writer of the path, which is open,
\* gets the end of its array.
LEMMA FooterKeeps ==
    ASSUME FileInv, fws # 0, writers[fws].open,
           writers' = [writers EXCEPT ![fws] = WithFooter(writers[fws])],
           UNCHANGED <<disk, fws, collector, collected, staleWrite, reused>>,
           ~rolledTwice' =>
               /\ ~rolledTwice
               /\ ticker \notin {"flush", "delete"} /\ closer.at \notin {"flush", "delete"}
               /\ ticker' = "flush" \/ closer'.at = "flush"
               /\ ~(ticker' \in {"flush", "delete"} /\ closer'.at \in {"flush", "delete"})
    PROVE  OpenInv' /\ RoomInv' /\ WholeInv' /\ NamesInv' /\ KeptInOrder'
  <1>0. FileTypes /\ OpenInv /\ fws \in 1..Len(writers) /\ disk' = disk
    BY FileFacts DEF FileInv
  <1>1. /\ writers' \in Seq(FileWriter) /\ Len(writers') = Len(writers)
        /\ \A j \in 1..Len(writers) : /\ writers'[j].name = writers[j].name
                                      /\ writers'[j].count = writers[j].count
                                      /\ writers'[j].open = writers[j].open
                                      /\ writers'[j].written = writers[j].written
                                      /\ j # fws => writers'[j] = writers[j]
        /\ writers'[fws].buffer = Append(writers[fws].buffer, Footer)
        /\ writers'[fws].buffer # << >>
        /\ FlattenSeq(HeldList(writers', disk')) = FlattenSeq(HeldList(writers, disk))
    BY <1>0, FooterFacts
  <1>2. OpenInv'
    BY <1>0, <1>1 DEF OpenInv
  <1>3. RoomInv'
    BY <1>0, <1>1, FileFacts DEF FileInv, RoomInv
  <1>4. WholeInv'
    <2> SUFFICES ASSUME ~rolledTwice'
                 PROVE  /\ \A i \in 1..Len(writers) : writers[i].open => WellFormed(writers'[i].buffer)
                        /\ FilesAreWhole'
      BY <1>1 DEF WholeInv
    <2>1. \A i \in 1..Len(writers) : writers[i].open => i = fws
      BY <1>0 DEF OpenInv
    <2>2. ticker # "flush" /\ closer.at # "flush" /\ ~rolledTwice
      OBVIOUS
    <2>3. Begun(writers[fws].buffer, writers[fws].written) /\ FilesAreWhole
      BY <1>0, <2>2 DEF FileInv, WholeInv
    <2>4. writers[fws].buffer \in Seq(Int) /\ writers[fws].written \in BOOLEAN
      BY <1>0, FileFacts, WriterFields
    <2>5. WellFormed(Append(writers[fws].buffer, Footer))
      BY <2>3, <2>4, BegunEnds
    <2>6. FilesAreWhole'
      BY <1>0, <2>2, <2>3 DEF FilesAreWhole
    <2>7. WellFormed(writers'[fws].buffer)
      BY <1>1, <2>5
    <2> QED BY <2>1, <2>6, <2>7
  <1>5. NamesInv'
    BY <1>0, <1>1 DEF FileInv, NamesInv
  <1>6. KeptInOrder'
    BY <1>1, KeptSame DEF FileInv
  <1> QED BY <1>2, <1>3, <1>4, <1>5, <1>6

\* It is closed already: two of them are rolling it.
LEMMA FooterKeepsClosed ==
    ASSUME FileInv, fws # 0, ~writers[fws].open, rolledTwice',
           writers' = [writers EXCEPT ![fws] = WithFooter(writers[fws])],
           UNCHANGED <<disk, fws, collector, collected, staleWrite, reused>>
    PROVE  OpenInv' /\ RoomInv' /\ WholeInv' /\ NamesInv' /\ KeptInOrder'
  <1>0. FileTypes /\ OpenInv /\ fws \in 1..Len(writers) /\ disk' = disk
    BY FileFacts DEF FileInv
  <1>1. /\ writers' \in Seq(FileWriter) /\ Len(writers') = Len(writers)
        /\ \A j \in 1..Len(writers) : /\ writers'[j].name = writers[j].name
                                      /\ writers'[j].count = writers[j].count
                                      /\ writers'[j].open = writers[j].open
                                      /\ writers'[j].written = writers[j].written
                                      /\ j # fws => writers'[j] = writers[j]
        /\ FlattenSeq(HeldList(writers', disk')) = FlattenSeq(HeldList(writers, disk))
    BY <1>0, FooterFacts
  <1>2. OpenInv'
    BY <1>0, <1>1 DEF OpenInv
  <1>3. RoomInv'
    BY <1>0, <1>1, FileFacts DEF FileInv, RoomInv
  <1>4. WholeInv'
    BY DEF WholeInv
  <1>5. NamesInv'
    BY <1>0, <1>1 DEF FileInv, NamesInv
  <1>6. KeptInOrder'
    BY <1>1, KeptSame DEF FileInv
  <1> QED BY <1>2, <1>3, <1>4, <1>5, <1>6

LEMMA TickFooterKeeps ==
    ASSUME FileInv, TickFooter
    PROVE  FileInv'
  <1>0. FileTypes /\ RollInv /\ OpenInv /\ fws # 0 /\ fws \in 1..Len(writers)
    BY FileFacts DEF FileInv, TickFooter
  <1>2. writers' = [writers EXCEPT ![fws] = WithFooter(writers[fws])] /\ disk' = disk
    BY DEF TickFooter
  <1>3. /\ writers' \in Seq(FileWriter) /\ Len(writers') = Len(writers)
        /\ \A j \in 1..Len(writers) : writers'[j].open = writers[j].open
    BY <1>0, <1>2, FooterFacts
  <1>4. OpenInv' /\ RoomInv' /\ WholeInv' /\ NamesInv' /\ KeptInOrder'
    <2>1. CASE writers[fws].open
      <3>1. ~rolledTwice' => closer.at \notin {"flush", "delete"} /\ ~rolledTwice
        BY DEF TickFooter
      <3> QED BY <1>0, <1>2, <2>1, <3>1, FooterKeeps DEF TickFooter
    <2>2. CASE ~writers[fws].open
      <3>1. closer.at \in {"flush", "delete"} /\ rolledTwice'
        BY <1>0, <2>2 DEF RollInv, TickFooter
      <3> QED BY <1>0, <1>2, <2>2, <3>1, FooterKeepsClosed DEF TickFooter
    <2> QED BY <2>1, <2>2
  <1>5. FileTypes'
    <2>1. collector' \in [item : 0..MaxCollects, writer : 0..Len(writers')]
          /\ closer' \in [at : RollSteps, writer : 0..Len(writers')]
      BY <1>0, <1>3 DEF FileTypes, TickFooter
    <2>2. fws' \in 0..Len(writers') /\ rolledTwice' \in BOOLEAN /\ ticker' \in RollSteps
      BY <1>0, <1>3, FileFacts, FileBounds DEF FileTypes, TickFooter
    <2> QED BY <1>0, <1>3, <2>1, <2>2 DEF FileTypes, TickFooter
  <1>6. RollInv'
    BY <1>0, <1>3 DEF RollInv, TickFooter
  <1> QED BY <1>4, <1>5, <1>6 DEF FileInv

LEMMA CloseFooterKeeps ==
    ASSUME FileInv, CloseFooter
    PROVE  FileInv'
  <1>0. FileTypes /\ RollInv /\ OpenInv
    BY DEF FileInv
  <1>1. CASE fws = 0
    <2>1. closer' = [at |-> "done", writer |-> 0] /\ writers' = writers
      BY <1>1 DEF CloseFooter
    <2>2. closer'.at = "done" /\ closer'.writer = 0
      BY <2>1
    <2>3. FileTypes'
      <3>1. closer' \in [at : RollSteps, writer : 0..Len(writers)]
        BY <1>0, <2>1, FileBounds, FileFacts
      <3>2. rolledTwice' \in BOOLEAN
        BY <1>0, <1>1 DEF FileTypes, CloseFooter
      <3> QED BY <1>0, <2>1, <3>1, <3>2 DEF FileTypes, CloseFooter
    <2>4. RollInv'
      BY <1>0, <1>1, <2>1, <2>2 DEF RollInv, CloseFooter
    <2>5. rolledTwice' = rolledTwice
      BY <1>0, <1>1 DEF FileTypes, CloseFooter
    <2>6. closer.at = "idle"
      BY DEF CloseFooter
    <2> QED BY <2>1, <2>2, <2>3, <2>4, <2>5, <2>6, FileQuiet DEF CloseFooter
  <1>2. CASE fws # 0
    <2>0. fws \in 1..Len(writers) /\ disk' = disk
      BY <1>0, <1>2, FileFacts DEF CloseFooter
    <2>1. /\ closer' = [at |-> "flush", writer |-> fws]
          /\ writers' = [writers EXCEPT ![fws] = WithFooter(writers[fws])]
      BY <1>2 DEF CloseFooter
    <2>2. closer'.at = "flush" /\ closer'.writer = fws
      BY <2>1
    <2>3. /\ writers' \in Seq(FileWriter) /\ Len(writers') = Len(writers)
          /\ \A j \in 1..Len(writers) : writers'[j].open = writers[j].open
      BY <1>0, <2>0, <2>1, FooterFacts
    <2>4. FileTypes'
      <3>1. closer' \in [at : RollSteps, writer : 0..Len(writers')]
        BY <1>0, <2>0, <2>1, <2>3, FileBounds
      <3>2. collector' \in [item : 0..MaxCollects, writer : 0..Len(writers')]
        BY <1>0, <2>3 DEF FileTypes, CloseFooter
      <3>3. fws' \in 0..Len(writers') /\ rolledTwice' \in BOOLEAN
        BY <1>0, <2>3 DEF FileTypes, CloseFooter
      <3> QED BY <1>0, <2>3, <3>1, <3>2, <3>3 DEF FileTypes, CloseFooter
    <2>5. RollInv'
      BY <1>0, <1>2, <2>0, <2>2, <2>3 DEF RollInv, CloseFooter
    <2>6. CASE writers[fws].open
      <3>1. OpenInv' /\ RoomInv' /\ WholeInv' /\ NamesInv' /\ KeptInOrder'
        BY <1>2, <2>1, <2>2, <2>6, FooterKeeps DEF FileInv, WholeInv, CloseFooter
      <3> QED BY <2>4, <2>5, <3>1 DEF FileInv
    <2>7. CASE ~writers[fws].open
      <3>1. ticker = "delete" /\ rolledTwice'
        BY <1>0, <1>2, <2>7 DEF RollInv, CloseFooter
      <3>2. OpenInv' /\ RoomInv' /\ WholeInv' /\ NamesInv' /\ KeptInOrder'
        BY <1>2, <2>1, <2>7, <3>1, FooterKeepsClosed DEF CloseFooter
      <3> QED BY <2>4, <2>5, <3>2 DEF FileInv
    <2> QED BY <2>6, <2>7
  <1> QED BY <1>1, <1>2


\* What CloseFlush and TickFlush have in common.
LEMMA FlushKeeps ==
    ASSUME FileInv, NEW i \in 1..Len(writers), fws \in {0, i},
           writers' = [writers EXCEPT ![i] = ClosedWriter(writers[i])], disk' = Flushed(writers[i]),
           UNCHANGED <<fws, collector, collected, staleWrite, reused, rolledTwice>>,
           ticker = "flush" \/ closer.at = "flush",
           ticker' \in {"flush", "delete"} <=> ticker \in {"flush", "delete"},
           closer'.at \in {"flush", "delete"} <=> closer.at \in {"flush", "delete"}
    PROVE  OpenInv' /\ RoomInv' /\ WholeInv' /\ NamesInv' /\ KeptInOrder'
  <1>0. FileTypes /\ OpenInv /\ NamesInv /\ Len(writers) \in Nat
    BY FileFacts DEF FileInv
  <1>1. /\ writers' \in Seq(FileWriter) /\ Len(writers') = Len(writers)
        /\ \A j \in 1..Len(writers) : /\ writers'[j].name = writers[j].name
                                      /\ writers'[j].count = writers[j].count
                                      /\ j # i => writers'[j] = writers[j]
        /\ ~writers'[i].open /\ writers[i] \in FileWriter
        /\ \A n \in 0..MaxClock : disk'[n] = IF writers[i].open /\ n = writers[i].name
                                             THEN writers[i].buffer ELSE disk[n]
        /\ ~reused =>
             FlattenSeq(HeldList(writers', disk')) = FlattenSeq(HeldList(writers, disk))
    BY <1>0, FlushFacts
  <1>2. \A j \in 1..Len(writers) : ~writers'[j].open
    <2>1. \A j \in 1..Len(writers) : j # i => ~writers[j].open
      BY <1>0 DEF OpenInv
    <2> QED BY <1>1, <2>1
  <1>3. OpenInv'
    BY <1>1, <1>2 DEF OpenInv
  <1>4. RoomInv'
    BY <1>0, <1>1, FileFacts DEF FileInv, RoomInv
  <1>5. WholeInv'
    <2> SUFFICES ASSUME ~rolledTwice
                 PROVE  /\ ~(ticker' \in {"flush", "delete"} /\ closer'.at \in {"flush", "delete"})
                        /\ FilesAreWhole'
      BY <1>1, <1>2 DEF WholeInv
    <2>1. /\ ~(ticker \in {"flush", "delete"} /\ closer.at \in {"flush", "delete"})
          /\ writers[i].open => WellFormed(writers[i].buffer)
          /\ \A n \in 0..MaxClock : disk[n] # << >> => WellFormed(disk[n])
      BY DEF FileInv, WholeInv, FilesAreWhole
    <2>2. \A n \in 0..MaxClock : disk'[n] # << >> => WellFormed(disk'[n])
      BY <1>1, <2>1
    <2> QED BY <2>1, <2>2 DEF FilesAreWhole
  <1>6. NamesInv'
    <2> SUFFICES ASSUME ~reused
                 PROVE  /\ \A j, k \in 1..Len(writers) : writers[j].name = writers[k].name => j = k
                        /\ \A j \in 1..Len(writers) : disk'[writers[j].name] # << >>
      BY <1>1 DEF NamesInv
    <2>1. \A j \in 1..Len(writers) : writers[j].name \in 0..MaxClock
      BY <1>0, FileFacts, WriterFields
    <2>2. ASSUME NEW j \in 1..Len(writers) PROVE disk'[writers[j].name] # << >>
      <3>1. writers[i].open => writers[i].buffer # << >>
        BY <1>0 DEF OpenInv
      <3>2. CASE writers[j].open
        <4>1. j = i
          BY <1>1, <1>2, <3>2
        <4> QED BY <1>1, <2>1, <3>1, <3>2, <4>1
      <3>3. CASE ~writers[j].open
        <4>1. disk[writers[j].name] # << >>
          BY <1>0, <3>3 DEF NamesInv
        <4> QED BY <1>1, <2>1, <3>1, <4>1
      <3> QED BY <3>2, <3>3
    <2> QED BY <1>0, <2>2 DEF NamesInv
  <1>7. KeptInOrder'
    BY <1>1, KeptSame DEF FileInv
  <1> QED BY <1>3, <1>4, <1>5, <1>6, <1>7

LEMMA TickFlushKeeps ==
    ASSUME FileInv, TickFlush
    PROVE  FileInv'
  <1>0. FileTypes /\ RollInv /\ OpenInv /\ NamesInv
    BY DEF FileInv
  <1>1. CASE fws = 0
    <2>1. writers' = writers /\ disk' = disk
      BY <1>1 DEF TickFlush
    <2>2. \A i \in 1..Len(writers) : ~writers[i].open
      BY <1>0, <1>1, FileFacts DEF OpenInv
    <2>3. FileTypes'
      BY <1>0, <2>1, FileBounds DEF FileTypes, TickFlush
    <2>4. OpenInv'
      BY <1>0, <2>1 DEF OpenInv, TickFlush
    <2>5. RollInv'
      BY <1>0, <1>1, <2>1 DEF RollInv, TickFlush
    <2>6. RoomInv'
      BY <2>1 DEF FileInv, RoomInv, TickFlush
    <2>7. WholeInv'
      BY <2>1, <2>2 DEF FileInv, WholeInv, FilesAreWhole, TickFlush
    <2>8. NamesInv'
      BY <2>1 DEF FileInv, NamesInv, TickFlush
    <2>9. KeptInOrder'
      BY <2>1, KeptSame DEF FileInv, TickFlush
    <2> QED BY <2>3, <2>4, <2>5, <2>6, <2>7, <2>8, <2>9 DEF FileInv
  <1>2. CASE fws # 0
    <2>0. fws \in 1..Len(writers)
      BY <1>0, <1>2, FileFacts
    <2>1. writers' = [writers EXCEPT ![fws] = ClosedWriter(writers[fws])]
          /\ disk' = Flushed(writers[fws])
      BY <1>2 DEF TickFlush
    <2>2. /\ writers' \in Seq(FileWriter) /\ Len(writers') = Len(writers)
          /\ \A j \in 1..Len(writers) : j # fws => writers'[j] = writers[j]
          /\ ~writers'[fws].open /\ disk' \in [0..MaxClock -> Seq(Int)]
      BY <1>0, <2>0, <2>1, FlushFacts
    <2>3. FileTypes'
      <3>1. collector' \in [item : 0..MaxCollects, writer : 0..Len(writers')]
            /\ closer' \in [at : RollSteps, writer : 0..Len(writers')]
            /\ fws' \in 0..Len(writers')
        BY <1>0, <2>2 DEF FileTypes, TickFlush
      <3> QED BY <1>0, <2>2, <3>1, FileBounds DEF FileTypes, TickFlush
    <2>4. RollInv'
      BY <1>0, <1>2, <2>0, <2>2 DEF RollInv, TickFlush
    <2>5. OpenInv' /\ RoomInv' /\ WholeInv' /\ NamesInv' /\ KeptInOrder'
      <3>1. PICK i \in 1..Len(writers) : i = fws
        BY <2>0
      <3>2. fws \in {0, i} /\ writers' = [writers EXCEPT ![i] = ClosedWriter(writers[i])]
            /\ disk' = Flushed(writers[i])
        BY <2>1, <3>1
      <3> QED BY <3>2, FlushKeeps DEF TickFlush
    <2> QED BY <2>3, <2>4, <2>5 DEF FileInv
  <1> QED BY <1>1, <1>2

LEMMA CloseFlushKeeps ==
    ASSUME FileInv, CloseFlush
    PROVE  FileInv'
  <1>0. FileTypes /\ RollInv /\ OpenInv /\ NamesInv
    BY DEF FileInv
  <1>1. closer.at = "flush" /\ closer.writer \in 1..Len(writers) /\ fws \in {0, closer.writer}
    BY <1>0 DEF RollInv, CloseFlush
  <1>2. PICK i \in 1..Len(writers) : i = closer.writer
    BY <1>1
  <1>3. closer' = [at |-> "delete", writer |-> i] /\ closer'.at = "delete" /\ closer'.writer = i
    BY <1>0, <1>2 DEF FileTypes, CloseFlush
  <1>4. /\ fws \in {0, i} /\ writers' = [writers EXCEPT ![i] = ClosedWriter(writers[i])]
        /\ disk' = Flushed(writers[i])
    BY <1>1, <1>2 DEF CloseFlush
  <1>5. /\ writers' \in Seq(FileWriter) /\ Len(writers') = Len(writers)
        /\ \A j \in 1..Len(writers) : j # i => writers'[j] = writers[j]
        /\ ~writers'[i].open /\ disk' \in [0..MaxClock -> Seq(Int)]
    BY <1>0, <1>4, FlushFacts
  <1>6. FileTypes'
    <2>1. closer' \in [at : RollSteps, writer : 0..Len(writers')]
      BY <1>3, <1>5, FileBounds, <1>0, FileFacts
    <2>2. collector' \in [item : 0..MaxCollects, writer : 0..Len(writers')]
          /\ fws' \in 0..Len(writers')
      BY <1>0, <1>5 DEF FileTypes, CloseFlush
    <2> QED BY <1>0, <1>5, <2>1, <2>2 DEF FileTypes, CloseFlush
  <1>7. RollInv'
    BY <1>0, <1>1, <1>3, <1>4, <1>5 DEF RollInv, CloseFlush
  <1>8. OpenInv' /\ RoomInv' /\ WholeInv' /\ NamesInv' /\ KeptInOrder'
    BY <1>1, <1>3, <1>4, FlushKeeps DEF CloseFlush
  <1> QED BY <1>6, <1>7, <1>8 DEF FileInv


\* The item after the last one collected.
LEMMA NextItem ==
    ASSUME FileTypes
    PROVE  (IF collected = << >> THEN 1 ELSE Last(collected) + 1) \in Nat \ {0}
  <1>1. CASE collected # << >>
    <2>1. collected \in Seq(1..MaxCollects) /\ Len(collected) \in 1..Len(collected)
      BY <1>1, FileFacts, EmptySeq
    <2>2. collected[Len(collected)] \in 1..MaxCollects
      BY <2>1, ElementOfSeq
    <2> QED BY <1>1, <2>2, FileBounds DEF Last
  <1> QED BY <1>1

LEMMA GetFwsKeeps ==
    ASSUME FileInv, GetFws
    PROVE  FileInv'
  <1>0. FileTypes /\ RollInv /\ OpenInv /\ NamesInv /\ closer.at = "idle" /\ ticker # "flush"
    BY DEF FileInv, RollInv, GetFws
  <1>a. Len(writers) \in Nat
    BY <1>0, FileFacts
  <1> DEFINE it == IF collected = << >> THEN 1 ELSE Last(collected) + 1
             nm == IF stamped THEN fileClock ELSE 0
  <1>1. PICK item \in 1..MaxCollects : item = it
    <2>1. it \in Nat \ {0}
      BY <1>0, NextItem
    <2>2. it <= MaxCollects
      BY DEF GetFws
    <2> HIDE DEF it
    <2> QED BY <2>1, <2>2, FileBounds
  <1>2. PICK name \in 0..MaxClock : name = nm
    BY <1>0, FileBounds DEF FileTypes
  <1>3. CASE fws # 0
    <2>0. fws \in 1..Len(writers)
      BY <1>0, <1>3, FileFacts
    <2>1. collector' = [item |-> item, writer |-> fws] /\ UNCHANGED <<writers, fws, disk, reused>>
      BY <1>1, <1>3 DEF GetFws
    <2>2. collector'.item = item /\ collector'.writer = fws
      BY <2>1
    <2>3. FileTypes'
      <3>1. collector' \in [item : 0..MaxCollects, writer : 0..Len(writers)]
        BY <1>a, <2>0, <2>1, FileBounds
      <3> QED BY <1>0, <2>1, <3>1 DEF FileTypes, GetFws
    <2>4. OpenInv'
      BY <1>0, <2>1 DEF OpenInv, GetFws
    <2>5. RollInv'
      BY <1>0, <2>0, <2>1, <2>2 DEF RollInv, GetFws
    <2>6. RoomInv'
      BY <1>3, <2>1, <2>2 DEF FileInv, RoomInv, GetFws
    <2>7. WholeInv'
      BY <2>1 DEF FileInv, WholeInv, FilesAreWhole, GetFws
    <2>8. NamesInv'
      BY <2>1 DEF FileInv, NamesInv, GetFws
    <2>9. KeptInOrder'
      BY <2>1, KeptSame DEF FileInv, GetFws
    <2> QED BY <2>3, <2>4, <2>5, <2>6, <2>7, <2>8, <2>9 DEF FileInv
  <1>4. CASE fws = 0
    <2> DEFINE w == NewWriter(name)
               n == Len(writers) + 1
    <2>1. /\ collector' = [item |-> item, writer |-> n] /\ writers' = Append(writers, w)
          /\ fws' = Len(writers') /\ disk' = [disk EXCEPT ![name] = << >>]
          /\ reused' = (reused \/ disk[name] # << >>)
      BY <1>1, <1>2, <1>4 DEF GetFws
    <2>2. /\ w \in FileWriter /\ w.name = name /\ w.open = TRUE /\ w.written = FALSE
          /\ w.count = 0 /\ w.buffer = <<Header>>
      BY <1>0, NewWriterIs
    <2> HIDE DEF w
    <2>3. /\ writers' \in Seq(FileWriter) /\ Len(writers') = n /\ writers'[n] = w /\ fws' = n
          /\ \A i \in 1..Len(writers) : writers'[i] = writers[i]
      BY <1>0, <2>1, <2>2, FileFacts, AppendProperties
    <2>4. n \in 1..n /\ n # 0 /\ n \in Nat /\ \A i \in 1..n : i \in 1..Len(writers) \/ i = n
      BY <1>a
    <2>5. collector'.item = item /\ collector'.writer = n
      BY <2>1
    <2>6. /\ disk' \in [0..MaxClock -> Seq(Int)] /\ disk' \in Disks /\ disk'[name] = << >>
          /\ \A m \in 0..MaxClock : m # name => disk'[m] = disk[m]
      BY <1>0, <2>1 DEF FileTypes, Disks
    <2> HIDE DEF n
    <2>7. \A i \in 1..Len(writers) : ~writers[i].open
      BY <1>0, <1>4, <1>a DEF OpenInv
    <2>8. FileTypes'
      <3>1. collector' \in [item : 0..MaxCollects, writer : 0..Len(writers')]
        BY <2>1, <2>3, <2>4, FileBounds
      <3>2. closer' \in [at : RollSteps, writer : 0..Len(writers')] /\ fws' \in 0..Len(writers')
        <4>1. closer \in [at : RollSteps, writer : 0..Len(writers)] /\ closer' = closer
          BY <1>0 DEF FileTypes, GetFws
        <4>2. 0..Len(writers) \subseteq 0..n
          BY <1>a DEF n
        <4> QED BY <2>3, <2>4, <4>1, <4>2
      <3>3. reused' \in BOOLEAN
        BY <2>1
      <3> QED BY <1>0, <2>3, <2>6, <3>1, <3>2, <3>3 DEF FileTypes, GetFws
    <2>9. OpenInv'
      <3>1. <<Header>> # << >>
        OBVIOUS
      <3> QED BY <2>2, <2>3, <2>4, <2>6, <2>7, <3>1 DEF OpenInv
    <2>10. RollInv'
      <3>1. writers'[fws'].open
        BY <2>2, <2>3
      <3> QED BY <1>0, <2>3, <2>4, <2>5, <3>1 DEF RollInv, GetFws
    <2>11. RoomInv'
      <3> SUFFICES ASSUME RollingCount > 0
                   PROVE  /\ \A i \in 1..n : writers'[i].count <= RollingCount
                          /\ writers'[n].count < RollingCount
        BY <2>3, <2>5 DEF RoomInv
      <3>1. \A i \in 1..Len(writers) : writers[i].count <= RollingCount
        BY DEF FileInv, RoomInv
      <3>2. writers'[n].count = 0
        BY <2>2, <2>3
      <3> QED BY <2>3, <2>4, <3>1, <3>2, FileBounds
    <2>12. WholeInv'
      <3> SUFFICES ASSUME ~rolledTwice
                   PROVE  /\ \A i \in 1..n : writers'[i].open => Begun(writers'[i].buffer, writers'[i].written)
                          /\ FilesAreWhole'
        BY <1>0, <2>3 DEF WholeInv, GetFws
      <3>1. Begun(writers'[n].buffer, writers'[n].written)
        BY <2>2, <2>3, BegunAtFirst
      <3>2. \A m \in 0..MaxClock : disk[m] # << >> => WellFormed(disk[m])
        BY DEF FileInv, WholeInv, FilesAreWhole
      <3>3. FilesAreWhole'
        BY <2>6, <3>2 DEF FilesAreWhole
      <3> QED BY <2>3, <2>4, <2>7, <3>1, <3>3
    <2>13. NamesInv'
      <3> SUFFICES ASSUME ~reused'
                   PROVE  /\ \A i, j \in 1..n : writers'[i].name = writers'[j].name => i = j
                          /\ \A i \in 1..n : ~writers'[i].open => disk'[writers'[i].name] # << >>
        BY <2>3 DEF NamesInv
      <3>1. /\ \A i, j \in 1..Len(writers) : writers[i].name = writers[j].name => i = j
            /\ \A i \in 1..Len(writers) : disk[writers[i].name] # << >>
        BY <1>0, <2>1, <2>7 DEF NamesInv
      <3>2. disk[name] = << >>
        BY <2>1
      <3>3. \A i \in 1..Len(writers) : writers[i].name # name /\ writers[i].name \in 0..MaxClock
        BY <1>0, <3>1, <3>2, FileFacts, WriterFields
      <3>4. \A i \in 1..Len(writers) : disk'[writers[i].name] # << >>
        BY <2>6, <3>1, <3>3
      <3>5. writers'[n].name = name /\ writers'[n].open
        BY <2>2, <2>3
      <3> QED BY <2>3, <2>4, <3>1, <3>3, <3>4, <3>5
    <2>14. KeptInOrder'
      <3> SUFFICES ASSUME ~staleWrite, ~reused'
                   PROVE  FlattenSeq(HeldList(writers', disk')) = collected
        BY KeptIs DEF GetFws
      <3>1. ~reused /\ disk[name] = << >>
        BY <2>1
      <3>2. FlattenSeq(HeldList(writers, disk)) = collected
        BY <3>1, KeptIs DEF FileInv
      <3>3. \A m \in 0..MaxClock : disk'[m] = disk[m]
        BY <2>6, <3>1
      <3>4. \A i \in 1..Len(writers) : HeldIn(writers[i], disk') = HeldIn(writers[i], disk)
        <4>1. \A i \in 1..Len(writers) : writers[i].name \in 0..MaxClock
          BY <1>0, FileFacts, WriterFields
        <4> QED BY <3>3, <4>1 DEF HeldIn
      <3>5. HeldIn(w, disk') = << >>
        BY <2>2, ItemsOfEmpty DEF HeldIn
      <3>6. FlattenSeq(HeldList(Append(writers, w), disk')) = FlattenSeq(HeldList(writers, disk))
        BY <1>0, <2>2, <2>6, <3>4, <3>5, FileFacts, HeldNew
      <3> QED BY <2>1, <3>2, <3>6
    <2> QED BY <2>8, <2>9, <2>10, <2>11, <2>12, <2>13, <2>14 DEF FileInv
  <1> QED BY <1>3, <1>4


\* Collect with a writer that has room for more.
LEMMA CollectMoreKeeps ==
    ASSUME FileInv, CollectItem, NEW i \in 1..Len(writers), i = collector.writer,
           NEW item \in Nat \ {0}, item = collector.item,
           ~(RollingCount > 0 /\ writers[i].count + 1 >= RollingCount)
    PROVE  FileInv'
  <1>0. FileTypes /\ RollInv /\ OpenInv /\ NamesInv /\ closer.at = "idle" /\ closer' = closer
        /\ ticker' = ticker /\ ticker \notin {"flush", "delete"} /\ Len(writers) \in Nat
    BY FileFacts DEF FileInv, RollInv, CollectItem
  <1> DEFINE w == writers[i]
             v == WithItem(w, item)
  <1>1. w \in FileWriter
    BY <1>0, FileFacts
  <1>2. /\ v \in FileWriter /\ v.name = w.name /\ v.count = w.count + 1 /\ v.written = TRUE
        /\ v.buffer = w.buffer \o Entry(w, item) /\ v.open = w.open
    BY <1>1, WithItemFields
  <1>3. /\ writers' = [writers EXCEPT ![i] = v] /\ disk' = disk /\ fws' = fws
        /\ collected' = Append(collected, item) /\ staleWrite' = (staleWrite \/ ~w.open)
        /\ collector' = [item |-> 0, writer |-> 0]
    <2>1. ~(RollingCount > 0 /\ v.count >= RollingCount)
      BY <1>2
    <2> QED BY <1>2, <2>1, Zenon DEF CollectItem
  <1> HIDE DEF w, v
  <1>4. /\ writers' \in Seq(FileWriter) /\ Len(writers') = Len(writers) /\ writers'[i] = v
        /\ \A j \in 1..Len(writers) : j # i => writers'[j] = writers[j]
    BY <1>0, <1>2, <1>3, OneWriter
  <1>5. collector'.item = 0 /\ collector'.writer = 0
    BY <1>3
  <1>6. \A j \in 1..Len(writers) : writers'[j].name = writers[j].name /\ writers'[j].open = writers[j].open
    BY <1>2, <1>4 DEF w
  <1>7. FileTypes'
    <2>1. collector' \in [item : 0..MaxCollects, writer : 0..Len(writers')]
      BY <1>0, <1>3, <1>4, FileBounds
    <2>2. closer' \in [at : RollSteps, writer : 0..Len(writers')] /\ fws' \in 0..Len(writers')
      BY <1>0, <1>3, <1>4 DEF FileTypes
    <2>3. collected' \in Seq(1..MaxCollects)
      <3>1. item \in 1..MaxCollects
        BY <1>0, FileFacts, FileBounds
      <3> QED BY <1>0, <1>3, <3>1, FileFacts, AppendProperties
    <2>4. staleWrite' \in BOOLEAN
      BY <1>3
    <2> QED BY <1>0, <1>3, <1>4, <2>1, <2>2, <2>3, <2>4 DEF FileTypes, CollectItem
  <1>8. OpenInv'
    <2> SUFFICES ASSUME NEW j \in 1..Len(writers), writers[j].open
                 PROVE  j = fws /\ disk[writers[j].name] = << >> /\ writers'[j].buffer # << >>
      BY <1>3, <1>4, <1>6 DEF OpenInv
    <2>1. j = fws /\ disk[writers[j].name] = << >> /\ writers[j].buffer # << >>
      BY <1>0 DEF OpenInv
    <2>2. v.buffer # << >>
      BY <1>1, <1>2, EntryIs
    <2> QED BY <1>4, <2>1, <2>2
  <1>9. RollInv'
    BY <1>0, <1>3, <1>4, <1>5, <1>6 DEF RollInv, CollectItem
  <1>10. RoomInv'
    <2> SUFFICES ASSUME RollingCount > 0
                 PROVE  /\ \A j \in 1..Len(writers) : writers'[j].count <= RollingCount
                        /\ fws # 0 => writers'[fws].count < RollingCount
      BY <1>3, <1>4, <1>5 DEF RoomInv
    <2>1. /\ \A j \in 1..Len(writers) : writers[j].count <= RollingCount
          /\ fws # 0 => writers[fws].count < RollingCount /\ fws \in 1..Len(writers)
      BY <1>0, FileFacts DEF FileInv, RoomInv
    <2>2. v.count < RollingCount /\ v.count \in Nat
      BY <1>1, <1>2, WriterFields, FileBounds DEF w
    <2> QED BY <1>4, <2>1, <2>2, FileBounds
  <1>11. WholeInv'
    <2> SUFFICES ASSUME ~rolledTwice
                 PROVE  /\ \A j \in 1..Len(writers) : writers[j].open =>
                              Begun(writers'[j].buffer, writers'[j].written)
                        /\ FilesAreWhole'
      BY <1>0, <1>4, <1>6 DEF WholeInv, CollectItem
    <2>1. /\ \A j \in 1..Len(writers) : writers[j].open =>
                Begun(writers[j].buffer, writers[j].written)
          /\ FilesAreWhole
      BY <1>0 DEF FileInv, WholeInv
    <2>2. FilesAreWhole'
      BY <1>3, <2>1 DEF FilesAreWhole, CollectItem
    <2>3. ASSUME writers[i].open PROVE Begun(v.buffer, v.written)
      <3>1. Begun(w.buffer, w.written)
        BY <2>1, <2>3 DEF w
      <3>2. Begun(w.buffer \o Entry(w, item), TRUE)
        BY <1>1, <3>1, BegunGrows
      <3> QED BY <1>2, <3>2
    <2> QED BY <1>4, <2>1, <2>2, <2>3
  <1>12. NamesInv'
    BY <1>0, <1>3, <1>4, <1>6 DEF NamesInv, CollectItem
  <1>13. KeptInOrder'
    <2> SUFFICES ASSUME ~staleWrite', ~reused
                 PROVE  FlattenSeq(HeldList(writers', disk')) = collected'
      BY KeptIs DEF CollectItem
    <2>1. ~staleWrite /\ w.open
      BY <1>3
    <2>2. i = fws /\ fws # 0 /\ fws = Len(writers) /\ Len(writers) >= 1 /\ i = Len(writers)
      BY <1>0, <2>1 DEF OpenInv, RollInv, w
    <2>3. FlattenSeq(HeldList(writers, disk)) = collected
      BY <2>1, KeptIs DEF FileInv
    <2>4. \A j \in 1..(Len(writers) - 1) : HeldIn(writers'[j], disk) = HeldIn(writers[j], disk)
      <3>1. \A j \in 1..(Len(writers) - 1) : j \in 1..Len(writers) /\ j # i
        BY <1>0, <2>2
      <3> QED BY <1>4, <3>1
    <2>5. HeldIn(writers'[Len(writers)], disk) = Append(HeldIn(writers[Len(writers)], disk), item)
      <3>1. ItemsOf(w.buffer \o Entry(w, item)) = Append(ItemsOf(w.buffer), item)
        BY <1>1, ItemsOfWritten
      <3>2. HeldIn(v, disk) = ItemsOf(v.buffer) /\ HeldIn(w, disk) = ItemsOf(w.buffer)
        BY <1>2, <2>1 DEF HeldIn
      <3> QED BY <1>2, <1>4, <2>2, <3>1, <3>2 DEF w
    <2>6. FlattenSeq(HeldList(writers', disk)) = Append(FlattenSeq(HeldList(writers, disk)), item)
      <3>1. item \in Int
        OBVIOUS
      <3>2. writers \in Seq(FileWriter) /\ disk \in Disks /\ writers' \in Seq(FileWriter)
            /\ Len(writers') = Len(writers) /\ Len(writers) >= 1
        BY <1>0, <1>4, <2>2, FileFacts
      <3>3. PICK vs \in Seq(FileWriter) : vs = writers'
        BY <3>2
      <3>4. PICK ws \in Seq(FileWriter) : ws = writers
        BY <3>2
      <3>5. PICK d \in Disks : d = disk
        BY <3>2
      <3>6. /\ Len(vs) = Len(ws) /\ Len(ws) >= 1
            /\ \A j \in 1..(Len(ws) - 1) : HeldIn(vs[j], d) = HeldIn(ws[j], d)
            /\ HeldIn(vs[Len(ws)], d) = Append(HeldIn(ws[Len(ws)], d), item)
            /\ item \in Int
        BY <2>4, <2>5, <3>1, <3>2, <3>3, <3>4, <3>5
      <3>7. FlattenSeq(HeldList(vs, d)) = Append(FlattenSeq(HeldList(ws, d)), item)
        BY <3>6, HeldLast
      <3> QED BY <3>3, <3>4, <3>5, <3>7
    <2> QED BY <1>3, <2>3, <2>6
  <1> QED BY <1>7, <1>8, <1>9, <1>10, <1>11, <1>12, <1>13 DEF FileInv


Finished(w, item)  == WithFooter(WithItem(w, item))
Rolled(w, item, b) == [ClosedWriter(Finished(w, item)) EXCEPT !.written = b]

LEMMA RolledFields ==
    ASSUME NEW w \in FileWriter, NEW item \in Nat, NEW b \in BOOLEAN
    PROVE  LET u == Finished(w, item)   r == Rolled(w, item, b) IN
           /\ u \in FileWriter /\ u.name = w.name /\ u.open = w.open
           /\ u.buffer = Append(w.buffer \o Entry(w, item), Footer)
           /\ r \in FileWriter /\ r.name = w.name /\ r.count = w.count + 1 /\ r.open = FALSE
  <1> DEFINE v == WithItem(w, item)
             u == WithFooter(v)
             z == ClosedWriter(u)
             r == [z EXCEPT !.written = b]
  <1>1. /\ v \in FileWriter /\ v.name = w.name /\ v.count = w.count + 1
        /\ v.buffer = w.buffer \o Entry(w, item) /\ v.open = w.open
    BY WithItemFields
  <1> HIDE DEF v
  <1>2. /\ u = [name |-> v.name, start |-> v.start, count |-> v.count, written |-> v.written,
               buffer |-> Append(v.buffer, Footer), open |-> v.open]
        /\ u \in FileWriter
    BY <1>1, WithFooterIs
  <1> HIDE DEF u
  <1>3. u.name = v.name /\ u.count = v.count /\ u.open = v.open /\ u.buffer = Append(v.buffer, Footer)
    BY <1>2
  <1>4. /\ z = [name |-> u.name, start |-> u.start, count |-> u.count, written |-> u.written,
               buffer |-> << >>, open |-> FALSE]
        /\ z \in FileWriter
    BY <1>2, ClosedWriterIs
  <1> HIDE DEF z
  <1>5. z.name = u.name /\ z.count = u.count /\ z.open = FALSE
    BY <1>4
  <1>6. /\ r = [name |-> z.name, start |-> z.start, count |-> z.count, written |-> b,
               buffer |-> z.buffer, open |-> z.open]
        /\ r \in FileWriter
    BY <1>4, UnwrittenIs
  <1> HIDE DEF r
  <1>7. r.name = z.name /\ r.count = z.count /\ r.open = z.open
    BY <1>6
  <1>8. /\ u \in FileWriter /\ u.name = w.name /\ u.open = w.open
        /\ u.buffer = Append(w.buffer \o Entry(w, item), Footer)
        /\ r \in FileWriter /\ r.name = w.name /\ r.count = w.count + 1 /\ r.open = FALSE
    BY <1>1, <1>2, <1>3, <1>5, <1>6, <1>7
  <1> QED BY <1>8 DEF r, z, u, v, Rolled, Finished

\* Collect with the item that makes the file full.
LEMMA CollectLastKeeps ==
    ASSUME FileInv, CollectItem, NEW i \in 1..Len(writers), i = collector.writer,
           NEW item \in Nat \ {0}, item = collector.item,
           RollingCount > 0, writers[i].count + 1 >= RollingCount
    PROVE  FileInv'
  <1>0. FileTypes /\ RollInv /\ OpenInv /\ NamesInv /\ closer.at = "idle" /\ closer' = closer
        /\ ticker' = ticker /\ ticker \notin {"flush", "delete"} /\ Len(writers) \in Nat
    BY FileFacts DEF FileInv, RollInv, CollectItem
  <1> DEFINE w == writers[i]
             v == WithItem(w, item)
             u == WithFooter(v)
             r == [ClosedWriter(u) EXCEPT !.written = ~w.open]
  <1>1. w \in FileWriter
    BY <1>0, FileFacts
  <1>2. /\ u \in FileWriter /\ u.name = w.name /\ u.open = w.open
        /\ u.buffer = Append(w.buffer \o Entry(w, item), Footer)
        /\ r \in FileWriter /\ r.name = w.name /\ r.count = w.count + 1 /\ r.open = FALSE
    <2>1. (~w.open) \in BOOLEAN
      OBVIOUS
    <2>2. PICK b \in BOOLEAN : b = (~w.open)
      BY <2>1
    <2>3. u = Finished(w, item) /\ r = Rolled(w, item, b)
      BY <2>2 DEF Finished, Rolled
    <2> HIDE DEF w, u, r
    <2> QED BY <1>1, <2>3, RolledFields
  <1>3. /\ writers' = [writers EXCEPT ![i] = r] /\ disk' = Flushed(u)
        /\ fws' = (IF w.open THEN 0 ELSE fws)
        /\ collected' = (IF ~w.open THEN collected ELSE Append(collected, item))
        /\ staleWrite' = (staleWrite \/ ~w.open)
        /\ collector' = [item |-> 0, writer |-> 0]
    <2>1. v.count = w.count + 1 /\ v.open = w.open
      BY <1>1, WithItemFields
    <2>2. RollingCount > 0 /\ v.count >= RollingCount
      BY <2>1
    <2>3. collector.item # 0 /\ v = WithItem(writers[collector.writer], collector.item)
      OBVIOUS
    <2> HIDE DEF v
    <2> QED BY <2>1, <2>2, <2>3, Zenon DEF CollectItem
  <1> HIDE DEF w, u, r
  <1>4. /\ writers' \in Seq(FileWriter) /\ Len(writers') = Len(writers) /\ writers'[i] = r
        /\ \A j \in 1..Len(writers) : j # i => writers'[j] = writers[j]
    BY <1>0, <1>2, <1>3, OneWriter
  <1>5. collector'.item = 0 /\ collector'.writer = 0
    BY <1>3
  <1>6. \A j \in 1..Len(writers) : writers'[j].name = writers[j].name
    BY <1>2, <1>4 DEF w
  <1>7. w.open => i = fws /\ disk[w.name] = << >> /\ fws # 0 /\ fws = Len(writers)
    BY <1>0 DEF OpenInv, RollInv, w
  <1>8. ~w.open => i # fws
    BY <1>0 DEF RollInv, w
  <1>9. /\ disk' \in Disks /\ disk' \in [0..MaxClock -> Seq(Int)]
        /\ \A n \in 0..MaxClock : disk'[n] = IF w.open /\ n = w.name THEN u.buffer ELSE disk[n]
    <2>1. u.open => disk[u.name] = << >>
      BY <1>2, <1>7
    <2>2. /\ Flushed(u) \in Disks /\ Flushed(u) \in [0..MaxClock -> Seq(Int)]
          /\ \A n \in 0..MaxClock : Flushed(u)[n] = IF u.open /\ n = u.name THEN u.buffer ELSE disk[n]
      BY <1>0, <1>2, <2>1, FlushedIs
    <2> QED BY <1>2, <1>3, <2>2
  <1>10. FileTypes'
    <2>1. collector' \in [item : 0..MaxCollects, writer : 0..Len(writers')]
      BY <1>0, <1>3, <1>4, FileBounds
    <2>2. closer' \in [at : RollSteps, writer : 0..Len(writers')] /\ fws' \in 0..Len(writers')
      BY <1>0, <1>3, <1>4 DEF FileTypes
    <2>3. collected' \in Seq(1..MaxCollects)
      <3>1. item \in 1..MaxCollects
        BY <1>0, FileFacts, FileBounds
      <3>2. Append(collected, item) \in Seq(1..MaxCollects)
        BY <1>0, <3>1, FileFacts, AppendProperties
      <3> QED BY <1>0, <1>3, <3>2, FileFacts
    <2>4. staleWrite' \in BOOLEAN
      BY <1>3
    <2> QED BY <1>0, <1>4, <1>9, <2>1, <2>2, <2>3, <2>4 DEF FileTypes, CollectItem
  <1>11. RoomInv'
    <2>1. /\ \A j \in 1..Len(writers) : writers[j].count <= RollingCount
          /\ fws # 0 => writers[fws].count < RollingCount /\ fws \in 1..Len(writers)
          /\ w.count < RollingCount
      BY <1>0, FileFacts DEF FileInv, RoomInv, w
    <2>2. r.count <= RollingCount
      BY <1>1, <1>2, <2>1, WriterFields, FileBounds
    <2>3. fws' # 0 => fws' \in 1..Len(writers) /\ fws' # i /\ fws' = fws
      BY <1>3, <1>7, <1>8, <2>1
    <2>4. \A j \in 1..Len(writers) : writers'[j].count <= RollingCount
      BY <1>4, <2>1, <2>2
    <2>5. fws' # 0 => writers'[fws'].count < RollingCount
      BY <1>4, <2>1, <2>3
    <2> QED BY <1>4, <1>5, <2>4, <2>5 DEF RoomInv
  <1>12. CASE w.open
    <2>1. fws' = 0 /\ collected' = Append(collected, item) /\ i = fws /\ i = Len(writers)
          /\ disk[w.name] = << >> /\ Len(writers) >= 1
      BY <1>0, <1>3, <1>7, <1>12
    <2>2. \A j \in 1..Len(writers) : ~writers'[j].open
      <3>1. \A j \in 1..Len(writers) : j # i => ~writers[j].open
        BY <1>0, <2>1 DEF OpenInv
      <3> QED BY <1>2, <1>4, <3>1
    <2>3. OpenInv'
      BY <1>4, <2>2 DEF OpenInv
    <2>4. RollInv'
      BY <1>0, <1>5, <2>1 DEF RollInv, CollectItem
    <2>5. u.buffer # << >> /\ u.buffer \in Seq(Int)
      <3>1. w.buffer \o Entry(w, item) \in Seq(Int)
        BY <1>1, EntryIs
      <3> DEFINE c == w.buffer \o Entry(w, item)
      <3>2. u.buffer = Append(c, Footer) /\ c \in Seq(Int) /\ Footer \in Int
        BY <1>2, <3>1, FileBounds
      <3> HIDE DEF c
      <3> DEFINE a == Append(c, Footer)
      <3>3. a # << >> /\ a \in Seq(Int)
        BY <3>2, AppendProperties
      <3> HIDE DEF a
      <3> QED BY <3>2, <3>3 DEF a
    <2>6. WholeInv'
      <3> SUFFICES ASSUME ~rolledTwice PROVE FilesAreWhole'
        BY <1>0, <1>4, <2>2 DEF WholeInv, CollectItem
      <3>1. Begun(w.buffer, w.written) /\ FilesAreWhole
        BY <1>0, <1>12 DEF FileInv, WholeInv, w
      <3>2. Begun(w.buffer \o Entry(w, item), TRUE) /\ w.buffer \o Entry(w, item) \in Seq(Int)
            /\ TRUE \in BOOLEAN
        BY <1>1, <3>1, BegunGrows, EntryIs
      <3>3. WellFormed(u.buffer)
        BY <1>2, <3>2, BegunEnds
      <3>4. \A n \in 0..MaxClock : disk[n] # << >> => WellFormed(disk[n])
        BY <3>1 DEF FilesAreWhole
      <3>5. \A n \in 0..MaxClock : disk'[n] # << >> => WellFormed(disk'[n])
        BY <1>9, <3>3, <3>4
      <3> QED BY <3>5 DEF FilesAreWhole
    <2>7. ASSUME ~reused, NEW j \in 1..Len(writers), j # i
          PROVE  disk'[writers[j].name] = disk[writers[j].name]
      <3>1. writers[j].name # w.name
        BY <1>0, <2>7 DEF NamesInv, w
      <3>2. writers[j].name \in 0..MaxClock
        BY <1>0, FileFacts, WriterFields
      <3> QED BY <1>9, <3>1, <3>2
    <2>8. disk'[w.name] = u.buffer
      <3>1. w.name \in 0..MaxClock
        BY <1>1, WriterFields
      <3> QED BY <1>9, <1>12, <3>1
    <2>9. \A j \in 1..Len(writers) : j # i => ~writers[j].open
      BY <1>0, <2>1 DEF OpenInv
    <2>10. NamesInv'
      <3> SUFFICES ASSUME ~reused
                   PROVE  /\ \A j, k \in 1..Len(writers) : writers[j].name = writers[k].name => j = k
                          /\ \A j \in 1..Len(writers) : disk'[writers[j].name] # << >>
        BY <1>4, <1>6 DEF NamesInv, CollectItem
      <3>1. ASSUME NEW j \in 1..Len(writers) PROVE disk'[writers[j].name] # << >>
        <4>1. CASE j = i
          BY <2>5, <2>8, <4>1 DEF w
        <4>2. CASE j # i
          <5>1. disk[writers[j].name] # << >>
            BY <1>0, <2>9, <4>2 DEF NamesInv
          <5> QED BY <2>7, <4>2, <5>1
        <4> QED BY <4>1, <4>2
      <3> QED BY <1>0, <3>1 DEF NamesInv
    <2>11. KeptInOrder'
      <3> SUFFICES ASSUME ~staleWrite', ~reused
                   PROVE  FlattenSeq(HeldList(writers', disk')) = collected'
        BY KeptIs DEF CollectItem
      <3>1. FlattenSeq(HeldList(writers, disk)) = collected
        BY <1>3, KeptIs DEF FileInv
      <3>2. \A j \in 1..(Len(writers) - 1) : HeldIn(writers'[j], disk') = HeldIn(writers[j], disk)
        <4> SUFFICES ASSUME NEW j \in 1..(Len(writers) - 1)
                     PROVE  HeldIn(writers'[j], disk') = HeldIn(writers[j], disk)
          OBVIOUS
        <4>1. j \in 1..Len(writers) /\ j # i
          BY <1>0, <2>1
        <4>2. writers'[j] = writers[j] /\ ~writers[j].open
              /\ disk'[writers[j].name] = disk[writers[j].name]
          BY <1>4, <2>7, <2>9, <4>1
        <4> QED BY <4>2 DEF HeldIn
      <3>3. HeldIn(writers'[Len(writers)], disk') = Append(HeldIn(writers[Len(writers)], disk), item)
        <4>1. ItemsOf(u.buffer) = Append(ItemsOf(w.buffer), item)
          BY <1>1, <1>2, ItemsOfWritten
        <4>2. HeldIn(r, disk') = ItemsOf(disk'[w.name])
          BY <1>2 DEF HeldIn
        <4>3. HeldIn(w, disk) = ItemsOf(w.buffer)
          BY <1>12 DEF HeldIn
        <4> QED BY <1>4, <2>1, <2>8, <4>1, <4>2, <4>3 DEF w
      <3>4. FlattenSeq(HeldList(writers', disk')) = Append(FlattenSeq(HeldList(writers, disk)), item)
        <4>1. writers \in Seq(FileWriter) /\ disk \in Disks /\ writers' \in Seq(FileWriter)
              /\ Len(writers') = Len(writers) /\ Len(writers) >= 1 /\ disk' \in Disks /\ item \in Int
          BY <1>0, <1>4, <1>9, <2>1, FileFacts
        <4>2. PICK e \in Disks : e = disk'
          BY <4>1
        <4>3. PICK vs \in Seq(FileWriter) : vs = writers'
          BY <4>1
        <4>4. /\ Len(vs) = Len(writers) /\ Len(writers) >= 1
              /\ \A j \in 1..(Len(writers) - 1) : HeldIn(vs[j], e) = HeldIn(writers[j], disk)
              /\ HeldIn(vs[Len(writers)], e) = Append(HeldIn(writers[Len(writers)], disk), item)
          BY <3>2, <3>3, <4>1, <4>2, <4>3
        <4>6. PICK ws \in Seq(FileWriter) : ws = writers
          BY <4>1
        <4>7. PICK d \in Disks : d = disk
          BY <4>1
        <4>8. /\ Len(vs) = Len(ws) /\ Len(ws) >= 1
              /\ \A j \in 1..(Len(ws) - 1) : HeldIn(vs[j], e) = HeldIn(ws[j], d)
              /\ HeldIn(vs[Len(ws)], e) = Append(HeldIn(ws[Len(ws)], d), item)
              /\ item \in Int
          BY <4>1, <4>4, <4>6, <4>7
        <4>9. FlattenSeq(HeldList(vs, e)) = Append(FlattenSeq(HeldList(ws, d)), item)
          BY <4>8, HeldLast
        <4>5. FlattenSeq(HeldList(vs, e)) = Append(FlattenSeq(HeldList(writers, disk)), item)
          BY <4>6, <4>7, <4>9
        <4> QED BY <4>2, <4>3, <4>5
      <3> QED BY <2>1, <3>1, <3>4
    <2> QED BY <1>10, <1>11, <2>3, <2>4, <2>6, <2>10, <2>11 DEF FileInv
  <1>13. CASE ~w.open
    <2>1. fws' = fws /\ i # fws /\ staleWrite' = TRUE
      BY <1>3, <1>8, <1>13
    <2>2. \A n \in 0..MaxClock : disk'[n] = disk[n]
      BY <1>9, <1>13
    <2>3. \A j \in 1..Len(writers) : writers'[j].open = writers[j].open
      <3>1. w.open = FALSE
        BY <1>1, <1>13, WriterFields
      <3> QED BY <1>2, <1>4, <3>1 DEF w
    <2>4. \A j \in 1..Len(writers) : writers[j].name \in 0..MaxClock
      BY <1>0, FileFacts, WriterFields
    <2>5. \A j \in 1..Len(writers) : writers[j].open => j # i /\ writers'[j] = writers[j]
      BY <1>4, <1>13 DEF w
    <2>6. OpenInv'
      <3> SUFFICES ASSUME NEW j \in 1..Len(writers), writers[j].open
                   PROVE  j = fws /\ disk'[writers[j].name] = << >> /\ writers[j].buffer # << >>
        BY <1>4, <2>1, <2>3, <2>5 DEF OpenInv
      <3> QED BY <1>0, <2>2, <2>4 DEF OpenInv
    <2>7. RollInv'
      <3>1. fws # 0 => fws \in 1..Len(writers) /\ writers'[fws].open = writers[fws].open
        BY <1>0, <2>3, FileFacts
      <3> QED BY <1>0, <1>4, <1>5, <2>1, <3>1 DEF RollInv, CollectItem
    <2>8. WholeInv'
      <3> SUFFICES ASSUME ~rolledTwice
                   PROVE  /\ \A j \in 1..Len(writers) : writers[j].open =>
                                Begun(writers[j].buffer, writers[j].written)
                          /\ FilesAreWhole'
        BY <1>0, <1>4, <2>3, <2>5 DEF WholeInv, CollectItem
      <3>1. /\ \A j \in 1..Len(writers) : writers[j].open =>
                  Begun(writers[j].buffer, writers[j].written)
            /\ FilesAreWhole
        BY <1>0 DEF FileInv, WholeInv
      <3>2. FilesAreWhole'
        BY <2>2, <3>1 DEF FilesAreWhole
      <3> QED BY <3>1, <3>2
    <2>9. NamesInv'
      BY <1>0, <1>4, <1>6, <2>2, <2>3, <2>4 DEF NamesInv, CollectItem
    <2>10. KeptInOrder'
      BY <2>1, KeptIs
    <2> QED BY <1>10, <1>11, <2>6, <2>7, <2>8, <2>9, <2>10 DEF FileInv
  <1> QED BY <1>12, <1>13

LEMMA CollectKeeps ==
    ASSUME FileInv, CollectItem
    PROVE  FileInv'
  <1>1. FileTypes /\ RollInv /\ collector.item # 0
    BY DEF FileInv, CollectItem
  <1>2. collector.writer \in 1..Len(writers) /\ collector.item \in Nat \ {0}
    BY <1>1, FileFacts DEF RollInv
  <1>3. PICK i \in 1..Len(writers) : i = collector.writer
    BY <1>2
  <1>4. PICK item \in Nat \ {0} : item = collector.item
    BY <1>2
  <1>5. CASE RollingCount > 0 /\ writers[i].count + 1 >= RollingCount
    BY <1>3, <1>4, <1>5, CollectLastKeeps
  <1>6. CASE ~(RollingCount > 0 /\ writers[i].count + 1 >= RollingCount)
    BY <1>3, <1>4, <1>6, CollectMoreKeeps
  <1> QED BY <1>5, <1>6

-----------------------------------------------------------------------------

LEMMA FileStarts ==
    ASSUME FileInit
    PROVE  FileInv
  <1>1. writers = << >> /\ Len(writers) = 0 /\ fws = 0 /\ 1..Len(writers) = {}
    BY DEF FileInit
  <1>2. /\ collector = [item |-> 0, writer |-> 0] /\ collector.item = 0
        /\ closer = [at |-> "idle", writer |-> 0] /\ closer.at = "idle" /\ ticker = "idle"
    BY DEF FileInit
  <1>3. disk \in [0..MaxClock -> Seq(Int)] /\ \A n \in 0..MaxClock : disk[n] = << >>
    BY DEF FileInit
  <1>4. FileTypes
    <2>1. writers \in Seq(FileWriter) /\ collected \in Seq(1..MaxCollects)
      BY DEF FileInit
    <2>2. /\ collector \in [item : 0..MaxCollects, writer : 0..Len(writers)]
          /\ closer \in [at : RollSteps, writer : 0..Len(writers)] /\ fws \in 0..Len(writers)
      BY <1>1, <1>2, FileBounds
    <2> QED BY <1>2, <1>3, <2>1, <2>2, FileBounds DEF FileTypes, FileInit
  <1>5. OpenInv /\ RoomInv /\ NamesInv
    BY <1>1, <1>2 DEF OpenInv, RoomInv, NamesInv
  <1>6. RollInv
    BY <1>1, <1>2 DEF RollInv, FileInit
  <1>7. WholeInv
    BY <1>1, <1>2, <1>3 DEF WholeInv, FilesAreWhole
  <1>8. KeptInOrder
    <2>1. [i \in DOMAIN writers |-> HeldBy(writers[i])] = << >>
      BY DEF FileInit
    <2> QED BY <2>1, FlattenEmpty DEF KeptInOrder, FileInit
  <1> QED BY <1>4, <1>5, <1>6, <1>7, <1>8 DEF FileInv

LEMMA FileStepKeeps ==
    ASSUME FileInv, [FileNext]_fileVars
    PROVE  FileInv'
  <1>1. CASE GetFws
    BY <1>1, GetFwsKeeps
  <1>2. CASE CollectItem
    BY <1>2, CollectKeeps
  <1>3. CASE TimePasses
    BY <1>3, TimePassesKeeps
  <1>4. CASE TickFooter
    BY <1>4, TickFooterKeeps
  <1>5. CASE TickFlush
    BY <1>5, TickFlushKeeps
  <1>6. CASE TickDelete
    BY <1>6, TickDeleteKeeps
  <1>7. CASE TickerEnds
    BY <1>7, TickerEndsKeeps
  <1>8. CASE CloseFooter
    BY <1>8, CloseFooterKeeps
  <1>9. CASE CloseFlush
    BY <1>9, CloseFlushKeeps
  <1>10. CASE CloseDelete
    BY <1>10, CloseDeleteKeeps
  <1>11. CASE UNCHANGED fileVars
    BY <1>11, FileStutters
  <1> QED BY <1>1, <1>2, <1>3, <1>4, <1>5, <1>6, <1>7, <1>8, <1>9, <1>10, <1>11 DEF FileNext

LEMMA FileInvImplies ==
    ASSUME FileInv
    PROVE  FilesSound
  <1>1. FileTypes /\ OpenInv /\ RollInv /\ RoomInv /\ WholeInv /\ KeptInOrder
    BY DEF FileInv
  <1>2. FileTypeOK
    <2>1. DOMAIN writers = 1..Len(writers)
      BY <1>1, FileFacts, LenProperties
    <2>2. \A i \in DOMAIN writers : RollingCount > 0 => writers[i].count <= RollingCount
      BY <1>1, <2>1 DEF RoomInv
    <2>3. /\ {ticker, closer.at} \subseteq RollSteps /\ closer.writer \in 0..Len(writers)
          /\ {fileLock, staleWrite, reused, rolledTwice} \subseteq BOOLEAN
      BY <1>1 DEF FileTypes
    <2> QED BY <1>1, <2>2, <2>3 DEF FileTypes, FileTypeOK
  <1>3. FilesAreWhole
    BY <1>1 DEF WholeInv, FilesAreWhole
  <1>4. ClosedIsOnDisk
    <2>1. DOMAIN writers = 1..Len(writers)
      BY <1>1, FileFacts, LenProperties
    <2>2. \A i \in 1..Len(writers) : i # 0
      BY <1>1, FileFacts
    <2> QED BY <1>1, <2>1, <2>2 DEF OpenInv, RollInv, ClosedIsOnDisk
  <1> QED BY <1>1, <1>2, <1>3, <1>4 DEF FilesSound

\* The files have all items in order, as long as no item meets a file just rolled and no
\* name is used again; each is a whole array, as long as Close and the ticker do not roll
\* one at once; Close leaves none open (sink.go:160-250, file_writer.go:60-150), for any
\* number of items in a file, any interval and any times.
THEOREM FilesAreSound == FileSpec => []FilesSound
  <1>1. FileInit => FileInv
    BY FileStarts
  <1>2. FileInv /\ [FileNext]_fileVars => FileInv'
    BY FileStepKeeps
  <1>3. FileInv => FilesSound
    BY FileInvImplies
  <1> QED BY <1>1, <1>2, <1>3, PTL DEF FileSpec
=============================================================================
