----------------------------- MODULE SyncCache -----------------------------
(***************************************************************************)
(* The cache of a sink (topo/node/cache): items go to a write buffer of    *)
(* one page, full pages to a ring of pages in a key-value store, and are   *)
(* taken out of a read buffer of one page.                                 *)
(*                                                                         *)
(* Items are numbered by arrival.  A key that was never set reads as 0,    *)
(* which is what initStore makes of it.  A crash may fall between any two  *)
(* writes to the store; an error of the store is not modelled.             *)
(***************************************************************************)
EXTENDS Integers, Functions, SequencesExt

CONSTANTS
    BufferPageSize,     \* items of a page
    MaxDiskPage,        \* maxDiskPage: pages of the ring
    CleanCacheAtStop,   \* whether a stop and a start drop the store
    Nothing,            \* no item
    MaxItems,           \* bound: items that arrive
    MaxStarts,          \* bound: how often the rule starts
    CanCrash            \* bound: whether the process may crash

ASSUME CacheAssumption ==
    /\ BufferPageSize \in Nat \ {0}
    /\ MaxDiskPage \in Nat \ {0, 1}     \* NewSyncCache raises it to 2
    /\ {CleanCacheAtStop, CanCrash} \subseteq BOOLEAN
    /\ MaxItems \in Nat /\ MaxStarts \in Nat \ {0}
    /\ Nothing \notin 1..MaxItems

VARIABLES
    readBuffer,     \* readBufferPage, oldest item first
    writeBuffer,    \* writeBufferPage
    diskSize, diskPageHead, diskPageTail,
    CacheLength,
    kv,             \* the store: pages by slot, and the three counters
    up,             \* whether the cache is in use
    starts,         \* how often it was started
    added,          \* items that have arrived
    popped,         \* history: items taken out
    overflowed      \* history: items dropped because the disk was full

memory == <<readBuffer, writeBuffer, diskSize, diskPageHead, diskPageTail,
            CacheLength>>
cacheVars == <<memory, kv, popped, overflowed>>
syncVars == <<cacheVars, up, starts, added>>

Items == 1..MaxItems
Slots == 0..(MaxDiskPage - 1)
EmptyStore == [page |-> << >>, size |-> 0, head |-> 0, cacheLength |-> 0]

\* The slots in use, head first, and the items of their pages.
Slot(head, i) == (head + i) % MaxDiskPage
PageAt(k, slot) == IF slot \in DOMAIN k.page THEN k.page[slot] ELSE <<>>
OnDisk(k, head, size) ==
    FlattenSeq([i \in 1..size |-> PageAt(k, Slot(head, i - 1))])

Contents == readBuffer \o OnDisk(kv, diskPageHead, diskSize) \o writeBuffer

\* What initStore finds.
Restorable == OnDisk(kv, kv.head, kv.size)

Fresh ==
    /\ readBuffer' = <<>> /\ writeBuffer' = <<>>
    /\ diskSize' = 0 /\ diskPageHead' = 0 /\ diskPageTail' = 0
    /\ CacheLength' = 0

CacheInit ==
    /\ readBuffer = <<>> /\ writeBuffer = <<>>
    /\ diskSize = 0 /\ diskPageHead = 0 /\ diskPageTail = 0
    /\ CacheLength = 0
    /\ kv = EmptyStore
    /\ up = TRUE /\ starts = 1 /\ added = 0
    /\ popped = {} /\ overflowed = {}

-----------------------------------------------------------------------------
(* The stores that the writes of a call go through, in their order.        *)

\* Mutant: the page stays in the store.
DeleteStoresCountOnly(k, head, size) ==
    LET counted == [k EXCEPT !.size = size - 1]
    IN <<k, counted, [counted EXCEPT !.head = Slot(head, 1)]>>

\* deleteDiskPage.
DeleteStores(k, head, size) ==
    LET without == [k EXCEPT !.page = Restrict(@, DOMAIN @ \ {head})]
        counted == [without EXCEPT !.size = size - 1]
    IN <<without, counted, [counted EXCEPT !.head = Slot(head, 1)]>>

\* appendWriteCache, which makes room on a full disk first.
AppendStores(k, head, size) ==
    LET full == size = MaxDiskPage
        room == IF full THEN DeleteStores(k, head, size) ELSE <<>>
        last == IF full THEN room[3] ELSE k
        left == IF full THEN size - 1 ELSE size
        with == [last EXCEPT !.page =
                     [s \in DOMAIN @ \cup {diskPageTail} |->
                          IF s = diskPageTail THEN writeBuffer ELSE @[s]]]
    IN room \o <<with, [with EXCEPT !.size = left + 1]>>

\* insertReadCache: in front of the head, and counted unless the disk is full.
InsertStores ==
    LET before == Slot(diskPageHead, MaxDiskPage - 1)
        with == [kv EXCEPT !.page =
                     [s \in DOMAIN @ \cup {before} |->
                          IF s = before THEN readBuffer ELSE @[s]]]
        moved == [with EXCEPT !.head = before]
    IN IF diskSize < MaxDiskPage
       THEN <<with, moved, [moved EXCEPT !.size = diskSize + 1]>>
       ELSE <<with, moved>>

\* Flush, when the cache is kept.
FlushStores ==
    LET inserted == readBuffer # <<>>
        read == IF inserted THEN InsertStores ELSE <<kv>>
        head == IF inserted THEN Slot(diskPageHead, MaxDiskPage - 1)
                ELSE diskPageHead
        size == IF inserted /\ diskSize < MaxDiskPage THEN diskSize + 1
                ELSE diskSize
        written == IF writeBuffer = <<>> THEN read
                   ELSE read \o AppendStores(Last(read), head, size)
        dropped == IF writeBuffer # <<>> /\ size = MaxDiskPage
                   THEN BufferPageSize + Len(readBuffer) ELSE 0
    IN Append(written,
              [Last(written) EXCEPT !.cacheLength = CacheLength - dropped])

-----------------------------------------------------------------------------
(* The operations.                                                         *)

WriteIsFull == Len(writeBuffer) = BufferPageSize
DiskIsFull == diskSize = MaxDiskPage

AddToBuffer(x) ==
    /\ ~WriteIsFull
    /\ writeBuffer' = Append(writeBuffer, x)
    /\ CacheLength' = CacheLength + 1
    /\ UNCHANGED <<readBuffer, diskSize, diskPageHead, diskPageTail, kv,
                   overflowed>>

AddToDisk(x) ==
    /\ WriteIsFull /\ ~DiskIsFull
    /\ kv' = Last(AppendStores(kv, diskPageHead, diskSize))
    /\ diskPageTail' = Slot(diskPageTail, 1)
    /\ diskSize' = diskSize + 1
    /\ writeBuffer' = <<x>>
    /\ CacheLength' = CacheLength + 1
    /\ UNCHANGED <<readBuffer, diskPageHead, overflowed>>

\* Mutant: the read buffer, which is older than the page that goes, is kept.
AddWhenFullKeepsRead(x) ==
    /\ WriteIsFull /\ DiskIsFull
    /\ kv' = Last(AppendStores(kv, diskPageHead, diskSize))
    /\ diskPageTail' = Slot(diskPageTail, 1)
    /\ diskPageHead' = Slot(diskPageHead, 1)
    /\ writeBuffer' = <<x>>
    /\ CacheLength' = CacheLength - BufferPageSize + 1
    /\ UNCHANGED <<readBuffer, diskSize, overflowed>>

\* The page at the head goes, and the read buffer, which is older.
AddWhenFull(x) ==
    /\ WriteIsFull /\ DiskIsFull
    /\ kv' = Last(AppendStores(kv, diskPageHead, diskSize))
    /\ diskPageTail' = Slot(diskPageTail, 1)
    /\ diskPageHead' = Slot(diskPageHead, 1)
    /\ readBuffer' = <<>>
    /\ writeBuffer' = <<x>>
    /\ CacheLength' = CacheLength - BufferPageSize - Len(readBuffer) + 1
    /\ overflowed' = overflowed \cup Range(readBuffer)
                                \cup Range(PageAt(kv, diskPageHead))
    /\ UNCHANGED diskSize

AddCache(x) ==
    /\ AddToBuffer(x) \/ AddToDisk(x) \/ AddWhenFull(x)
    /\ UNCHANGED popped

\* The page that PopCache takes its item from.
PageToRead ==
    IF readBuffer # <<>> THEN readBuffer
    ELSE IF diskSize > 0 THEN PageAt(kv, diskPageHead) ELSE writeBuffer

PopResult == IF PageToRead = <<>> THEN Nothing ELSE Head(PageToRead)

TakeItem ==
    /\ readBuffer' = IF PageToRead = <<>> THEN <<>> ELSE Tail(PageToRead)
    /\ CacheLength' = IF PageToRead = <<>> THEN CacheLength ELSE CacheLength - 1
    /\ popped' = popped \cup ({PopResult} \ {Nothing})

PopFromBuffer ==
    /\ readBuffer # <<>>
    /\ UNCHANGED <<writeBuffer, diskSize, diskPageHead, kv>>

\* loadFromDisk; without a page at the head it only returns an error.
PopFromDisk ==
    /\ readBuffer = <<>> /\ diskSize > 0
    /\ IF diskPageHead \in DOMAIN kv.page
       THEN /\ kv' = Last(DeleteStores(kv, diskPageHead, diskSize))
            /\ diskPageHead' = Slot(diskPageHead, 1)
            /\ diskSize' = diskSize - 1
       ELSE UNCHANGED <<kv, diskPageHead, diskSize>>
    /\ UNCHANGED writeBuffer

PopFromWriteBuffer ==
    /\ readBuffer = <<>> /\ diskSize = 0
    /\ writeBuffer' = <<>>
    /\ UNCHANGED <<diskSize, diskPageHead, kv>>

PopCache ==
    /\ TakeItem
    /\ PopFromBuffer \/ PopFromDisk \/ PopFromWriteBuffer
    /\ UNCHANGED <<diskPageTail, overflowed>>

\* What Flush leaves in memory is not used again.
Flush ==
    /\ kv' = IF CleanCacheAtStop THEN EmptyStore ELSE Last(FlushStores)
    /\ Fresh
    /\ UNCHANGED <<popped, overflowed>>

\* NewSyncCache and initStore.
InitStore ==
    /\ readBuffer' = <<>> /\ writeBuffer' = <<>>
    /\ kv' = IF CleanCacheAtStop THEN EmptyStore ELSE kv
    /\ IF CleanCacheAtStop \/ kv.size = 0
       THEN /\ diskSize' = 0 /\ diskPageHead' = 0 /\ diskPageTail' = 0
            /\ CacheLength' = 0
       ELSE /\ diskSize' = kv.size
            /\ diskPageHead' = kv.head
            /\ diskPageTail' = Slot(kv.head, kv.size)
            /\ CacheLength' = kv.cacheLength
    /\ UNCHANGED <<popped, overflowed>>

\* The process ends before, within or after the writes of a call.
StoresInFlight ==
    {kv} \cup (IF WriteIsFull
               THEN Range(AppendStores(kv, diskPageHead, diskSize)) ELSE {})
         \cup (IF readBuffer = <<>> /\ diskSize > 0
                     /\ diskPageHead \in DOMAIN kv.page
               THEN Range(DeleteStores(kv, diskPageHead, diskSize)) ELSE {})
         \cup (IF CleanCacheAtStop THEN {EmptyStore} ELSE Range(FlushStores))

CrashCache ==
    /\ kv' \in StoresInFlight
    /\ Fresh
    /\ UNCHANGED <<popped, overflowed>>

-----------------------------------------------------------------------------
(* A user of the cache that calls it in any order.                         *)

Add ==
    /\ up /\ added < MaxItems
    /\ AddCache(added + 1)
    /\ added' = added + 1
    /\ UNCHANGED <<up, starts>>

Pop ==
    /\ up /\ PopCache
    /\ UNCHANGED <<up, starts, added>>

Stop ==
    /\ up /\ starts < MaxStarts
    /\ Flush
    /\ up' = FALSE
    /\ UNCHANGED <<starts, added>>

Crash ==
    /\ CanCrash /\ up /\ starts < MaxStarts
    /\ CrashCache
    /\ up' = FALSE
    /\ UNCHANGED <<starts, added>>

Start ==
    /\ ~up
    /\ InitStore
    /\ up' = TRUE /\ starts' = starts + 1
    /\ UNCHANGED added

CacheNext == Add \/ Pop \/ Stop \/ Crash \/ Start

CacheSpec == CacheInit /\ [][CacheNext]_syncVars

-----------------------------------------------------------------------------
(* Properties.                                                             *)

CacheTypeOK ==
    /\ {readBuffer, writeBuffer} \subseteq Seq(Items)
    /\ {Len(readBuffer), Len(writeBuffer)} \subseteq 0..BufferPageSize
    /\ diskSize \in 0..MaxDiskPage
    /\ {diskPageHead, diskPageTail} \subseteq Slots
    /\ CacheLength \in Int
    /\ kv.page \in [DOMAIN kv.page -> Seq(Items) \ {<<>>}]
    /\ DOMAIN kv.page \subseteq Slots
    /\ kv.size \in 0..MaxDiskPage /\ kv.head \in Slots
    /\ kv.cacheLength \in Int
    /\ up \in BOOLEAN /\ starts \in 1..MaxStarts /\ added \in 0..MaxItems
    /\ popped \subseteq Items /\ overflowed \subseteq Items

\* In its first run; what a later one restores may have lost its count or its
\* head, see StopKeepsNewest below.
FirstRun == starts = 1 /\ up

\* While the rule runs the read buffer, the ring of pages and the write buffer
\* are one first-in, first-out queue that only an overflow shortens, and only
\* at its old end (AddCache, PopCache; "The disk cache is first-in, first-out").
Queue == INSTANCE LossyQueue WITH
             queue <- IF FirstRun THEN Contents ELSE <<>>, running <- FirstRun,
             Item <- Items, Page <- BufferPageSize,
             Capacity <- (MaxDiskPage + 1) * BufferPageSize
ImplementsQueue == Queue!Spec

\* CacheLength counts the items held: CacheOp stops sending when it is 0, so
\* that one too few strands an item and one too many sends what is not there.
LengthIsTrue == FirstRun => CacheLength = Len(Contents)

\* PopCache never looks for a page that is not there ("nothing in the disk,
\* should not happen", sync_cache.go:311).
SomethingOnDisk ==
    FirstRun /\ diskSize > 0 => diskPageHead \in DOMAIN kv.page

\* Whatever stops and crashes fall between the calls or between the writes of
\* one, no item is held twice and none that was taken out comes back.
NeverTwice ==
    LET held == IF up THEN Contents ELSE Restorable
    IN IsInjective(held) /\ popped \cap Range(held) = {}

\* A stop, and the start after it, keep every item in its order, unless the
\* cache is to be cleaned, as long as the disk has room for both buffers and the
\* head is stored where it is.
RoomForBuffers ==
    /\ (IF readBuffer = <<>> THEN 0 ELSE 1)
           + (IF writeBuffer = <<>> THEN 0 ELSE 1) + diskSize <= MaxDiskPage
    /\ kv.head = diskPageHead
StopKeepsItems ==
    [][Stop /\ ~CleanCacheAtStop /\ RoomForBuffers => Restorable' = Contents]_syncVars

\* A stop may give up the oldest items to fit the rest on the disk, and no
\* others: what is left is the new end of the queue, in its order (Flush; "If
\* the disk cache is full, the earliest page ...").
\* (The code does not satisfy this: README, section 8.)
StopKeepsNewest == [][Stop => IsSuffix(Restorable', Contents)]_syncVars

\* What passes the cache: it is one queue while the rule runs, and a stop that has room
\* for its buffers keeps what is in it (sync_cache.go:100-379).
CacheIsQueue == ImplementsQueue /\ StopKeepsItems

\* The parts of the cache fit together: the number of items and the head of the ring are
\* those of the pages, and no stop or crash brings an item back that was taken out or is
\* held already (sync_cache.go:100-379).
DiskCacheSound == CacheTypeOK /\ LengthIsTrue /\ SomethingOnDisk /\ NeverTwice
=============================================================================
