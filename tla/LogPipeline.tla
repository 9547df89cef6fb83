------------------------------ MODULE LogPipeline ------------------------------
(***************************************************************************)
(* The program of src/LockFreeRingBuffer.cpp.  ThreadNum producers run     *)
(* add(), each filling a staging ring of its own; RingBufBG drains the     *)
(* rings into the current SinkBuffer and hands full buffers over in        *)
(* sinkBufQueue; sinkBufBG writes them to the file and puts them back into *)
(* cacheBufQueue.  mutexSink guards the two containers, but sinkBufBG      *)
(* looks at their sizes without it.                                        *)
(*                                                                         *)
(* A staging ring is the bounded queue that RingQueueProofs proves it to   *)
(* be.  main's set-up is Init; joining the threads is Terminated.          *)
(*                                                                         *)
(* A definition marked as a variant is a slip that the properties have to  *)
(* notice; no specification uses it.                                       *)
(***************************************************************************)
EXTENDS SinkBuffer, SequencesExt

CONSTANTS
  AddNum,             \* the entries each producer adds
  ThreadNum,          \* the number of producers
  RingBufSize,        \* the capacity of a staging ring
  batchSizePop,       \* the most entries taken from a ring at a time
  CacheBufQueueSize,  \* the buffers main allocates, and the most kept
  FlushAfter,         \* productive rounds until a buffer is handed over
  MaxBuffers          \* bound: the buffers alive at one time

ASSUME PipelineAssumption ==
  /\ AddNum \in Nat /\ ThreadNum \in Nat \ {0}
  /\ RingBufSize \in Nat \ {0} /\ batchSizePop \in Nat \ {0}
  /\ CacheBufQueueSize \in Nat \ {0} /\ FlushAfter \in Nat
  /\ MaxBuffers \in Nat /\ CacheBufQueueSize <= MaxBuffers

Producers == 1 .. ThreadNum
Buffers == 1 .. MaxBuffers
NoBuffer == 0

\* Variant: the entries of one producer only.
TotalOfOne == AddNum

(* The entries RingBufBG waits for. *)
Total == AddNum * ThreadNum

VARIABLES
  (* the producers *)
  added,         \* i of add(): the entries each producer has finished
  ring,          \* pStagingBuffers
  (* RingBufBG *)
  bgpc, index, n, count, nPerItr, j, nItrWithNonEmptyBuf,
  bgBuffer,      \* its pBuffer
  (* sinkBufBG *)
  sinkpc,
  sinkBuffer,    \* its pBuffer
  (* shared *)
  heap,          \* the buffers that are allocated
  content,       \* their lines
  cacheBufQueue, sinkBufQueue,
  sinkBufBGExit,
  good,          \* outptr's state: FALSE once an operation has failed
  file,          \* what outptr has taken
  lost           \* history: what it has been given and has not taken

bgVars == <<bgpc, index, n, count, nPerItr, j, nItrWithNonEmptyBuf, bgBuffer>>
sinkVars == <<sinkpc, sinkBuffer>>
prodVars == <<added, ring>>
streamVars == <<good, file, lost>>
outVars == <<sinkBufBGExit, streamVars>>
sharedVars == <<heap, content, cacheBufQueue, sinkBufQueue, outVars>>
vars == <<prodVars, bgVars, sinkVars, sharedVars>>

Init ==
  /\ added = [p \in Producers |-> 0]
  /\ ring = [p \in Producers |-> <<>>]
  /\ bgpc = "start" /\ index = 1 /\ n = 0 /\ count = 0 /\ nPerItr = 0
  /\ j = 0 /\ nItrWithNonEmptyBuf = 0 /\ bgBuffer = NoBuffer
  /\ sinkpc = "while" /\ sinkBuffer = NoBuffer
  /\ heap = 1 .. CacheBufQueueSize
  /\ content = [b \in Buffers |-> reset]
  /\ cacheBufQueue = [i \in 1 .. CacheBufQueueSize |-> i]
  /\ sinkBufQueue = <<>>
  /\ sinkBufBGExit = FALSE
  /\ good \in BOOLEAN   \* nobody looks whether open() worked
  /\ file = <<>> /\ lost = <<>>

-----------------------------------------------------------------------------
(* reserve_1 waits for room; the entry is the consumer's from finish_1 on. *)
add(p) ==
  /\ added[p] < AddNum
  /\ Len(ring[p]) < RingBufSize
  /\ added' = [added EXCEPT ![p] = @ + 1]
  /\ ring' = [ring EXCEPT ![p] = Append(@, <<p, added[p] + 1>>)]
  /\ UNCHANGED <<bgVars, sinkVars, sharedVars>>

-----------------------------------------------------------------------------
(* RingBufBG *)

\* Variant: RingBufBG exchanges its buffer without the lock.
mutexSinkNotTaken == FALSE

(* It holds mutexSink from the push of its buffer till it has another.     *)
(* The other critical sections are one access each.                        *)
mutexSinkHeld == bgpc \in {"push", "take"}

(* while (j < AddNum * ThreadNum): another round over the rings, or rest. *)
Round(total) ==
  /\ bgpc' = IF total < Total THEN "scan" ELSE "sleep"
  /\ index' = 1
  /\ nPerItr' = 0

Start ==
  /\ bgpc = "start"
  /\ bgBuffer' = Last(cacheBufQueue)
  /\ cacheBufQueue' = Front(cacheBufQueue)
  /\ Round(j)
  /\ UNCHANGED <<prodVars, n, count, j, nItrWithNonEmptyBuf, sinkVars, heap,
                 content, sinkBufQueue, outVars>>

peek ==
  /\ bgpc = "scan" /\ index <= ThreadNum
  /\ LET len == Len(ring[index])
         m == IF len < batchSizePop THEN len ELSE batchSizePop
     IN  /\ n' = m
         /\ count' = m
         /\ IF m = 0 THEN index' = index + 1 /\ bgpc' = "scan"
                     ELSE index' = index /\ bgpc' = "walk"
  /\ UNCHANGED <<prodVars, nPerItr, j, nItrWithNonEmptyBuf, bgBuffer,
                 sinkVars, sharedVars>>

\* Variant: the last byte is used as well.
FitsExactly(b) == avail(content[b]) >= EntryBytes

(* avail() > entrySize: strictly, so cur_ never reaches end_. *)
Fits(b) == avail(content[b]) > EntryBytes

CopyEntry ==
  /\ bgpc = "walk" /\ count > 0
  /\ Fits(bgBuffer)
  /\ content' = [content EXCEPT ![bgBuffer] =
                   AppendLine(@, ring[index][n - count + 1])]
  /\ count' = count - 1
  /\ UNCHANGED <<prodVars, bgpc, index, n, nPerItr, j, nItrWithNonEmptyBuf,
                 bgBuffer, sinkVars, heap, cacheBufQueue, sinkBufQueue,
                 outVars>>

BufferFull ==
  /\ bgpc = "walk" /\ count > 0
  /\ ~Fits(bgBuffer)
  /\ bgpc' = "push"
  /\ UNCHANGED <<prodVars, index, n, count, nPerItr, j, nItrWithNonEmptyBuf,
                 bgBuffer, sinkVars, sharedVars>>

\* Variant: what was asked for is given back, not what there was.
GivenBackMax == batchSizePop

GivenBack == n

\* Variant: only the last ring of a round is counted.
CountedLast == n

Counted == nPerItr + n

consume ==
  /\ bgpc = "walk" /\ count = 0
  /\ ring' = [ring EXCEPT ![index] = SubSeq(@, GivenBack + 1, Len(@))]
  /\ nPerItr' = Counted
  /\ index' = index + 1
  /\ bgpc' = "scan"
  /\ UNCHANGED <<added, n, count, j, nItrWithNonEmptyBuf, bgBuffer, sinkVars,
                 sharedVars>>

(* A round without entries waits 100 microseconds on workAdded, which     *)
(* nobody notifies.                                                        *)
IdleRound ==
  /\ bgpc = "scan" /\ index > ThreadNum
  /\ nPerItr = 0
  /\ Round(j)
  /\ UNCHANGED <<prodVars, n, count, j, nItrWithNonEmptyBuf, bgBuffer,
                 sinkVars, sharedVars>>

(* ++nItrWithNonEmptyBuf > 2000 *)
Overdue == nItrWithNonEmptyBuf + 1 > FlushAfter

BusyRound ==
  /\ bgpc = "scan" /\ index > ThreadNum
  /\ nPerItr > 0
  /\ j' = j + nPerItr
  /\ nItrWithNonEmptyBuf' = nItrWithNonEmptyBuf + 1
  /\ IF Overdue
     THEN bgpc' = "push" /\ UNCHANGED <<index, nPerItr>>
     ELSE Round(j + nPerItr)
  /\ UNCHANGED <<prodVars, n, count, bgBuffer, sinkVars, sharedVars>>

(* sinkBufQueue.push(pBuffer), under mutexSink. *)
HandOver ==
  /\ bgpc = "push"
  /\ sinkBufQueue' = Append(sinkBufQueue, bgBuffer)
  /\ bgpc' = "take"
  /\ UNCHANGED <<prodVars, index, n, count, nPerItr, j, nItrWithNonEmptyBuf,
                 bgBuffer, sinkVars, heap, content, cacheBufQueue, outVars>>

(* Back to the entry that did not fit, or to the next round. *)
Resume ==
  \/ count > 0 /\ bgpc' = "walk" /\ UNCHANGED <<index, nPerItr>>
  \/ count = 0 /\ Round(j)

(* new Buffer: an address that is not in use. *)
Fresh == CHOOSE b \in Buffers : b \notin heap

\* Variant: the count of rounds goes on over the hand-over.
RoundsGoOn == UNCHANGED nItrWithNonEmptyBuf

RoundsRestart == nItrWithNonEmptyBuf' = 0

TakeBuffer ==
  /\ bgpc = "take"
  /\ \/ /\ cacheBufQueue # <<>>
        /\ bgBuffer' = Last(cacheBufQueue)
        /\ cacheBufQueue' = Front(cacheBufQueue)
        /\ UNCHANGED <<heap, content>>
     \/ /\ cacheBufQueue = <<>> /\ heap # Buffers
        /\ bgBuffer' = Fresh
        /\ heap' = heap \cup {Fresh}
        /\ content' = [content EXCEPT ![Fresh] = reset]
        /\ UNCHANGED cacheBufQueue
  /\ RoundsRestart
  /\ Resume
  /\ UNCHANGED <<prodVars, n, count, j, sinkVars, sinkBufQueue, outVars>>

(* After ten seconds, whatever sinkBufBG has got done in them. *)
SignalExit ==
  /\ bgpc = "sleep"
  /\ sinkBufBGExit' = TRUE
  /\ bgpc' = "done"
  /\ UNCHANGED <<prodVars, index, n, count, nPerItr, j, nItrWithNonEmptyBuf,
                 bgBuffer, sinkVars, heap, content, cacheBufQueue,
                 sinkBufQueue, streamVars>>

-----------------------------------------------------------------------------
(* sinkBufBG *)

TestExit ==
  /\ sinkpc = "while"
  /\ sinkpc' = IF sinkBufBGExit THEN "done" ELSE "look"
  /\ UNCHANGED <<prodVars, bgVars, sinkBuffer, sharedVars>>

\* Variant: the last buffer stays in the queue.
SizeSeenMany ==
  IF bgpc = "push" THEN BOOLEAN ELSE {Len(sinkBufQueue) > 1}

(* sinkBufQueue.size() > 0, read while a push may be half done: then the   *)
(* pointers it is computed from give any answer.                           *)
SizeSeen == IF bgpc = "push" THEN BOOLEAN ELSE {sinkBufQueue # <<>>}

(* If there is nothing, 100 microseconds on workAdded1, never notified. *)
Look ==
  /\ sinkpc = "look"
  /\ \E some \in SizeSeen : sinkpc' = IF some THEN "front" ELSE "while"
  /\ UNCHANGED <<prodVars, bgVars, sinkBuffer, sharedVars>>

(* front(), then pop(). *)
PopFront ==
  /\ sinkpc = "front" /\ ~mutexSinkHeld
  /\ sinkBuffer' = Head(sinkBufQueue)
  /\ sinkBufQueue' = Tail(sinkBufQueue)
  /\ sinkpc' = "write"
  /\ UNCHANGED <<prodVars, bgVars, heap, content, cacheBufQueue, outVars>>

(* The stream takes the first k lines. *)
Takes(lines, k) ==
  /\ file' = file \o SubSeq(lines, 1, k)
  /\ lost' = lost \o SubSeq(lines, k + 1, Len(lines))

\* Variant: after a write that failed the next one may work again.
Cleared == TRUE

(* The bad bit stays: nobody calls clear(). *)
StillBad == FALSE

(* write(): all is taken, or a part from the beginning and the stream is   *)
(* bad, or it was bad before.                                              *)
Write(lines) ==
  \/ good /\ Takes(lines, Len(lines)) /\ good' = TRUE
  \/ good /\ good' = FALSE /\ \E k \in 0 .. Len(lines) : Takes(lines, k)
  \/ ~good /\ Takes(lines, 0) /\ good' = StillBad

\* Variant: reset() is forgotten.
LeftIn(buf) == buf

(* What is left in a buffer that has been given to the stream. *)
AfterWrite(buf) == reset

WriteOut ==
  /\ sinkpc = "write"
  /\ Write(content[sinkBuffer])
  /\ content' = [content EXCEPT ![sinkBuffer] = AfterWrite(@)]
  /\ sinkpc' = "recycle"
  /\ UNCHANGED <<prodVars, bgVars, sinkBuffer, heap, cacheBufQueue,
                 sinkBufQueue, sinkBufBGExit>>

\* Variant: one buffer more is kept.
CacheFullLate == Len(cacheBufQueue) > CacheBufQueueSize

(* cacheBufQueue.size() >= CacheBufQueueSize, read without mutexSink. *)
CacheFull == Len(cacheBufQueue) >= CacheBufQueueSize

\* Variant: the else is missing, the deleted buffer is put back.
DeleteAndKeep ==
  /\ sinkpc = "recycle" /\ CacheFull
  /\ heap' = heap \ {sinkBuffer}
  /\ sinkpc' = "give"
  /\ UNCHANGED <<prodVars, bgVars, sinkBuffer, content, cacheBufQueue,
                 sinkBufQueue, outVars>>

DeleteBuffer ==
  /\ sinkpc = "recycle" /\ CacheFull
  /\ heap' = heap \ {sinkBuffer}
  /\ sinkBuffer' = NoBuffer
  /\ sinkpc' = "while"
  /\ UNCHANGED <<prodVars, bgVars, content, cacheBufQueue, sinkBufQueue,
                 outVars>>

KeepBuffer ==
  /\ sinkpc = "recycle" /\ ~CacheFull
  /\ sinkpc' = "give"
  /\ UNCHANGED <<prodVars, bgVars, sinkBuffer, sharedVars>>

GiveBack ==
  /\ sinkpc = "give" /\ ~mutexSinkHeld
  /\ cacheBufQueue' = Append(cacheBufQueue, sinkBuffer)
  /\ sinkBuffer' = NoBuffer
  /\ sinkpc' = "while"
  /\ UNCHANGED <<prodVars, bgVars, heap, content, sinkBufQueue, outVars>>

-----------------------------------------------------------------------------
Drain ==
  \/ Start \/ peek \/ CopyEntry \/ BufferFull \/ consume \/ IdleRound
  \/ BusyRound \/ HandOver \/ TakeBuffer

RingBufBG == Drain \/ SignalExit

sinkBufBG ==
  \/ TestExit \/ Look \/ PopFront \/ WriteOut \/ DeleteBuffer \/ KeepBuffer
  \/ GiveBack

(* main has joined the producers and the two background threads. *)
AllDone ==
  /\ \A p \in Producers : added[p] = AddNum
  /\ bgpc = "done"
  /\ sinkpc = "done"

Terminated == AllDone /\ UNCHANGED vars

Next ==
  \/ \E p \in Producers : add(p)
  \/ RingBufBG
  \/ sinkBufBG
  \/ Terminated

Spec == Init /\ [][Next]_vars

(***************************************************************************)
(* The scheduler runs every thread that can go on.  mutexSink is asked for *)
(* a finite number of times by RingBufBG, so weak fairness is enough for   *)
(* sinkBufBG to get it.  Nothing is promised of the ten seconds before     *)
(* SignalExit: what holds here does not need the exit flag to be set.      *)
(***************************************************************************)
FairSpec ==
  /\ Spec
  /\ \A p \in Producers : WF_vars(add(p))
  /\ WF_vars(Drain)
  /\ WF_vars(sinkBufBG)

-----------------------------------------------------------------------------
(* Types of the variables. *)
TypeOK ==
  /\ added \in [Producers -> 0 .. AddNum]
  /\ \A p \in Producers :
       Len(ring[p]) <= RingBufSize /\ ring[p] \in Seq({p} \X (1 .. AddNum))
  /\ bgpc \in {"start", "scan", "walk", "push", "take", "sleep", "done"}
  /\ index \in 1 .. ThreadNum + 1
  /\ n \in 0 .. batchSizePop /\ count \in 0 .. n
  /\ nPerItr \in 0 .. Total /\ j \in 0 .. Total
  /\ nItrWithNonEmptyBuf \in 0 .. FlushAfter + 1
  /\ bgBuffer \in Buffers \cup {NoBuffer}
  /\ sinkpc \in {"while", "look", "front", "write", "recycle", "give", "done"}
  /\ sinkBuffer \in Buffers \cup {NoBuffer}
  /\ heap \subseteq Buffers
  /\ content \in [Buffers -> Seq(Producers \X (1 .. AddNum))]
  /\ cacheBufQueue \in Seq(Buffers) /\ sinkBufQueue \in Seq(Buffers)
  /\ sinkBufBGExit \in BOOLEAN
  /\ good \in BOOLEAN
  /\ {file, lost} \subseteq Seq(Producers \X (1 .. AddNum))

(* The buffers RingBufBG and sinkBufBG have to themselves, if any. *)
BgOwns ==
  IF bgBuffer = NoBuffer \/ bgpc = "take" THEN <<>> ELSE <<bgBuffer>>
SinkOwns == IF sinkBuffer = NoBuffer THEN <<>> ELSE <<sinkBuffer>>

(***************************************************************************)
(* Every allocated buffer is in exactly one hand: with one of the threads  *)
(* or in one of the containers, once.  None is written to the file while   *)
(* RingBufBG fills it, used after delete, deleted twice or leaked.         *)
(***************************************************************************)
OneOwner ==
  LET held == sinkBufQueue \o cacheBufQueue \o BgOwns \o SinkOwns
  IN  ToSet(held) = heap /\ IsInjective(held)

(***************************************************************************)
(* front() and back() are called without a look at what they are called    *)
(* on: sinkBufBG saw a size without the lock, perhaps in the middle of a   *)
(* push, and RingBufBG did not look at all.  There is an element by the    *)
(* time the lock is theirs.                                                *)
(***************************************************************************)
FrontExists ==
  /\ sinkpc = "front" /\ ~mutexSinkHeld => sinkBufQueue # <<>>
  /\ bgpc = "start" => cacheBufQueue # <<>>

(***************************************************************************)
(* The unlocked look at the cache is stale when sinkBufBG puts its buffer  *)
(* back, yet the cache never holds more than CacheBufQueueSize buffers, so *)
(* the vector that the look reads is never reallocated.                    *)
(***************************************************************************)
CacheBounded ==
  /\ Len(cacheBufQueue) <= CacheBufQueueSize
  /\ sinkpc = "give" => Len(cacheBufQueue) < CacheBufQueueSize

(***************************************************************************)
(* append() does not check: no buffer is ever filled beyond its array, and *)
(* the byte at cur_ that debugString() overwrites is always inside it.     *)
(***************************************************************************)
NoOverrun == \A b \in heap : length(content[b]) < SinkBufferSize

(***************************************************************************)
(* A buffer is handed over only with lines in it, a cached one has none,   *)
(* and "nPerItr > 0, there are some log entries in the buffer".            *)
(***************************************************************************)
EmptyWhereDue ==
  /\ \A b \in ToSet(sinkBufQueue) : content[b] # reset
  /\ \A b \in ToSet(cacheBufQueue) : content[b] = reset
  /\ bgpc = "scan" /\ nPerItr > 0 => content[bgBuffer] # reset

Log == INSTANCE AsyncLog WITH logged <- added

LogSpec == Log!Spec

(* The entries in p's ring that are not in a buffer yet. *)
NotCopied(p) ==
  IF bgpc \in {"walk", "push", "take"} /\ index = p
  THEN SubSeq(ring[p], n - count + 1, Len(ring[p]))
  ELSE ring[p]

(* The lines in the buffer that a thread has, if it has one. *)
Held(owns) == IF owns = <<>> THEN <<>> ELSE content[owns[1]]

(* Where the lines of p are, from the one it has come furthest to.         *)
Stages(p) ==
  <<file, lost, Held(SinkOwns)>>
    \o [i \in DOMAIN sinkBufQueue |-> content[sinkBufQueue[i]]]
    \o <<Held(BgOwns), NotCopied(p)>>

(***************************************************************************)
(* No entry is lost, doubled or overtaken by a later one of its producer   *)
(* on the way: what is in the file, refused by a bad stream, with          *)
(* sinkBufBG, in sinkBufQueue, with RingBufBG and in the ring is, in this  *)
(* order, all that was added.  What is in a buffer when the program ends   *)
(* never gets to the file, and only a bad stream loses anything.           *)
(***************************************************************************)
Conservation ==
  /\ \A p \in Producers :
       LET s == Stages(p)
           numbers == [a \in DOMAIN s |-> Log!Numbers(s[a], p)]
       IN  /\ UNION {numbers[a] : a \in DOMAIN s} = 1 .. added[p]
           /\ \A a, b \in DOMAIN s :
                a < b => \A i \in numbers[a], k \in numbers[b] : i < k
           /\ \A a \in DOMAIN s : Log!Rising(s[a], p)
  /\ good => lost = <<>>

(***************************************************************************)
(* RingBufBG leaves its loop, by its count of entries, when every producer *)
(* is finished and every ring drained, and not before.                     *)
(***************************************************************************)
DrainedAtExit ==
  bgpc \in {"sleep", "done"} =>
    \A p \in Producers : added[p] = AddNum /\ ring[p] = <<>>

(***************************************************************************)
(* Main's joins return: RingBufBG's count comes out right, so it gets to   *)
(* its last sleep, and when it has slept every thread comes to its end.    *)
(***************************************************************************)
Termination ==
  /\ <>(bgpc \in {"sleep", "done"})
  /\ sinkBufBGExit ~> AllDone

(***************************************************************************)
(* A line that has been handed over gets to the file, however the looks at *)
(* the size go wrong, unless sinkBufBG is told to stop first or the stream *)
(* is bad.  FairSpec does not say that it ever is told to.                 *)
(***************************************************************************)
HandedIsWritten ==
  \A p \in Producers, i \in 1 .. AddNum :
    (\E b \in ToSet(sinkBufQueue) : <<p, i>> \in ToSet(content[b]))
      ~> (<<p, i>> \in ToSet(file) \/ sinkBufBGExit \/ ~good)

=============================================================================
