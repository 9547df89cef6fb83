# Verification of LockFreeRingBuf

TLA+ modules for the program in this repository, the TLC configurations that
check them on small instances, and theorems checked by TLAPS.  Everything is
written from the source: a definition bears the name of the function, variable
or expression it models wherever TLA+ allows it, and `PROJECT.json` ("map")
gives the lines.

## 1. The system

The program is a prototype of an asynchronous logger.  Two threads log into a
staging ring each, one background thread collects the entries into large
buffers, another writes the buffers to a file.

```
 add(0) --reserve_1/finish_1--> spsc_queue 0 --+
                                               +-- peek/consume --> RingBufBG
 add(1) --reserve_1/finish_1--> spsc_queue 1 --+                      |   ^
                                             sinkBufQueue (mutexSink) |   | cacheBufQueue
                                                                      v   | (mutexSink)
                                            ./fk.log <--- write ---- sinkBufBG
```

`active.h` offers an active object, which runs callbacks sent to it through a
`shared_queue`; the branches of `add` and `main` under `USE_ACTIVE` are meant to
use it.  `Cycles` measures the frequency of the time stamp counter before
`main` and converts cycles to time.

| Component | Source | State | Operations | Touched by |
|---|---|---|---|---|
| `spsc_queue` | `include/RingQueue.h` | `fifo_.in`, `fifo_.out` (free-running `unsigned`), `arr_` | `try_push`, `wait_push`, `push(n)`, `try_reserve_1`, `reserve_1`, `finish_1`; `pop`, `pop(n)`, `peek`, `consume`; `begin_buf`, `end_buf` | one producer and one consumer, no lock |
| `SinkBuffer` | `include/SinkBuffer.h` | `cur_`, `data_` | `append`, `add`, `current`, `avail`, `length`, `data`, `reset`, `bzero`, `debugString`, `toString` | whoever holds the pointer, and a debugger |
| log pipeline | `src/LockFreeRingBuffer.cpp` | `sinkBufQueue`, `cacheBufQueue`, `sinkBufBGExit`, the threads' locals, the file | `add`, `RingBufBG`, `sinkBufBG`, `main` | `mutexSink` for the containers, but their sizes are read without it |
| `shared_queue` | `include/shared_queue.h` | `queue_`, `m_`, `data_cond_` | `push`, `try_and_pop`, `wait_and_pop`, `empty`, `size` | any threads |
| `Active` | `include/active.h` | `mq_`, `done_`, `thd_` | `createActive`, `send`, `run`, destructor | senders, worker, owner |
| `Cycles` | `src/Cycles.cpp`, `include/Cycles.h` | `cyclesPerSec` | `init` (calibration), `toSeconds`, `fromSeconds`, `toNanoseconds`, `fromNanoseconds`, `toMicroseconds`, `sleep` | a static `Initialize` object and any thread |
| `StringPiece` | `include/StringPiece.h` | `ptr_`, `length_` | `set`, `clear`, `remove_prefix`, `remove_suffix`, the comparisons | its owner |
| `Initialize`, `Fence`, `Util`, `Portability` | `include/` | none | helpers | - |

### What is hard, and what has to be right

*Ring.*  All synchronisation is the order in which elements and indices are
written.  Each side computes free space or entries from one load of the other
side's index and goes on while that index moves; indices wrap at 2^32 and are
masked; a batch is split at the end of the array; `peek` and `reserve_1` hand
out pointers into the array.  Right means: the counts are exact across every
wrap, no slot is ever used by both threads, the consumer gets exactly the
items pushed, whole and in order, and a blocked producer gets out.

*Pipeline.*  Buffers travel by pointer through two containers, `new` and
`delete`; `sinkBufBG` looks at the sizes without the lock, then acts.
`RingBufBG` may change its buffer between `peek` and `consume`, flushes after a
number of rounds, and stops by counting.  Right means: one owner for each
buffer, no `front()` of an empty queue, no write past a buffer's end, no entry
lost, doubled or overtaken, all rings drained when counting ends, a stream that
fails loses only the lines from then on, and every thread comes to its end.

*Active object.*  `notify_one` comes after the unlock and is forgotten when
nobody waits; the quit message races the worker's sleep.  Right means: no
thread sleeps next to an item meant for it, callbacks run in order and once,
the destructor returns, and only after everything sent before it has run.

*Memory.*  The ring has no atomic type, only `asm` statements with fences, and
not the same ones in every operation.  Right means: they are enough on the
memory the program is compiled for.

*Calibration.*  `init` pairs readings of two clocks.  The thread may be
preempted between the two, the wall clock may be set, and the difference of two
readings is stored unsigned; all that protects the result is that two
measurements in a row have to agree.  Right means: one undisturbed measurement
of the two is enough, the loop ends, and a second call changes nothing.

The list with lines and properties is "hazards" in `PROJECT.json`.

## 2. The modules

| Module | Models | Kind |
|---|---|---|
| `RingIndex` | index arithmetic of `__spsc_queue`: `Plus`, `Readable`, `FreeSpace`, `SlotOf`, `FirstRun`, `BatchSlot`, `NextSlot` | operators |
| `BoundedFifo` | what the ring promises | abstract specification |
| `RingQueue` | `spsc_queue`, producer and consumer, one step for each access to shared memory | detailed specification |
| `RingMemory` | the same with store buffers, fences and early loads | detailed specification |
| `SinkBuffer` | the buffer, as the sequence of its lines with their sizes | operators |
| `SinkBytes` | the buffer byte by byte, with `bzero` and the debugging views | specification |
| `AsyncLog` | what the pipeline promises | abstract specification |
| `LogPipeline` | `add`, `RingBufBG`, `sinkBufBG`, `main` | detailed specification, composes the ring's abstraction with `SinkBuffer` |
| `SharedQueue` | `shared_queue` | specification |
| `Actor` | what `Active` promises | abstract specification |
| `Active` | `Active`, on an instance of `SharedQueue` | detailed specification |
| `Calibration` | `Cycles::init`, with the two clocks it reads | specification |
| `CycleTimes` | the conversions of `Cycles` | operators, checked over all small arguments |
| `StringPieces` | `StringPiece`: setting, cutting and comparing | specification |
| `MC...` | small constants and symmetry for TLC | |
| `RingIndexProofs`, `RingQueueProofs`, `RingMemoryProofs`, `SharedQueueProofs`, `ActiveProofs`, `LogPipelineProofs`, `BytesProofs`, `CyclesProofs` | | proofs |

### From code to steps

**`RingQueue`.**  A step is one access the other thread can see: the load of
its index together with the decision taken on it, the first or the last store
of an element, the store of one's own index.  `ppc` and `cpc` say where a
thread is in its call.  Elements are larger than a word, so a slot is `Torn`
between `StoreBegin` and `StoreEnd` (`FillBegin` and `FillEnd` when the caller
fills a reserved slot); a consumer that looked at such a slot would read
`Torn`, and `CopiesAreFifo` would see it.  A batch is copied in any order,
since `memcpy` promises none.  The loops of `wait_push` and `reserve_1` are
the states `wait_push` and `wait_reserve`.  `pop` may leave the element behind
or a moved-from one.  `Publish`, `finish_1`, `PopDone` and `consume` are the
index stores; `queue` is a history variable, changed by them only.

Here steps take effect in program order and are seen at once.  That is what
the fences of the code are meant to give; `RingMemory` examines whether they do.

**`RingMemory`.**  Each thread has a store buffer (`pbuf`, `cbuf`) between itself
and the arrays and index words in memory; `DrainProducer` and `DrainConsumer`
move one store to memory.  On x86 ordinary stores leave in program order, but
those of string instructions or non-temporal ones do not among themselves, and
an optimised build does copy elements with `rep movs`; so with `NonTemporal`
stores to different slots, and a slot and an index, may overtake one another
unless an `sfence` stands between (`Ordered`).  `push`, `finish_1`, `pop(T&)` and
`consume` have an `sfence` before they bump the index; `pop(n)` has an `lfence`
after the test of `in` and an `mfence` before it bumps `out`.  A thread sees its
own stores, and of the other's only what has left the buffer: the index it
tests may be several bumps old.  A load of the other's index and what is
decided on it is one step, since only the load touches shared memory.

The processor does not reorder loads, but where no `asm` with a memory clobber
stands between the test of `in` and the copies of elements, that is in
`pop(T&)` and between `peek` and the caller's reads, the compiler may.
`MayHoist` is the set of calls where it does.  The configuration has `pop_n`
in it, to check that its `lfence` makes that harmless, and leaves the other two
out: nothing in the source forbids it there, but the elements can be loaded
only through an address computed from `out` after the branch on the test, and the
code gcc makes of it at `-Os`, `-O2` and `-O3` has the load of `in` first.
`CopiesPublished` would not hold otherwise: the ring relies on the compiler
there, and no run or theorem covers that reliance.  The functions of `Fence.h` are never called.

**`LogPipeline`.**  `add(p)` is `reserve_1`, the filling and `finish_1` in one
step: the ring is replaced by the bounded queue that it is proved to implement
(`Refinement` in `RingQueueProofs`, `MemoryRefinesFifo` in `RingMemoryProofs`), and the room may be seen late but never wrongly.  `peek` fixes `n`
while the ring goes on filling; `CopyEntry`, `BufferFull` and `consume` are
the walk.  The critical section that hands a buffer over is two steps,
`HandOver` and `TakeBuffer`, because `sinkBufBG` can look in between; while
`mutexSinkHeld`, `PopFront` and `GiveBack` cannot run.  A `size()` of the deque
read while a push is half done gives *either* answer (`SizeSeen`): it is
computed from several pointers and the read is a data race.  The `size()` of
the vector is computed from a pointer that `pop_back` changes in a single
store and from one that stays, as the vector is never reallocated;
`CacheBounded` is what makes that so.  `sinkBufBGExit` is a plain `bool`, read by a
loop whose body calls functions the compiler cannot see through, so each
iteration reads it again.  Both waits of the background threads are timeouts:
nobody notifies, a thread just goes round.  `good` is the state of the output
stream.  `open` may have failed (`Init`); a `write` may fail having taken any
part of its lines, and from then on the stream takes nothing, since nobody calls
`clear()` (`StillBad`).  The code does not look, and resets the buffer all the
same: `lost` is what it has thrown away.  The ten seconds of sleep before
the exit flag order nothing, so `SignalExit` may come at any time after them.

**`SharedQueue`, `Active`.**  A critical section is one step.  The two places
between them are states: after the unlock and before `notify_one`, and woken
without the lock.  `notify_one` wakes any one waiting thread, spurious wakeups
happen at any time.  In `Active` one callback sends another while it runs.

**`SinkBytes`.**  The calls of `RingBufBG` on a buffer in their order: header
stored through `current()`, `add(12)`, `append`.  `reset` and `bzero` come
between lines, and `debugString` wherever a debugger stops except between the
header and `add(12)`: there its terminator falls on the first byte of the header,
which is already stored beyond `cur_`.

**`Calibration`.**  Time passes in ticks, for the wall clock and the counter
alike; a microsecond is several ticks, so a reading of `gettimeofday` is
rounded down.  A step is one reading and what is computed from it.  `Preempted`
lets time pass between any two steps, `ClockSet` moves the wall clock by itself.
`Micros` is the difference as the code computes it, with the wrap of an
unsigned.  Doubles are exact fractions.  `spoilt` says of the measurement that
it was disturbed between the two readings of a pair.  An idealisation: the counter
is read at the very instant of the clock reading it is paired with (lines 120 and 124, 129 and
134 of `Cycles.cpp`) unless the thread is preempted between them; the time the
code takes from one pair to the next is in `LoopTicks`.  The calls of `init` follow
one another.  `MeasurementAssumption`
says that a measurement with all its preemptions takes less than `Modulus`
microseconds: in the code that is 2^64 of them, half a million years, and a
difference that did wrap around would be taken for a small one.

**`CycleTimes`, `StringPieces`.**  The first is arithmetic: a state is one call,
and `(uint64_t) (x + 0.5)` rounds half up.  Frequency 0 as the optional argument
means the measured one, as in the code.  In the second, two pieces point into
one memory, overlap or not, and `text` is what a string of its own would hold.
`CycleTimes` and `StringPieces` name their state and actions apart from those of
`Calibration` and `SinkBytes` (`TimesSpec`, `PieceSpec`), because the proofs of each
pair share a module.

Definitions marked as *variants* are plausible slips (a dropped guard, a
swapped order, an off-by-one); no specification uses them.  Each property has
one that breaks it, listed in "mutants".

## 3. The runs

| Run | Module, configuration | Bounds | Question |
|---|---|---|---|
| `ring_safe` | `MCRingQueue`, `RingSafe.cfg` | 4 slots, width 8, batches up to 5, two values, symmetry | every safety property of the ring, refinement of `BoundedFifo` |
| `ring_tso` | `RingMemory`, `RingTSO.cfg` | 2 slots, width 8, batches up to 2, two values | the fences are enough, and a blocked producer gets out |
| `log_safe` | `MCLogPipeline`, `LogSafe.cfg` | 2 producers of 4 entries, rings of 2, 2 cached buffers, 48 bytes each, flush after 1 round | ownership, bounds, nothing lost but by a bad stream, refinement of `AsyncLog` |
| `log_live` | `MCLogPipeline`, `LogLive.cfg` | 2 producers of 3 entries, rings of 1, 1 cached buffer | the count comes out, handed-over lines are written, all threads end |
| `sink_bytes` | `SinkBytes`, `Bytes.cfg` | 39 bytes, 13 a line, two kinds of line | the bytes are the lines, and none is behind the array |
| `shared_safe` | `MCSharedQueue`, `SharedSafe.cfg` | 4 threads, 2 items, 4 places, symmetry | no lost wakeup |
| `active_safe` | `MCActive`, `ActiveSafe.cfg` | 2 senders of 2 callbacks, one of which sends another | refinement of `Actor`; the destructor returns, what is sent is run |
| `cal_safe` | `MCCalibration`, `CalSafe.cfg` | 6 ticks a microsecond, 4 microseconds a second, 2 preemptions, 1 setting of the clock, 2 calls | one good measurement is enough, later calls change nothing, calibration ends |
| `cal_drift` | `MCCalibration`, `CalDrift.cfg` | 2 preemptions of 1 to 4 ticks | *violation*: the accuracy the comment states |
| `times_safe` | `CycleTimes`, `TimesSafe.cfg` | 25 cycles, frequencies up to 20, 12 ns a second, 3 a microsecond | conversions there and back, sleep |
| `times_rounded` | `CycleTimes`, `TimesRounded.cfg` | the same | *violation*: `toMicroseconds` rounds |
| `string_pieces` | `StringPieces`, `Strings.cfg` | 4 bytes of three values | one order, and cuts show what is left |

*Why the bounds are enough.*  The ring's indices wrap at `Modulus`: with 8 and
4 slots, every combination of wrapped and unwrapped indices occurs, batches are
split at the end of the array as 1+3, 2+2 and 3+1, and requests are larger than
the ring (5 of 4).  Two values tell a slot's
old content from its new one; with symmetry they are interchangeable, since no
property names one.  `RingMemory` makes do with 2 slots, where a stale index
is at once a whole ring old.  Neither ring run has a counter that needs a cap:
the state space is finite as it is, since a store buffer holds no more than what
the free slots allow.

In the pipeline, 48 bytes hold two lines of 16 (a third would fit exactly and
is refused, because the test is a strict one), so buffers fill in the middle of
a walk and at its end, are flushed by the count of rounds, run out (`new`), and
come back to a full cache (`delete`).  `MaxBuffers` (6) bounds the heap
and guards `new`; five is the most that are ever alive with these constants,
so it cuts nothing off.  `FlushAfter` is 2000 in the code.

`MaxLen` bounds the shared queue and guards its push.  In `SharedSafe.cfg` it does
cut longer queues off; the property compares the length with the number of
threads on their way, at most four, so a queue of four is enough to exceed
what three can answer for.  In the `Active` runs it is 9, and no run of
two senders sends as much (4 callbacks, 4 sent by them, 1 quit message).
`MaxSends` bounds what each sender sends, which is why these runs end: `Gone`
stutters, as do `Terminated` in the pipeline and `Finished` in the calibration;
deadlock is checked in every run.

In `Bytes.cfg` three lines of 13 bytes would fill the 39 bytes exactly, so the
third is refused; with one byte less the test would not matter.  Headers are 12
bytes as in the code.

The figures of the calibration are small but keep the proportions the
argument needs: the threshold is longer than a microsecond and shorter than a
second, one microsecond of it is more than the tolerance (1/10000 against
1/100000 in the code, 1/3 against 1/4 here), and two turns of the loop are less
than the tolerance of one measurement: at most 4 ticks against 18 / 4 here, and a tenth of a
microsecond of 10 ms in the code, so that a turn, one `gettimeofday`, has to take
less than 50 ns.  `CalibrationEnds` needs this: with turns of up to 3 ticks two
measurements may go on disagreeing for ever.  The clock is set back by 20 ticks, more than a
measurement takes, so that `micros` is huge, or forward by 9, so that it is too large.
`MaxDelays` and `MaxClockSteps` bound what can happen to one
calibration; between them they can spoil both measurements that are compared.
`Modulus` (64) stands for 2^64: a wrapped difference is far beyond any real one.

The arguments of the conversions reach beyond two seconds and the frequencies
from far below a cycle per nanosecond to above it; both halves of every rounding
occur.  Four bytes of memory, the last one Nul, and three values are enough for
overlap, prefixes, empty pieces, a Nul inside and a difference at the first or a
later byte.

### The properties

*Ring.*  `IndexExact`: the index tests tell the exact number of entries and
free slots.  `ChecksStayValid`: what a thread saw before it acted still holds
when it acts.  `SlotsDisjoint`: no slot is used by both threads.
`WindowIsQueue` and `CopiesAreFifo`: what is published is whole and in place,
what is copied out is the oldest items in order.  `FifoSpec`: refinement; each
call takes effect at one instant.

*Ring with store buffers.*  `OldIsSafe`: an index read late, and every one still
on its way, errs on the safe side.  `CopiesPublished`: an element copied is the
one that was published, never one loaded or announced too early.  `NoClobber`: no
store of the producer meets a slot the consumer still reads or has not finished
leaving.  `FifoSpec`: the same refinement.  `WaitEnds`: no producer waits for ever.

*Pipeline.*  `OneOwner`, `FrontExists`, `CacheBounded`, `NoOverrun`,
`EmptyWhereDue` are about the buffers.  `Conservation` accounts for every entry
of every producer: the file, what the stream refused, `sinkBufBG`,
`sinkBufQueue`, `RingBufBG` and the ring hold consecutive parts of the numbers
1 to `added[p]`, each in rising order, so nothing is lost, doubled or overtaken, and
only a bad stream loses any.  `LogSpec`: the
file is, for each producer, its first lines without a gap, whenever the stream
fails.  `DrainedAtExit`: counting ends exactly when all is drained.  `Termination`
and `HandedIsWritten` are the liveness properties.  That the lines in the buffer
`RingBufBG` holds at the end, and those in `sinkBufQueue` when the flag is
seen, never reach the file is what the code does; `HandedIsWritten` has the
flag in it for that reason, `Conservation` allows them where they are, and
`LogSpec` says nothing of the last lines: no property excludes this loss.  Nor
does one bound the number of buffers, since the code does not.

*Buffer.*  `BytesAreLines`: what is written is the lines, over reuse, `bzero` and
a terminator.  `NothingBehind`: no byte is stored behind the array.

*Active object.*  `NoLostWakeup`: every item left over has a thread on its way
to it if another one sleeps.  `ActorSpec`: refinement of `Actor`.
`JoinReturns`: the destructor returns.  `EverySendRuns`: every callback sent while
the object lived is run, the ones sent by callbacks (up to 4 more here) included.

*Cycles.*  `OneGoodIsEnough`: whatever the other measurement was, an undisturbed
one bounds the error of the result by a microsecond for each reading and the tolerance.
`FrequencySettled`: a second call changes nothing.  `CalibrationEnds`: two
measurements agree in the end, because the loop of `init` is left right after a
microsecond has turned and so the next measurement starts there.  `RoundTrip`,
`SleepIsSeen`: conversions lose no more than one rounding.

*StringPiece.*  `ComparesTexts`: four operators, `==`, `compare` and `starts_with`
are one dictionary order.  `ShowsWhatIsLeft`: cuts are cuts of the text.

### Where the code and its comments differ

* `cal_drift`: the comment in `Cycles::init` (`src/Cycles.cpp:112`) says that two
  measurements in a row within 0.001% of each other give a frequency that good
  (10 us of drift a second).  `DriftWithinTolerance` fails: with preemptions only
  where they do not separate a pair of readings, two measurements may start
  equally late in a microsecond, agree, and both be off by nearly a microsecond
  in 10000, ten times as much.
* `times_rounded`: `toMicroseconds` is documented as rounded and cuts off, since
  the last division is an integer one; `MicrosRounded` fails.

### Fairness

* `RingMemory!FairSpec`: a store in a buffer reaches memory some time (weak
  fairness of `Drain`, which the hardware gives); the loops of `wait_push` and
  `reserve_1` look again; the consumer's thread (`RingBufBG`) is a loop that keeps
  asking for entries and finishes a call it has begun.  Nothing makes the
  producer call.
* `LogPipeline!FairSpec`: weak fairness for each thread.  `mutexSink` is
  requested a finite number of times by `RingBufBG`, so no strong
  fairness is needed for `sinkBufBG` to get it.  `SignalExit` is not fair: nothing
  says when the ten seconds are over, and `HandedIsWritten` cannot be had by
  just stopping.
* `Active!FairSpec`: a thread inside `push` goes on to `notify_one`; the worker
  and a joining owner go on.  Nothing forces a sender to send or the owner to
  destroy, and spurious wakeups are not fair: they may not come to the rescue.
* `Calibration!FairSpec`: weak fairness of `init`: the calibrating thread is
  scheduled for as long as it runs.  Preemptions and clock settings are bounded, as
  without an end of them no two measurements need agree.

### Preconditions taken from the callers

One producer and one consumer thread for each ring; `n >= 0` for `push`, `pop`
and `peek` (the code turns a negative `n` into a huge `unsigned`); the callers
of `peek` wrap with `begin_buf`/`end_buf` and consume no more than they got;
`finish_1` is called once for each reservation; a line fits into an empty
buffer; nobody sends to an `Active` once its destructor has begun, and the owner is not
its worker; a debugger does not call `debugString` between a header and its
`add`; `remove_prefix` and `remove_suffix` remove no more than there is; the
conversions get arguments for which a `double` is exact enough.

## 4. The proofs

All theorems hold for every value of the constants under the named assumptions
of the modules: any number of threads, producers, entries, slots and buffers, any
width of the indices, any batch size, any figures of the clocks.  Every safety
property, action property and refinement that a passing run checks is also a theorem.

The provers cannot use the induction rules of the library, which have an operator as
a parameter.  Where induction over data is needed, the proofs argue with a least
counterexample instead: `LeastOfNats` (from the well-foundedness of the natural
numbers, which the library states without such a parameter) gives the least
element of a set of natural numbers.

### The ring

Assumptions: `RingAssumption` (the capacity divides the width of an `unsigned` and
is smaller; that masking is a remainder is due to the power of two that the
`static_assert` demands), `ValuesAssumption`, and for the store buffers
`MemoryAssumption`.

* `RingIndexProofs`: lemmas on the arithmetic.  Z3 does little with `%` of two
  constants, so everything rests on quotient and remainder (`DivMod`,
  `ModUnique`, `ModSame`, `ModMod`).  `ReadableAfterPublish`,
  `ReadableAfterRetire` and `FreeSpaceIsRest` say that the differences stay
  exact when an index wraps; `BatchIsConsecutive` that the two runs of a batch
  copy are the consecutive slots of the ring; `SlotsDiffer` that fewer than
  `Capacity` steps never come back to a slot.
* `RingQueueProofs`: `Invariance` proves `Spec => []IInv`.  `IInv` is `TypeOK`,
  `IndexExact`, `ChecksStayValid`, `WindowIsQueue`, `CopiesAreFifo` and two
  strengthenings.  `WindowIsQueue` alone is not inductive: a `Publish` makes new
  slots part of the window, and that they hold the batch has to be known
  before (`StoredInPlace`).  `CopiesAreFifo` is not either: `PeekRead` reads the
  slot at its pointer, and that this is the slot of the next entry has to be
  known (`WalkInPlace`).  There is a lemma for each action (`TryPushStep` ...
  `ConsumeStep`), and the ones that start a call or store an index share
  `ProducerStarts`, `ConsumerStarts`, `Publishes` and `Retires`.
  `TypeCorrect`, `IndicesExact`, `StaleChecksAreSafe`, `WindowHoldsQueue`,
  `ConsumerGetsFifo` and `NoSharedSlot` follow.  `Refinement` proves
  `Spec => FifoSpec`: `Publish` and `finish_1` are `Enqueue`, `PopDone` and
  `consume` are `Dequeue`, the start of a call forgets the last result,
  everything else stutters.
* `RingMemoryProofs`: the same on x86 memory, with element stores that may or may
  not overtake one another (`NonTemporal`).  Positions are counted back from
  `in`: the entry d places before it is `Item(d)` and lies at `Pos(d)`.  `Chain`
  says that the index stores pending in a buffer follow one another, between the
  index word in memory and the thread's own index; `Fenced` that an index store
  beyond a slot has a fence between itself and the store to that slot; `ProducersStores` and `ConsumersStores` that every pending store to a
  slot carries what its position demands; `Contents` that memory holds the rest.  These make up `MInv`,
  which is inductive (`MemoryInvariance`) and gives `LoadedIndicesAreSafe` and
  `SlotsAreExclusive` without a condition.  `CInv` adds
  `CopiesPublished` and what is known of elements loaded early (`Early`).
  `FencesSuffice` (`CopiesPublished`) and `MemoryRefinesFifo` (`FifoSpec`) have the hypothesis
  `MayHoist \subseteq {"pop_n"}`: the compiler loads elements early only in
  `pop(n)`, where the `lfence` discards them.  Without it both are false, as
  section 2 explains; it is the configuration's value.

### The pipeline

Assumptions: `PipelineAssumption`, `SinkBufferAssumption`.  The stream may fail
at any time.  All in `LogPipelineProofs`.

* *Buffers.*  `TInv` is the types with two facts about the threads: the entries `RingBufBG`
  still has to walk over are in the ring (`Walk`), and `sinkBufBG`, once past its
  look at the size without the lock, will find a buffer (`Waits`); with
  `CacheBounded` in it, it is inductive and gives `CacheStaysBounded` and
  `FrontIsThere`.  `BuffersHold` adds that the test of `avail` leaves room for
  the line that follows it.  `BuffersOwned` writes the possible owners, the
  two containers and the two threads, as sets of buffers that are disjoint, with
  the containers free of repetitions (`Owners`); `AppendedTo`, `LastTaken` and
  `HeadTaken` say what the operations on the containers do to these sets.
  `EmptyOnlyWhereDue` adds which buffer in a thread's hands has lines (`Due`): a
  store to a buffer disturbs no other owner's, because it has one owner.
* *The count.*  `RingBufBG` stops when it has counted as many entries as there
  will be.  `CountInv` says what it counts: the set of the entries that have left
  the rings has as many elements as `j`, plus those of the round that `j` does
  not have yet (`Uncounted`).  A sum over the producers would be an induction; the
  cardinality of a set of pairs needs none.  When the count is full the set is
  all the lines there are, so every producer is through and every ring is empty
  (`NothingLeftInRings`); `TypeCorrect` comes with it, as the bound of `j` needs the count.
* *The order.*  `OrderInv` cuts the numbers of each producer at five places
  (`Along`): up to f they are in the file, then come what the stream refused,
  what `sinkBufBG` holds, what is queued, what `RingBufBG` has copied, and what is
  not copied yet, up to `added[p]`.  `Holds(s, p, lo, hi)` says that a sequence
  has exactly the lines lo + 1 to hi of p, in rising order, whatever lines of others are in
  between; there is a lemma for joining two such parts, for cutting one in two and for
  adding a line, and one step of the pipeline moves one cut.  A `write` that fails
  halfway cuts what `sinkBufBG` holds anywhere.  `NothingLostOrOvertaken` (`Conservation`) and
  `PipelineIsAsyncLog` (`LogSpec`: `add` is `Log`, `WriteOut` is `Write`, the rest
  stutters) follow.

### The active object

* `SharedQueueProofs`: `WakeupsSuffice` and `QueueTypeCorrect`, under
  `SharedQueueAssumption` (finitely many threads).  `QInv`, the types together
  with `NoLostWakeup`, is inductive: a push adds an item and a thread that will
  notify; a notify trades that thread for a woken one; a take by a woken thread
  removes an item and that thread; a thread goes to sleep on an empty queue only.
* `ActiveProofs`: under `ActiveAssumption`, which does not bound the senders.
  `AInv` is `TypeOK`, `InOrder` (what was sent is what has been run, then the
  callback in the worker's hands, then the queue), `EndsByQuit` (`done_` is set exactly
  when the last callback run was the quit message, and nothing ends before) and
  `FuncIsEmpty`.  `ActiveIsActor` proves `Spec => ActorSpec`: a push is a `Send`,
  a call is a `Run`, or `RunAndSend` for a callback that sends, `Join` is
  `Destroy`, the rest stutters.  `WorkerIsWoken` is the safety half of
  `JoinReturns`: the worker is never asleep next to an item, nor while the
  destructor waits for it, unless some thread is about to notify; `SleepInv`
  adds that only the worker ever waits, and only before it has run the quit message.

### The buffer and the pieces

`BytesProofs`, under `SinkBufferAssumption`, `SinkBytesAssumption` and
`StringPiecesAssumption`.

* `BytesStayInside` (`NothingBehind`), for every size of buffer and argument.
  The property is not inductive: that
  `append` stays inside follows from the test before the header, so the
  invariant `IInv` keeps what room there is at each of the three stages of a line,
  always one byte more than is used, which is where the terminator goes.
* `LinesAreShown` (`BytesAreLines`).  `Shows` says where `cur_` is at each stage, that the bytes
  up to there are the completed lines, and that the header of the line being
  written is in place between `add` and `append`; a terminator falls on the byte at
  `cur_`, which belongs to none of them.
* `PieceInvariance`, `CutsShowWhatIsLeft`, `ComparisonsAreOneOrder`: memory
  always ends with a Nul, so `strlen` finds one inside (`StrLenInside`); a cut
  of a cut is a cut (`CutOfCut`).  `memcmp` is either 0 with nothing different, or
  decided by the first difference (`MemcmpSays`), and so is the order of the
  dictionary (`FirstDifference`, `NoDifference`).

### Time

`CyclesProofs`, under `CalibrationAssumption`, `MeasurementAssumption` and
`CycleTimesAssumption`.

* `CInv`: `Timed` says that an undisturbed measurement has paired its readings
  to within a microsecond at either end, `Remembered` that the previous
  measurement, if undisturbed, was good in the same sense, `CalledOnce` that the
  result is left alone once found.  `MeasurementAssumption` keeps
  `micros` from wrapping in an undisturbed measurement; in a disturbed one it
  may, and the proof says nothing of it but that it is not 0.
  `OneGoodMeasurementSuffices` (`OneGoodIsEnough`) then multiplies out: a good
  measurement bounds the frequency (`GoodBounds`), an accepted one is within the tolerance of
  it.  `CalibrationTypeCorrect` and `SecondCallChangesNothing` (`FrequencySettled`) follow.
* `ConversionsRoundTrip` (`RoundTrip`) and `SleepersSeeTheirTime` (`SleepIsSeen`), for all
  numbers of cycles and all frequencies: `Rounded` is characterised by two inequalities, after
  which the bounds are products.

### Model-checked only

The liveness properties `WaitEnds`, `Termination`, `HandedIsWritten`,
`JoinReturns`, `EverySendRuns` and `CalibrationEnds`: liveness under fairness and
`ENABLED` are beyond the prover.  `DriftWithinTolerance` and `MicrosRounded` are
false, as their runs show.

## 5. What is not modelled, and why

* The branches of `add` and `main` under `USE_ACTIVE`.  They do not compile as
  they stand (`active.h` is not included, and both use names that only the other
  branch declares); `Active` itself is modelled.
* Memory other than x86: the `asm` statements are x86.  Early loads in `pop(T&)`
  and after `peek`: see section 2.
* `Initialize` calls a function before `main`, which is `Calibration`'s `Call`; its other
  form, which allocates an object, is not used.  `Fence` is not called by
  anything; `Util` and `Portability` are macros and casts without state; the
  build file has no behaviour.
* The recorded cycles and the cookie of `SinkBuffer`, which nothing reads, and
  the mock values of `Cycles`, which are not compiled in.
* A callback that throws: it ends the program.
* `read_available` from a third thread: nothing in the repository does it.
* The contents of an entry, time stamps, the timing output, `allocNum`.

## 6. Plan

Every module of the plan is there, and every safety property is proved.  What is left:

1. The step from safety to liveness as far as it is not temporal: for the
   pipeline and the ring, as `WorkerIsWoken` does for the active object, that a
   thread that waits always has another one that will change what it waits for.
2. The ring of `LogPipeline` is `BoundedFifo` by its definition; state as a theorem
   that its `add`, `peek` and `consume` are steps of that specification.
