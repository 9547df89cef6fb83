-------------------------- MODULE LogPipelineProofs --------------------------
(***************************************************************************)
(* The log pipeline, for any number of producers, entries and buffers.     *)
(*                                                                         *)
(* DInv: each buffer has one owner, front() and back() are called on       *)
(* something, nothing is appended to a full buffer, and what is handed     *)
(* over holds lines.  CountInv: RingBufBG's count of the entries it        *)
(* consumed is exact, so no ring holds a line when it returns.  OrderInv:  *)
(* the stages hold consecutive parts of each producer's lines, so none is  *)
(* lost, doubled or overtaken, and the file is the log AsyncLog promises.  *)
(***************************************************************************)
EXTENDS LogPipeline, SequenceTheorems, FiniteSetTheorems,
        WellFoundedInduction, TLAPS

USE PipelineAssumption, SinkBufferAssumption

Lines == Producers \X (1 .. AddNum)

-----------------------------------------------------------------------------
(* Sequences as sets. *)

LEMMA ToSetOfEmpty == ToSet(<<>>) = {} /\ IsInjective(<<>>)
  BY DEF ToSet, IsInjective

LEMMA AppendedTo ==
  ASSUME NEW S, NEW s \in Seq(S), NEW x \in S
  PROVE  /\ ToSet(Append(s, x)) = ToSet(s) \cup {x}
         /\ IsInjective(s) /\ x \notin ToSet(s) => IsInjective(Append(s, x))
<1>1. /\ DOMAIN Append(s, x) = 1 .. Len(s) + 1 /\ DOMAIN s = 1 .. Len(s)
      /\ Len(s) \in Nat
      /\ \A i \in 1 .. Len(s) : Append(s, x)[i] = s[i]
      /\ Append(s, x)[Len(s) + 1] = x
  BY AppendProperties, LenProperties
<1>2. ToSet(Append(s, x)) = ToSet(s) \cup {x}
  BY <1>1 DEF ToSet
<1>3. IsInjective(s) /\ x \notin ToSet(s) => IsInjective(Append(s, x))
  BY <1>1 DEF ToSet, IsInjective
<1> QED
  BY <1>2, <1>3

LEMMA LastTaken ==
  ASSUME NEW S, NEW s \in Seq(S), s # <<>>
  PROVE  /\ Front(s) \in Seq(S) /\ Len(Front(s)) = Len(s) - 1
         /\ Last(s) \in S /\ Last(s) \in ToSet(s)
         /\ IsInjective(s) =>
              ToSet(Front(s)) = ToSet(s) \ {Last(s)} /\ IsInjective(Front(s))
<1>1. Len(s) \in Nat /\ Len(s) > 0 /\ DOMAIN s = 1 .. Len(s)
  BY LenProperties, EmptySeq
<1>2. /\ Front(s) \in Seq(S) /\ Len(Front(s)) = Len(s) - 1
      /\ \A i \in 1 .. Len(s) - 1 : Front(s)[i] = s[i]
  BY <1>1, SubSeqProperties DEF Front
<1>3. Last(s) \in S /\ Last(s) \in ToSet(s)
  BY <1>1, ElementOfSeq DEF Last, ToSet
<1>4. DOMAIN Front(s) = 1 .. Len(s) - 1
  BY <1>2, LenProperties
<1>5. IsInjective(s) =>
        ToSet(Front(s)) = ToSet(s) \ {Last(s)} /\ IsInjective(Front(s))
  BY <1>1, <1>2, <1>4 DEF ToSet, IsInjective, Last
<1> QED
  BY <1>2, <1>3, <1>5

LEMMA HeadTaken ==
  ASSUME NEW S, NEW s \in Seq(S), s # <<>>
  PROVE  /\ Tail(s) \in Seq(S) /\ Len(Tail(s)) = Len(s) - 1
         /\ Head(s) \in S /\ Head(s) \in ToSet(s)
         /\ IsInjective(s) =>
              ToSet(Tail(s)) = ToSet(s) \ {Head(s)} /\ IsInjective(Tail(s))
<1>1. Len(s) \in Nat /\ Len(s) > 0 /\ DOMAIN s = 1 .. Len(s)
  BY LenProperties, EmptySeq
<1>2. /\ Tail(s) \in Seq(S) /\ Len(Tail(s)) = Len(s) - 1
      /\ \A i \in 1 .. Len(s) - 1 : Tail(s)[i] = s[i + 1]
      /\ Head(s) \in S
  BY HeadTailProperties
<1>3. DOMAIN Tail(s) = 1 .. Len(s) - 1
  BY <1>2, LenProperties
<1>4. Head(s) = s[1]
  OBVIOUS
<1>5. ToSet(s) = {s[1]} \cup ToSet(Tail(s))
  <2>1. \A i \in DOMAIN s : s[i] \in {s[1]} \cup ToSet(Tail(s))
    <3> TAKE i \in DOMAIN s
    <3>1. CASE i = 1
      BY <3>1
    <3>2. CASE i # 1
      BY <3>2, <1>1, <1>2, <1>3, i - 1 \in 1 .. Len(s) - 1 DEF ToSet
    <3> QED
      BY <3>1, <3>2
  <2>2. {s[1]} \cup ToSet(Tail(s)) \subseteq ToSet(s)
    BY <1>1, <1>2, <1>3 DEF ToSet
  <2> QED
    BY <2>1, <2>2 DEF ToSet
<1>6. ASSUME IsInjective(s) PROVE s[1] \notin ToSet(Tail(s))
  BY <1>6, <1>1, <1>2, <1>3 DEF ToSet, IsInjective
<1>7. ASSUME IsInjective(s) PROVE IsInjective(Tail(s))
  BY <1>7, <1>1, <1>2, <1>3 DEF IsInjective
<1> QED
  BY <1>2, <1>4, <1>5, <1>6, <1>7

-----------------------------------------------------------------------------
(* Types, and what they rest on. *)

Types ==
  /\ added \in [Producers -> 0 .. AddNum]
  /\ ring \in [Producers -> Seq(Lines)]
  /\ bgpc \in {"start", "scan", "walk", "push", "take", "sleep", "done"}
  /\ index \in 1 .. ThreadNum + 1
  /\ n \in Nat /\ count \in 0 .. n
  /\ nPerItr \in Nat /\ j \in Nat /\ nItrWithNonEmptyBuf \in Nat
  /\ bgBuffer \in Buffers \cup {NoBuffer}
  /\ bgBuffer = NoBuffer <=> bgpc = "start"
  /\ sinkpc \in {"while", "look", "front", "write", "recycle", "give", "done"}
  /\ sinkBuffer \in Buffers \cup {NoBuffer}
  /\ sinkBuffer = NoBuffer <=> sinkpc \in {"while", "look", "front", "done"}
  /\ heap \subseteq Buffers
  /\ content \in [Buffers -> Seq(Lines)]
  /\ cacheBufQueue \in Seq(Buffers) /\ sinkBufQueue \in Seq(Buffers)

(* The entries still to be copied are in the ring. *)
Walk ==
  /\ bgpc = "walk" \/ (bgpc \in {"push", "take"} /\ count > 0) =>
       index \in Producers /\ n <= Len(ring[index])
  /\ bgpc \in {"start", "scan"} => count = 0

(* Who is past its look at the size will find a buffer, now or when the    *)
(* lock it waits for is free.                                              *)
Waits ==
  /\ sinkpc = "front" => sinkBufQueue # <<>> \/ bgpc = "push"
  /\ bgpc = "start" =>
       /\ cacheBufQueue # <<>> /\ sinkBufQueue = <<>>
       /\ sinkpc \in {"while", "look", "done"}

TInv == Types /\ Walk /\ Waits /\ CacheBounded

LEMMA Constants ==
  /\ Producers = 1 .. ThreadNum /\ ThreadNum \in Nat
  /\ Buffers \subseteq Nat /\ NoBuffer \notin Buffers
  /\ CacheBufQueueSize \in Nat /\ CacheBufQueueSize > 0
  /\ 1 .. CacheBufQueueSize \subseteq Buffers
  BY DEF Producers, Buffers, NoBuffer

LEMMA TypesInitially == Init => TInv
<1> SUFFICES ASSUME Init PROVE TInv
  OBVIOUS
<1>1. /\ cacheBufQueue \in Seq(Buffers)
      /\ cacheBufQueue # <<>> /\ Len(cacheBufQueue) = CacheBufQueueSize
  <2>1. cacheBufQueue \in [1 .. CacheBufQueueSize -> Buffers]
    BY Constants DEF Init
  <2>2. cacheBufQueue \in Seq(Buffers) /\ Len(cacheBufQueue) = CacheBufQueueSize
    BY <2>1, Constants, SeqDef, LenProperties
  <2> QED
    BY <2>2, Constants, EmptySeq
<1>2. Types
  BY <1>1, Constants DEF Init, Types, reset
<1>3. Walk /\ Waits /\ CacheBounded
  BY <1>1, Constants DEF Init, Walk, Waits, CacheBounded
<1> QED
  BY <1>2, <1>3 DEF TInv

LEMMA AddTypes == ASSUME TInv, NEW p \in Producers, add(p) PROVE TInv'
<1>1. ring[p] \in Seq(Lines) /\ <<p, added[p] + 1>> \in Lines
  BY DEF TInv, Types, add, Lines
<1>2. /\ Append(ring[p], <<p, added[p] + 1>>) \in Seq(Lines)
      /\ Len(Append(ring[p], <<p, added[p] + 1>>)) = Len(ring[p]) + 1
  BY <1>1, AppendProperties
<1>3. ring' \in [Producers -> Seq(Lines)] /\ added' \in [Producers -> 0 .. AddNum]
  BY <1>2 DEF TInv, Types, add
<1>4. Types'
  BY <1>3 DEF TInv, Types, add, bgVars, sinkVars, sharedVars
<1>5. Walk'
  <2>1. \A q \in Producers : Len(ring'[q]) \in Nat /\ Len(ring[q]) \in Nat /\
                             Len(ring'[q]) >= Len(ring[q])
    BY <1>2, <1>3, LenProperties DEF TInv, Types, add
  <2> QED
    BY <2>1 DEF TInv, Types, Walk, add, bgVars
<1>6. Waits' /\ CacheBounded'
  BY DEF TInv, Waits, CacheBounded, add, bgVars, sinkVars, sharedVars
<1> QED
  BY <1>4, <1>5, <1>6 DEF TInv

LEMMA StartTypes == ASSUME TInv, Start PROVE TInv'
<1>1. /\ cacheBufQueue' \in Seq(Buffers) /\ Len(cacheBufQueue') = Len(cacheBufQueue) - 1
      /\ bgBuffer' \in Buffers
  BY LastTaken DEF TInv, Types, Waits, Start
<1>2. bgpc' \in {"scan", "sleep"} /\ index' = 1 /\ nPerItr' = 0
  BY DEF Start, Round
<1>3. Types'
  <2>1. index' \in 1 .. ThreadNum + 1 /\ nPerItr' \in Nat /\ bgBuffer' # NoBuffer
    BY <1>1, <1>2, Constants
  <2> QED
    BY <1>1, <1>2, <2>1 DEF TInv, Types, Start, prodVars, sinkVars, outVars
<1>4. Walk' /\ Waits'
  BY <1>2 DEF TInv, Walk, Waits, Start, sinkVars
<1>5. CacheBounded'
  <2>1. Len(cacheBufQueue) \in Nat /\ Len(cacheBufQueue') \in Nat
    BY <1>1, LenProperties DEF TInv, Types
  <2>2. sinkpc' = sinkpc
    BY DEF Start, sinkVars
  <2> QED
    BY <1>1, <2>1, <2>2, Constants DEF TInv, CacheBounded
<1> QED
  BY <1>3, <1>4, <1>5 DEF TInv

LEMMA PeekTypes == ASSUME TInv, peek PROVE TInv'
<1>1. index \in Producers /\ ring[index] \in Seq(Lines)
  BY Constants DEF TInv, Types, peek
<1>2. /\ n' \in Nat /\ count' = n' /\ n' <= Len(ring[index])
      /\ \/ n' = 0 /\ index' = index + 1 /\ bgpc' = "scan"
         \/ index' = index /\ bgpc' = "walk"
  BY <1>1, LenProperties DEF peek
<1>3. index' \in 1 .. ThreadNum + 1 /\ count' \in 0 .. n' /\ bgpc' # "start"
  BY <1>1, <1>2, Constants
<1>4. Types'
  BY <1>2, <1>3 DEF TInv, Types, peek, prodVars, sinkVars, sharedVars
<1>5. Walk' /\ Waits' /\ CacheBounded'
  BY <1>1, <1>2
     DEF TInv, Types, Walk, Waits, CacheBounded, peek, prodVars, sinkVars, sharedVars
<1> QED
  BY <1>4, <1>5 DEF TInv

LEMMA CopyTypes == ASSUME TInv, CopyEntry PROVE TInv'
<1>1. /\ index \in Producers /\ ring[index] \in Seq(Lines)
      /\ n - count + 1 \in 1 .. Len(ring[index])
  BY LenProperties DEF TInv, Types, Walk, CopyEntry
<1>2. ring[index][n - count + 1] \in Lines
  BY <1>1, ElementOfSeq
<1>3. content' \in [Buffers -> Seq(Lines)]
  BY <1>2, AppendProperties DEF TInv, Types, CopyEntry, AppendLine
<1>4. Types'
  BY <1>3 DEF TInv, Types, CopyEntry, prodVars, sinkVars, outVars
<1>5. Walk' /\ Waits' /\ CacheBounded'
  BY DEF TInv, Types, Walk, Waits, CacheBounded, CopyEntry, prodVars, sinkVars
<1> QED
  BY <1>4, <1>5 DEF TInv

LEMMA ConsumeTypes == ASSUME TInv, consume PROVE TInv'
<1>1. index \in Producers /\ ring[index] \in Seq(Lines) /\ n <= Len(ring[index])
  BY DEF TInv, Types, Walk, consume
<1>2. SubSeq(ring[index], GivenBack + 1, Len(ring[index])) \in Seq(Lines)
  BY <1>1, SubSeqProperties, LenProperties DEF TInv, Types, GivenBack
<1>3. ring' \in [Producers -> Seq(Lines)]
  BY <1>2 DEF TInv, Types, consume
<1>4. nPerItr' \in Nat /\ index' \in 1 .. ThreadNum + 1
  BY <1>1, Constants DEF TInv, Types, consume, Counted
<1>5. Types'
  BY <1>3, <1>4 DEF TInv, Types, consume, sinkVars, sharedVars
<1>6. Walk' /\ Waits' /\ CacheBounded'
  BY DEF TInv, Walk, Waits, CacheBounded, consume, sinkVars, sharedVars
<1> QED
  BY <1>5, <1>6 DEF TInv

(* The end of a round, and a buffer that is full, move no buffer. *)
LEMMA RoundTypes ==
  ASSUME TInv, IdleRound \/ BusyRound \/ BufferFull
  PROVE  TInv'
<1>1. /\ bgpc' \in {"scan", "sleep", "push"} /\ bgpc # "start"
      /\ bgpc' # "push" => index' = 1 /\ nPerItr' = 0
      /\ bgpc' = "push" => UNCHANGED <<index, nPerItr>>
      /\ j' \in Nat /\ nItrWithNonEmptyBuf' \in Nat
      /\ bgpc = "scan" \/ (bgpc = "walk" /\ bgpc' = "push")
  BY DEF TInv, Types, IdleRound, BusyRound, BufferFull, Round
<1>2. UNCHANGED <<prodVars, n, count, bgBuffer, sinkVars, sharedVars>>
  BY DEF IdleRound, BusyRound, BufferFull
<1>3. Types'
  <2>1. index' \in 1 .. ThreadNum + 1 /\ nPerItr' \in Nat
    <3>1. index \in 1 .. ThreadNum + 1 /\ nPerItr \in Nat
      BY DEF TInv, Types
    <3>2. 1 \in 1 .. ThreadNum + 1
      BY Constants
    <3> QED
      BY <1>1, <3>1, <3>2
  <2>2. bgpc' \in {"scan", "sleep", "push"} /\ bgBuffer' # NoBuffer
    BY <1>1, <1>2 DEF TInv, Types
  <2> QED
    BY <1>1, <1>2, <2>1, <2>2 DEF TInv, Types, prodVars, sinkVars, sharedVars
<1>4. Walk'
  BY <1>1, <1>2 DEF TInv, Types, Walk, prodVars
<1>5. Waits' /\ CacheBounded'
  BY <1>1, <1>2 DEF TInv, Waits, CacheBounded, sinkVars, sharedVars
<1> QED
  BY <1>3, <1>4, <1>5 DEF TInv

LEMMA HandOverTypes == ASSUME TInv, HandOver PROVE TInv'
<1>1. sinkBufQueue' \in Seq(Buffers) /\ sinkBufQueue' # <<>>
  <2>1. sinkBufQueue \in Seq(Buffers) /\ bgBuffer \in Buffers
    BY DEF TInv, Types, HandOver
  <2>2. sinkBufQueue' = Append(sinkBufQueue, bgBuffer)
    BY DEF HandOver
  <2> QED
    BY <2>1, <2>2, AppendProperties
<1>2. Types'
  BY <1>1 DEF TInv, Types, HandOver, prodVars, sinkVars
<1>3. Walk' /\ Waits' /\ CacheBounded'
  BY <1>1 DEF TInv, Types, Walk, Waits, CacheBounded, HandOver, prodVars, sinkVars
<1> QED
  BY <1>2, <1>3 DEF TInv

LEMMA FreshIsNew == heap # Buffers /\ heap \subseteq Buffers
                      => Fresh \in Buffers \ heap
  BY DEF Fresh

LEMMA TakeTypes == ASSUME TInv, TakeBuffer PROVE TInv'
<1>1. /\ cacheBufQueue' \in Seq(Buffers)
      /\ Len(cacheBufQueue') <= Len(cacheBufQueue)
      /\ bgBuffer' \in Buffers
      /\ heap' \subseteq Buffers
      /\ content' \in [Buffers -> Seq(Lines)]
  <2>1. CASE /\ cacheBufQueue # <<>>
             /\ bgBuffer' = Last(cacheBufQueue)
             /\ cacheBufQueue' = Front(cacheBufQueue)
             /\ UNCHANGED <<heap, content>>
    BY <2>1, LastTaken, LenProperties DEF TInv, Types
  <2>2. CASE /\ cacheBufQueue = <<>> /\ heap # Buffers
             /\ bgBuffer' = Fresh
             /\ heap' = heap \cup {Fresh}
             /\ content' = [content EXCEPT ![Fresh] = reset]
             /\ UNCHANGED cacheBufQueue
    BY <2>2, FreshIsNew, EmptySeq, LenProperties DEF TInv, Types, reset
  <2> QED
    BY <2>1, <2>2 DEF TakeBuffer
<1>2. /\ bgpc' \in {"walk", "scan", "sleep"}
      /\ bgpc' = "walk" => count > 0 /\ index' = index
      /\ bgpc' # "walk" => count = 0
      /\ index' \in 1 .. ThreadNum + 1 /\ nPerItr' \in Nat
      /\ nItrWithNonEmptyBuf' \in Nat
  <2>1. count \in Nat /\ index \in 1 .. ThreadNum + 1 /\ nPerItr \in Nat
    BY DEF TInv, Types
  <2>2. Resume /\ nItrWithNonEmptyBuf' = 0
    BY DEF TakeBuffer, RoundsRestart
  <2>3. 1 \in 1 .. ThreadNum + 1
    BY Constants
  <2> QED
    BY <2>1, <2>2, <2>3 DEF Resume, Round
<1>3. Types'
  BY <1>1, <1>2, Constants DEF TInv, Types, TakeBuffer, prodVars, sinkVars
<1>4. Walk' /\ Waits'
  BY <1>2 DEF TInv, Types, Walk, Waits, TakeBuffer, prodVars, sinkVars
<1>5. CacheBounded'
  <2>1. Len(cacheBufQueue) \in Nat /\ Len(cacheBufQueue') \in Nat
    BY <1>1, LenProperties DEF TInv, Types
  <2>2. sinkpc' = sinkpc
    BY DEF TakeBuffer, sinkVars
  <2> QED
    BY <1>1, <2>1, <2>2, Constants DEF TInv, CacheBounded
<1> QED
  BY <1>3, <1>4, <1>5 DEF TInv

LEMMA PopTypes == ASSUME TInv, PopFront PROVE TInv'
<1>1. sinkBufQueue # <<>> /\ bgpc # "start"
  BY DEF TInv, Waits, PopFront, mutexSinkHeld
<1>2. sinkBufQueue' \in Seq(Buffers) /\ sinkBuffer' \in Buffers
  BY <1>1, HeadTaken DEF TInv, Types, PopFront
<1>3. Types'
  BY <1>2, Constants DEF TInv, Types, PopFront, prodVars, bgVars
<1>4. Walk' /\ Waits' /\ CacheBounded'
  BY <1>1 DEF TInv, Walk, Waits, CacheBounded, PopFront, prodVars, bgVars
<1> QED
  BY <1>3, <1>4 DEF TInv

LEMMA WriteTypes == ASSUME TInv, WriteOut PROVE TInv'
<1>1. content' \in [Buffers -> Seq(Lines)]
  BY EmptySeq DEF TInv, Types, WriteOut, AfterWrite, reset
<1>2. Types'
  BY <1>1 DEF TInv, Types, WriteOut, prodVars, bgVars
<1>3. Walk' /\ Waits' /\ CacheBounded'
  BY DEF TInv, Walk, Waits, CacheBounded, WriteOut, prodVars, bgVars
<1> QED
  BY <1>2, <1>3 DEF TInv

(* sinkBufBG looks at something, or deletes its buffer. *)
LEMMA LookTypes ==
  ASSUME TInv, TestExit \/ Look \/ DeleteBuffer \/ KeepBuffer \/ SignalExit
  PROVE  TInv'
<1>1. CASE TestExit
  BY <1>1 DEF TInv, Types, Walk, Waits, CacheBounded, TestExit, prodVars, bgVars, sharedVars
<1>2. CASE Look
  <2>1. /\ sinkpc = "look" /\ sinkpc' \in {"front", "while"}
        /\ sinkpc' = "front" => bgpc = "push" \/ sinkBufQueue # <<>>
        /\ UNCHANGED <<prodVars, bgVars, sinkBuffer, sharedVars>>
    BY <1>2 DEF Look, SizeSeen
  <2> QED
    BY <2>1 DEF TInv, Types, Walk, Waits, CacheBounded, prodVars, bgVars, sharedVars
<1>3. CASE DeleteBuffer
  BY <1>3, Constants DEF TInv, Types, Walk, Waits, CacheBounded, DeleteBuffer, prodVars, bgVars
<1>4. CASE KeepBuffer
  <2>1. Len(cacheBufQueue) \in Nat /\ Len(cacheBufQueue) < CacheBufQueueSize
    BY <1>4, Constants, LenProperties DEF TInv, Types, KeepBuffer, CacheFull
  <2> QED
    BY <1>4, <2>1 DEF TInv, Types, Walk, Waits, CacheBounded, KeepBuffer, prodVars, bgVars, sharedVars
<1>5. CASE SignalExit
  BY <1>5 DEF TInv, Types, Walk, Waits, CacheBounded, SignalExit, prodVars, sinkVars
<1> QED
  BY <1>1, <1>2, <1>3, <1>4, <1>5

LEMMA GiveTypes == ASSUME TInv, GiveBack PROVE TInv'
<1>1. sinkBuffer \in Buffers /\ cacheBufQueue \in Seq(Buffers)
  BY DEF TInv, Types, GiveBack
<1>2. /\ cacheBufQueue' \in Seq(Buffers) /\ cacheBufQueue' # <<>>
      /\ Len(cacheBufQueue') = Len(cacheBufQueue) + 1
  BY <1>1, AppendProperties DEF GiveBack
<1>3. Len(cacheBufQueue) \in Nat /\ Len(cacheBufQueue) < CacheBufQueueSize
  BY LenProperties DEF TInv, Types, CacheBounded, GiveBack
<1>4. Types'
  BY <1>2 DEF TInv, Types, GiveBack, prodVars, bgVars
<1>5. Walk' /\ Waits'
  BY <1>2 DEF TInv, Walk, Waits, GiveBack, prodVars, bgVars
<1>6. CacheBounded'
  BY <1>2, <1>3, Constants DEF CacheBounded, GiveBack
<1> QED
  BY <1>4, <1>5, <1>6 DEF TInv

LEMMA TypesStep == TInv /\ [Next]_vars => TInv'
<1> SUFFICES ASSUME TInv, [Next]_vars PROVE TInv'
  OBVIOUS
<1>1. ASSUME NEW p \in Producers, add(p) PROVE TInv'
  BY <1>1, AddTypes
<1>2. CASE RingBufBG
  BY <1>2, StartTypes, PeekTypes, CopyTypes, ConsumeTypes, RoundTypes,
     HandOverTypes, TakeTypes, LookTypes DEF RingBufBG, Drain
<1>3. CASE sinkBufBG
  BY <1>3, PopTypes, WriteTypes, LookTypes, GiveTypes DEF sinkBufBG
<1>4. CASE UNCHANGED vars
  BY <1>4 DEF TInv, Types, Walk, Waits, CacheBounded, vars, prodVars, bgVars,
              sinkVars, sharedVars
<1> QED
  BY <1>1, <1>2, <1>3, <1>4 DEF Next, Terminated

THEOREM TypesInvariant == Spec => []TInv
  BY TypesInitially, TypesStep, PTL DEF Spec

(* The unlocked look at the cache is as good as one under the lock, and the*)
(* vector it reads never outgrows what was reserved.                       *)
THEOREM CacheStaysBounded == Spec => []CacheBounded
<1>1. TInv => CacheBounded
  BY DEF TInv
<1> QED
  BY <1>1, TypesInvariant, PTL

(* front() and back() are called on something. *)
THEOREM FrontIsThere == Spec => []FrontExists
<1>1. TInv => FrontExists
  BY DEF TInv, Waits, FrontExists, mutexSinkHeld
<1> QED
  BY <1>1, TypesInvariant, PTL

-----------------------------------------------------------------------------
(* No line is appended to a buffer it does not fit in. *)

RoomLeft == \A b \in Buffers : length(content[b]) < SinkBufferSize

LEMMA EntryBytesFacts ==
  /\ EntryBytes \in Nat /\ SinkBufferSize \in Nat /\ SinkBufferSize > EntryBytes
  /\ length(reset) = 0
  /\ \A k \in Nat : EntryBytes * k \in Nat
                    /\ EntryBytes * (k + 1) = EntryBytes * k + EntryBytes
<1>1. EntryBytes \in Nat /\ SinkBufferSize \in Nat /\ SinkBufferSize > EntryBytes
  BY DEF EntryBytes, HeaderBytes
<1>2. length(reset) = 0
  BY <1>1, EmptySeq DEF length, reset
<1>3. ASSUME NEW m \in Nat, NEW k \in Nat
      PROVE m * k \in Nat /\ m * (k + 1) = m * k + m
  OBVIOUS
<1> QED
  BY <1>1, <1>2, <1>3

LEMMA RoomInitially == Init => RoomLeft
  BY EntryBytesFacts DEF Init, RoomLeft

LEMMA CopyRoom == ASSUME TInv, RoomLeft, CopyEntry PROVE RoomLeft'
<1>1. content \in [Buffers -> Seq(Lines)] /\ content' \in [Buffers -> Seq(Lines)]
  BY CopyTypes DEF TInv, Types
<1>2. /\ bgBuffer \in Buffers
      /\ content' = [content EXCEPT ![bgBuffer] =
                       Append(@, ring[index][n - count + 1])]
  BY DEF TInv, Types, CopyEntry, AppendLine
<1>3. Len(content'[bgBuffer]) = Len(content[bgBuffer]) + 1
      /\ Len(content[bgBuffer]) \in Nat
  BY <1>1, <1>2, LenProperties
<1>4. SinkBufferSize - EntryBytes * Len(content[bgBuffer]) > EntryBytes
  BY DEF CopyEntry, Fits, avail, length
<1>5. length(content'[bgBuffer]) < SinkBufferSize
  <2>1. EntryBytes * Len(content[bgBuffer]) \in Nat
        /\ EntryBytes * (Len(content[bgBuffer]) + 1)
             = EntryBytes * Len(content[bgBuffer]) + EntryBytes
    BY <1>3, EntryBytesFacts
  <2>2. EntryBytes * (Len(content[bgBuffer]) + 1) < SinkBufferSize
    BY <1>4, <2>1, EntryBytesFacts
  <2> QED
    BY <1>3, <2>2 DEF length
<1>6. \A b \in Buffers : b # bgBuffer => content'[b] = content[b]
  BY <1>1, <1>2
<1> QED
  BY <1>5, <1>6 DEF RoomLeft

LEMMA RoomStep == TInv /\ RoomLeft /\ [Next]_vars => RoomLeft'
<1> SUFFICES ASSUME TInv, RoomLeft, [Next]_vars PROVE RoomLeft'
  OBVIOUS
<1>1. CASE CopyEntry
  BY <1>1, CopyRoom
<1>2. CASE \E b \in Buffers : content' = [content EXCEPT ![b] = reset]
  BY <1>2, EntryBytesFacts DEF TInv, Types, RoomLeft
<1>3. CASE UNCHANGED content
  BY <1>3 DEF RoomLeft
<1>4. CASE TakeBuffer
  <2>1. Fresh \in Buffers \/ UNCHANGED content
    BY <1>4, FreshIsNew DEF TInv, Types, TakeBuffer
  <2> QED
    BY <1>2, <1>3, <1>4, <2>1 DEF TakeBuffer
<1>5. CASE WriteOut
  BY <1>2, <1>5 DEF TInv, Types, WriteOut, AfterWrite
<1>6. CopyEntry \/ TakeBuffer \/ WriteOut \/ UNCHANGED content
  BY DEF Next, RingBufBG, Drain, sinkBufBG, Terminated, add, Start, peek,
         BufferFull, consume, IdleRound, BusyRound, HandOver, SignalExit,
         TestExit, Look, PopFront, DeleteBuffer, KeepBuffer, GiveBack,
         vars, sharedVars
<1> QED
  BY <1>1, <1>3, <1>4, <1>5, <1>6

(* append() does not check, and need not. *)
THEOREM BuffersHold == Spec => []NoOverrun
<1>1. TInv /\ RoomLeft => NoOverrun
  BY DEF TInv, Types, RoomLeft, NoOverrun
<1> QED
  BY <1>1, TypesInvariant, RoomInitially, RoomStep, PTL DEF Spec

-----------------------------------------------------------------------------
(* Every buffer is in one hand. *)

BgHas == IF bgBuffer = NoBuffer \/ bgpc = "take" THEN {} ELSE {bgBuffer}
SinkHas == IF sinkBuffer = NoBuffer THEN {} ELSE {sinkBuffer}

Disjoint(Q, C, B, K) ==
  /\ Q \cap C = {} /\ Q \cap B = {} /\ Q \cap K = {}
  /\ C \cap B = {} /\ C \cap K = {} /\ B \cap K = {}

Owners ==
  /\ IsInjective(sinkBufQueue) /\ IsInjective(cacheBufQueue)
  /\ Disjoint(ToSet(sinkBufQueue), ToSet(cacheBufQueue), BgHas, SinkHas)
  /\ heap = ToSet(sinkBufQueue) \cup ToSet(cacheBufQueue) \cup BgHas \cup SinkHas

LEMMA OwnersInitially == Init => Owners
<1> SUFFICES ASSUME Init PROVE Owners
  OBVIOUS
<1>1. BgHas = {} /\ SinkHas = {}
  BY DEF Init, BgHas, SinkHas
<1>2. ToSet(cacheBufQueue) = heap /\ IsInjective(cacheBufQueue)
  BY Constants DEF Init, ToSet, IsInjective
<1>3. sinkBufQueue = <<>>
  BY DEF Init
<1> QED
  BY <1>1, <1>2, <1>3, ToSetOfEmpty DEF Owners, Disjoint

LEMMA StartOwners == ASSUME TInv, Owners, Start PROVE Owners'
<1>1. /\ cacheBufQueue \in Seq(Buffers) /\ cacheBufQueue # <<>>
      /\ bgBuffer' = Last(cacheBufQueue) /\ cacheBufQueue' = Front(cacheBufQueue)
      /\ UNCHANGED <<sinkBufQueue, sinkBuffer, heap>>
      /\ bgBuffer = NoBuffer /\ bgpc' # "take"
  BY DEF TInv, Types, Waits, Start, Round, sinkVars
<1>2. /\ ToSet(cacheBufQueue') = ToSet(cacheBufQueue) \ {bgBuffer'}
      /\ IsInjective(cacheBufQueue')
      /\ bgBuffer' \in ToSet(cacheBufQueue) /\ bgBuffer' \in Buffers
  BY <1>1, LastTaken DEF Owners
<1>3. BgHas = {} /\ BgHas' = {bgBuffer'} /\ SinkHas' = SinkHas
  BY <1>1, <1>2, Constants DEF BgHas, SinkHas
<1> QED
  BY <1>1, <1>2, <1>3 DEF Owners, Disjoint

LEMMA HandOverOwners == ASSUME TInv, Owners, HandOver PROVE Owners'
<1>1. /\ sinkBufQueue \in Seq(Buffers) /\ bgBuffer \in Buffers
      /\ bgBuffer # NoBuffer /\ bgpc = "push" /\ bgpc' = "take"
      /\ sinkBufQueue' = Append(sinkBufQueue, bgBuffer)
      /\ UNCHANGED <<cacheBufQueue, bgBuffer, sinkBuffer, heap>>
  BY DEF TInv, Types, HandOver, sinkVars
<1>2. BgHas = {bgBuffer} /\ BgHas' = {} /\ SinkHas' = SinkHas
  BY <1>1 DEF BgHas, SinkHas
<1>3. /\ ToSet(sinkBufQueue') = ToSet(sinkBufQueue) \cup {bgBuffer}
      /\ IsInjective(sinkBufQueue')
  BY <1>1, <1>2, AppendedTo DEF Owners, Disjoint
<1> QED
  BY <1>1, <1>2, <1>3 DEF Owners, Disjoint

LEMMA TakeOwners == ASSUME TInv, Owners, TakeBuffer PROVE Owners'
<1>1. /\ bgpc = "take" /\ bgpc' # "take"
      /\ UNCHANGED <<sinkBufQueue, sinkBuffer>>
      /\ cacheBufQueue \in Seq(Buffers) /\ heap \subseteq Buffers
  BY DEF TInv, Types, TakeBuffer, Resume, Round, sinkVars
<1>2. BgHas = {} /\ SinkHas' = SinkHas
  BY <1>1 DEF BgHas, SinkHas
<1>3. CASE /\ cacheBufQueue # <<>>
           /\ bgBuffer' = Last(cacheBufQueue)
           /\ cacheBufQueue' = Front(cacheBufQueue)
           /\ UNCHANGED <<heap, content>>
  <2>1. /\ ToSet(cacheBufQueue') = ToSet(cacheBufQueue) \ {bgBuffer'}
        /\ IsInjective(cacheBufQueue')
        /\ bgBuffer' \in ToSet(cacheBufQueue) /\ bgBuffer' \in Buffers
    BY <1>1, <1>3, LastTaken DEF Owners
  <2>2. BgHas' = {bgBuffer'}
    BY <1>1, <2>1, Constants DEF BgHas
  <2> QED
    BY <1>1, <1>2, <1>3, <2>1, <2>2 DEF Owners, Disjoint
<1>4. CASE /\ cacheBufQueue = <<>> /\ heap # Buffers
           /\ bgBuffer' = Fresh
           /\ heap' = heap \cup {Fresh}
           /\ content' = [content EXCEPT ![Fresh] = reset]
           /\ UNCHANGED cacheBufQueue
  <2>1. bgBuffer' \in Buffers /\ bgBuffer' \notin heap /\ heap' = heap \cup {bgBuffer'}
    BY <1>1, <1>4, FreshIsNew
  <2>2. BgHas' = {bgBuffer'}
    BY <1>1, <2>1, Constants DEF BgHas
  <2> QED
    BY <1>1, <1>2, <1>4, <2>1, <2>2 DEF Owners, Disjoint
<1> QED
  BY <1>3, <1>4 DEF TakeBuffer

LEMMA PopOwners == ASSUME TInv, Owners, PopFront PROVE Owners'
<1>1. /\ sinkBufQueue \in Seq(Buffers) /\ sinkBufQueue # <<>>
      /\ sinkBuffer' = Head(sinkBufQueue) /\ sinkBufQueue' = Tail(sinkBufQueue)
      /\ UNCHANGED <<cacheBufQueue, bgBuffer, bgpc, heap>>
      /\ sinkBuffer = NoBuffer
  BY DEF TInv, Types, Waits, PopFront, mutexSinkHeld, bgVars
<1>2. /\ ToSet(sinkBufQueue') = ToSet(sinkBufQueue) \ {sinkBuffer'}
      /\ IsInjective(sinkBufQueue')
      /\ sinkBuffer' \in ToSet(sinkBufQueue) /\ sinkBuffer' \in Buffers
  BY <1>1, HeadTaken DEF Owners
<1>3. SinkHas = {} /\ SinkHas' = {sinkBuffer'} /\ BgHas' = BgHas
  BY <1>1, <1>2, Constants DEF BgHas, SinkHas
<1> QED
  BY <1>1, <1>2, <1>3 DEF Owners, Disjoint

LEMMA DeleteOwners == ASSUME TInv, Owners, DeleteBuffer PROVE Owners'
<1>1. /\ heap' = heap \ {sinkBuffer} /\ sinkBuffer' = NoBuffer
      /\ sinkBuffer # NoBuffer
      /\ UNCHANGED <<cacheBufQueue, sinkBufQueue, bgBuffer, bgpc>>
  BY DEF TInv, Types, DeleteBuffer, bgVars
<1>2. SinkHas = {sinkBuffer} /\ SinkHas' = {} /\ BgHas' = BgHas
  BY <1>1 DEF BgHas, SinkHas
<1> QED
  BY <1>1, <1>2 DEF Owners, Disjoint

LEMMA GiveOwners == ASSUME TInv, Owners, GiveBack PROVE Owners'
<1>1. /\ cacheBufQueue \in Seq(Buffers) /\ sinkBuffer \in Buffers
      /\ sinkBuffer # NoBuffer /\ sinkBuffer' = NoBuffer
      /\ cacheBufQueue' = Append(cacheBufQueue, sinkBuffer)
      /\ UNCHANGED <<sinkBufQueue, bgBuffer, bgpc, heap>>
  BY DEF TInv, Types, GiveBack, bgVars
<1>2. SinkHas = {sinkBuffer} /\ SinkHas' = {} /\ BgHas' = BgHas
  BY <1>1 DEF BgHas, SinkHas
<1>3. /\ ToSet(cacheBufQueue') = ToSet(cacheBufQueue) \cup {sinkBuffer}
      /\ IsInjective(cacheBufQueue')
  BY <1>1, <1>2, AppendedTo DEF Owners, Disjoint
<1> QED
  BY <1>1, <1>2, <1>3 DEF Owners, Disjoint

LEMMA OwnersStep == TInv /\ Owners /\ [Next]_vars => Owners'
<1> SUFFICES ASSUME TInv, Owners, [Next]_vars PROVE Owners'
  OBVIOUS
<1>1. CASE /\ UNCHANGED <<heap, cacheBufQueue, sinkBufQueue, bgBuffer, sinkBuffer>>
           /\ bgpc = "take" <=> bgpc' = "take"
  <2>1. BgHas' = BgHas /\ SinkHas' = SinkHas
    BY <1>1 DEF BgHas, SinkHas
  <2> QED
    BY <1>1, <2>1 DEF Owners
<1>2. CASE \E p \in Producers : add(p)
  BY <1>1, <1>2 DEF add, bgVars, sinkVars, sharedVars
<1>3. CASE peek \/ CopyEntry \/ BufferFull \/ consume \/ IdleRound \/ BusyRound
           \/ SignalExit
  BY <1>1, <1>3 DEF peek, CopyEntry, BufferFull, consume, IdleRound, BusyRound,
                    SignalExit, Round, sinkVars, sharedVars
<1>4. CASE TestExit \/ Look \/ WriteOut \/ KeepBuffer
  BY <1>1, <1>4 DEF TestExit, Look, WriteOut, KeepBuffer, bgVars, sharedVars
<1>5. CASE UNCHANGED vars
  BY <1>1, <1>5 DEF vars, bgVars, sinkVars, sharedVars
<1> QED
  BY <1>2, <1>3, <1>4, <1>5, StartOwners, HandOverOwners, TakeOwners, PopOwners,
     DeleteOwners, GiveOwners
     DEF Next, RingBufBG, Drain, sinkBufBG, Terminated

(* One after the other, two sequences without a common element. *)
LEMMA Joined ==
  ASSUME NEW S, NEW s \in Seq(S), NEW t \in Seq(S)
  PROVE  /\ s \o t \in Seq(S)
         /\ ToSet(s \o t) = ToSet(s) \cup ToSet(t)
         /\ IsInjective(s) /\ IsInjective(t) /\ ToSet(s) \cap ToSet(t) = {}
              => IsInjective(s \o t)
<1>1. /\ s \o t \in Seq(S)
      /\ Len(s \o t) = Len(s) + Len(t)
      /\ \A i \in 1 .. Len(s) + Len(t) :
           (s \o t)[i] = IF i <= Len(s) THEN s[i] ELSE t[i - Len(s)]
  BY ConcatProperties
<1>2. /\ Len(s) \in Nat /\ Len(t) \in Nat
      /\ DOMAIN s = 1 .. Len(s) /\ DOMAIN t = 1 .. Len(t)
      /\ DOMAIN (s \o t) = 1 .. Len(s) + Len(t)
  BY <1>1, LenProperties
<1>3. ToSet(s \o t) = ToSet(s) \cup ToSet(t)
  <2>1. \A i \in DOMAIN s : s[i] = (s \o t)[i] /\ i \in DOMAIN (s \o t)
    BY <1>1, <1>2
  <2>2. \A i \in DOMAIN t : t[i] = (s \o t)[i + Len(s)]
                            /\ i + Len(s) \in DOMAIN (s \o t)
    BY <1>1, <1>2
  <2>3. \A i \in DOMAIN (s \o t) : (s \o t)[i] \in ToSet(s) \cup ToSet(t)
    BY <1>1, <1>2 DEF ToSet
  <2>4. ToSet(s) \subseteq ToSet(s \o t)
    BY <2>1 DEF ToSet
  <2>5. ToSet(t) \subseteq ToSet(s \o t)
    BY <2>2 DEF ToSet
  <2>6. ToSet(s \o t) \subseteq ToSet(s) \cup ToSet(t)
    BY ONLY <2>3 DEF ToSet
  <2> QED
    BY ONLY <2>4, <2>5, <2>6
<1>4. ASSUME NEW i \in 1 .. Len(s), NEW k \in 1 .. Len(s) + Len(t), k > Len(s),
             (s \o t)[i] = (s \o t)[k]
      PROVE ToSet(s) \cap ToSet(t) # {}
  <2>1. k - Len(s) \in DOMAIN t /\ i \in DOMAIN s /\ s[i] = t[k - Len(s)]
    BY <1>1, <1>2, <1>4
  <2> QED
    BY <2>1 DEF ToSet
<1>5. ASSUME IsInjective(s), IsInjective(t), ToSet(s) \cap ToSet(t) = {},
             NEW i \in DOMAIN (s \o t), NEW k \in DOMAIN (s \o t),
             (s \o t)[i] = (s \o t)[k]
      PROVE i = k
  <2>1. CASE i <= Len(s) /\ k <= Len(s)
    BY <1>1, <1>2, <1>5, <2>1 DEF IsInjective
  <2>2. CASE i > Len(s) /\ k > Len(s)
    <3>1. i - Len(s) \in DOMAIN t /\ k - Len(s) \in DOMAIN t
          /\ t[i - Len(s)] = t[k - Len(s)]
      BY <1>1, <1>2, <1>5, <2>2
    <3>2. i - Len(s) = k - Len(s)
      BY <3>1, <1>5 DEF IsInjective
    <3> QED
      BY <3>2, <1>2
  <2>3. CASE i <= Len(s) /\ k > Len(s)
    BY <1>2, <1>4, <1>5, <2>3
  <2>4. CASE k <= Len(s) /\ i > Len(s)
    BY <1>2, <1>4, <1>5, <2>4
  <2> QED
    BY <1>2, <2>1, <2>2, <2>3, <2>4
<1> QED
  BY <1>1, <1>3, <1>5 DEF IsInjective

LEMMA OneInHand ==
  /\ TInv => BgOwns \in Seq(Buffers) /\ SinkOwns \in Seq(Buffers)
  /\ ToSet(BgOwns) = BgHas /\ IsInjective(BgOwns)
  /\ ToSet(SinkOwns) = SinkHas /\ IsInjective(SinkOwns)
<1>1. \A x : ToSet(<<x>>) = {x} /\ IsInjective(<<x>>)
  BY DEF ToSet, IsInjective
<1>2. \A x \in Buffers : <<x>> \in Seq(Buffers)
  OBVIOUS
<1>3. <<>> \in Seq(Buffers)
  OBVIOUS
<1>4. TInv => BgOwns \in Seq(Buffers) /\ SinkOwns \in Seq(Buffers)
  BY <1>2, <1>3 DEF BgOwns, SinkOwns, TInv, Types
<1>5. ToSet(BgOwns) = BgHas /\ IsInjective(BgOwns)
  BY <1>1, ToSetOfEmpty DEF BgOwns, BgHas
<1>6. ToSet(SinkOwns) = SinkHas /\ IsInjective(SinkOwns)
  BY <1>1, ToSetOfEmpty DEF SinkOwns, SinkHas
<1> QED
  BY <1>4, <1>5, <1>6

(* No buffer is in two hands, used after delete or leaked. *)
THEOREM BuffersOwned == Spec => []OneOwner
<1>1. ASSUME TInv, Owners PROVE OneOwner
  <2>1. /\ sinkBufQueue \in Seq(Buffers) /\ cacheBufQueue \in Seq(Buffers)
        /\ BgOwns \in Seq(Buffers) /\ SinkOwns \in Seq(Buffers)
    BY <1>1, OneInHand DEF TInv, Types
  <2> DEFINE a == sinkBufQueue \o cacheBufQueue
             b == a \o BgOwns
             c == b \o SinkOwns
  <2>2. /\ a \in Seq(Buffers)
        /\ ToSet(a) = ToSet(sinkBufQueue) \cup ToSet(cacheBufQueue)
        /\ IsInjective(a)
    BY <1>1, <2>1, Joined DEF Owners, Disjoint
  <2>3. /\ b \in Seq(Buffers)
        /\ ToSet(b) = ToSet(a) \cup BgHas
        /\ IsInjective(b)
    <3> HIDE DEF a
    <3>1. ToSet(a) \cap BgHas = {}
      BY <1>1, <2>2 DEF Owners, Disjoint
    <3> QED
      BY <2>1, <2>2, <3>1, Joined, OneInHand
  <2>4. ToSet(c) = ToSet(b) \cup SinkHas /\ IsInjective(c)
    <3> HIDE DEF a, b
    <3>1. ToSet(b) \cap SinkHas = {}
      BY <1>1, <2>2, <2>3 DEF Owners, Disjoint
    <3> QED
      BY <2>1, <2>3, <3>1, Joined, OneInHand
  <2>5. c = sinkBufQueue \o cacheBufQueue \o BgOwns \o SinkOwns
    OBVIOUS
  <2> HIDE DEF a, b, c
  <2> QED
    BY <1>1, <2>2, <2>3, <2>4, <2>5 DEF Owners, OneOwner
<1> QED
  BY <1>1, TypesInvariant, OwnersInitially, OwnersStep, PTL DEF Spec

-----------------------------------------------------------------------------
(* Which buffers hold lines. *)

Due ==
  /\ EmptyWhereDue
  /\ bgpc = "push" \/ (bgpc = "walk" /\ count = 0) => content[bgBuffer] # reset
  /\ sinkpc \in {"recycle", "give"} => content[sinkBuffer] = reset

DInv == TInv /\ Owners /\ Due

(* What the hands being disjoint says of single buffers. *)
LEMMA Apart ==
  ASSUME TInv, Owners
  PROVE  /\ bgpc # "start" /\ bgpc # "take" =>
              /\ bgBuffer \notin ToSet(cacheBufQueue)
              /\ bgBuffer # sinkBuffer
         /\ sinkpc \in {"write", "recycle", "give"} =>
              /\ sinkBuffer \notin ToSet(sinkBufQueue)
              /\ sinkBuffer \in heap
         /\ ToSet(cacheBufQueue) \subseteq heap
         /\ ToSet(sinkBufQueue) \subseteq heap
  BY DEF TInv, Types, Owners, Disjoint, BgHas, SinkHas

LEMMA DueInitially == Init => Due
<1> SUFFICES ASSUME Init PROVE Due
  OBVIOUS
<1>1. ToSet(sinkBufQueue) = {}
  BY ToSetOfEmpty DEF Init
<1>2. ToSet(cacheBufQueue) \subseteq Buffers
  BY TypesInitially, LenProperties, ElementOfSeq DEF TInv, Types, ToSet
<1>3. \A b \in Buffers : content[b] = reset
  BY DEF Init
<1>4. EmptyWhereDue
  BY <1>1, <1>2, <1>3 DEF Init, EmptyWhereDue
<1> QED
  BY <1>1, <1>3, <1>4 DEF Init, Due

(* Steps that move no buffer and change no content. *)
LEMMA StillDue ==
  ASSUME DInv, UNCHANGED <<content, sinkBufQueue, cacheBufQueue, bgBuffer, sinkBuffer>>,
         \/ bgpc' = bgpc /\ count' = count /\ nPerItr' = nPerItr
         \/ bgpc' \in {"sleep", "done"}
         \/ bgpc' = "scan" /\ nPerItr' = 0
         \/ bgpc' = "scan" /\ bgpc = "scan" /\ nPerItr' = nPerItr
         \/ bgpc' = "walk" /\ count' # 0
         \/ bgpc' \in {"push", "scan"} /\ content[bgBuffer] # reset,
         sinkpc' \in {"recycle", "give"} => sinkpc \in {"recycle", "give"}
  PROVE  Due'
  BY DEF DInv, Due, EmptyWhereDue

LEMMA ScanDue ==
  ASSUME DInv,
         peek \/ consume \/ IdleRound \/ BusyRound \/ BufferFull \/ SignalExit
  PROVE  Due'
<1>1. UNCHANGED <<content, sinkBufQueue, cacheBufQueue, bgBuffer, sinkBuffer, sinkpc>>
  BY DEF peek, consume, IdleRound, BusyRound, BufferFull, SignalExit, sinkVars,
         sharedVars
<1>2. CASE peek
  <2>1. \/ bgpc' = "scan" /\ bgpc = "scan" /\ nPerItr' = nPerItr
        \/ bgpc' = "walk" /\ count' # 0
    BY <1>2 DEF peek
  <2> QED
    BY <1>1, <2>1, StillDue
<1>3. CASE consume
  BY <1>1, <1>3, StillDue DEF consume, DInv, Due
<1>4. CASE IdleRound
  <2>1. bgpc' = "sleep" \/ (bgpc' = "scan" /\ nPerItr' = 0)
    BY <1>4 DEF IdleRound, Round
  <2> QED
    BY <1>1, <2>1, StillDue
<1>5. CASE BusyRound
  <2>1. content[bgBuffer] # reset
    BY <1>5 DEF BusyRound, DInv, Due, EmptyWhereDue
  <2>2. bgpc' \in {"push", "sleep", "scan"}
    BY <1>5 DEF BusyRound, Round
  <2> QED
    BY <1>1, <2>1, <2>2, StillDue
<1>6. CASE BufferFull
  <2>1. ~(SinkBufferSize - length(content[bgBuffer]) > EntryBytes) /\ bgpc' = "push"
    BY <1>6 DEF BufferFull, Fits, avail
  <2>2. content[bgBuffer] # reset
    BY <2>1, EntryBytesFacts
  <2> QED
    BY <1>1, <2>1, <2>2, StillDue
<1>7. CASE SignalExit
  BY <1>1, <1>7, StillDue DEF SignalExit
<1> QED
  BY <1>2, <1>3, <1>4, <1>5, <1>6, <1>7

LEMMA CopyDue == ASSUME DInv, CopyEntry PROVE Due'
<1>1. /\ bgBuffer \in Buffers /\ content \in [Buffers -> Seq(Lines)]
      /\ content' \in [Buffers -> Seq(Lines)]
      /\ content' = [content EXCEPT ![bgBuffer] =
                       Append(@, ring[index][n - count + 1])]
      /\ bgpc = "walk" /\ bgpc' = "walk"
      /\ UNCHANGED <<sinkBufQueue, cacheBufQueue, bgBuffer, sinkBuffer, sinkpc>>
  BY CopyTypes DEF DInv, TInv, Types, CopyEntry, AppendLine, sinkVars
<1>2. content'[bgBuffer] # reset
  <2>1. Len(content'[bgBuffer]) = Len(content[bgBuffer]) + 1
        /\ Len(content[bgBuffer]) \in Nat
    BY <1>1, LenProperties
  <2> QED
    BY <2>1, EmptySeq DEF reset
<1>3. \A b \in Buffers : b # bgBuffer => content'[b] = content[b]
  BY <1>1
<1>4. /\ bgBuffer \notin ToSet(cacheBufQueue) /\ bgBuffer # sinkBuffer
      /\ ToSet(cacheBufQueue) \subseteq Buffers
      /\ ToSet(sinkBufQueue) \subseteq Buffers
      /\ sinkpc \in {"recycle", "give"} => sinkBuffer \in Buffers
  BY <1>1, Apart DEF DInv, TInv, Types
<1>5. EmptyWhereDue'
  BY <1>1, <1>2, <1>3, <1>4 DEF DInv, Due, EmptyWhereDue
<1> QED
  BY <1>1, <1>2, <1>3, <1>4, <1>5 DEF DInv, Due

LEMMA StartDue == ASSUME DInv, Start PROVE Due'
<1>1. /\ UNCHANGED <<content, sinkBufQueue, sinkBuffer, sinkpc>>
      /\ bgpc' = "sleep" \/ (bgpc' = "scan" /\ nPerItr' = 0)
  BY DEF Start, Round, sinkVars
<1>2. ToSet(cacheBufQueue') \subseteq ToSet(cacheBufQueue)
  BY LastTaken DEF DInv, TInv, Types, Waits, Owners, Start
<1> QED
  BY <1>1, <1>2 DEF DInv, Due, EmptyWhereDue

LEMMA HandOverDue == ASSUME DInv, HandOver PROVE Due'
<1>1. /\ UNCHANGED <<content, cacheBufQueue, sinkBuffer, sinkpc>>
      /\ bgpc = "push" /\ bgpc' = "take"
      /\ ToSet(sinkBufQueue') = ToSet(sinkBufQueue) \cup {bgBuffer}
  BY AppendedTo DEF DInv, TInv, Types, HandOver, sinkVars
<1> QED
  BY <1>1 DEF DInv, Due, EmptyWhereDue

LEMMA TakeDue == ASSUME DInv, TakeBuffer PROVE Due'
<1>1. /\ UNCHANGED <<sinkBufQueue, sinkBuffer, sinkpc, count>>
      /\ \/ bgpc' = "walk" /\ count > 0
         \/ bgpc' = "sleep" \/ (bgpc' = "scan" /\ nPerItr' = 0)
      /\ count \in Nat
  BY DEF DInv, TInv, Types, TakeBuffer, Resume, Round, sinkVars
<1>2. ToSet(cacheBufQueue') \subseteq ToSet(cacheBufQueue)
  <2>1. cacheBufQueue \in Seq(Buffers) /\ IsInjective(cacheBufQueue)
    BY DEF DInv, TInv, Types, Owners
  <2>2. CASE cacheBufQueue # <<>> /\ cacheBufQueue' = Front(cacheBufQueue)
    BY <2>1, <2>2, LastTaken
  <2>3. CASE UNCHANGED cacheBufQueue
    BY <2>3
  <2> QED
    BY <2>2, <2>3 DEF TakeBuffer
<1>3. \A b \in heap : content'[b] = content[b]
  BY FreshIsNew DEF DInv, TInv, Types, TakeBuffer
<1>4. EmptyWhereDue'
  BY <1>1, <1>2, <1>3, Apart DEF DInv, Due, EmptyWhereDue
<1> QED
  BY <1>1, <1>3, <1>4, Apart DEF DInv, Due

LEMMA WriteDue == ASSUME DInv, WriteOut PROVE Due'
<1>1. /\ sinkBuffer \in Buffers /\ content \in [Buffers -> Seq(Lines)]
      /\ content' = [content EXCEPT ![sinkBuffer] = reset]
      /\ UNCHANGED <<bgVars, sinkBufQueue, cacheBufQueue, sinkBuffer>>
      /\ sinkpc = "write" /\ sinkpc' = "recycle"
  BY DEF DInv, TInv, Types, WriteOut, AfterWrite
<1>2. \A b \in Buffers : content'[b] = IF b = sinkBuffer THEN reset ELSE content[b]
  BY <1>1
<1>3. /\ sinkBuffer \notin ToSet(sinkBufQueue)
      /\ bgpc # "start" /\ bgpc # "take" => bgBuffer # sinkBuffer
      /\ ToSet(sinkBufQueue) \subseteq Buffers /\ ToSet(cacheBufQueue) \subseteq Buffers
      /\ bgpc # "start" => bgBuffer \in Buffers
  BY <1>1, Apart DEF DInv, TInv, Types
<1>4. EmptyWhereDue'
  BY <1>1, <1>2, <1>3 DEF DInv, Due, EmptyWhereDue, bgVars
<1> QED
  BY <1>1, <1>2, <1>3, <1>4 DEF DInv, Due, bgVars

LEMMA PopDue == ASSUME DInv, PopFront PROVE Due'
<1>1. /\ UNCHANGED <<bgVars, content, cacheBufQueue>> /\ sinkpc' = "write"
      /\ sinkBufQueue # <<>> /\ sinkBufQueue' = Tail(sinkBufQueue)
  BY DEF DInv, TInv, Waits, PopFront, mutexSinkHeld
<1>2. ToSet(sinkBufQueue') \subseteq ToSet(sinkBufQueue)
  BY <1>1, HeadTaken DEF DInv, TInv, Types, Owners
<1> QED
  BY <1>1, <1>2 DEF DInv, Due, EmptyWhereDue, bgVars

LEMMA GiveDue == ASSUME DInv, GiveBack PROVE Due'
<1>1. /\ UNCHANGED <<bgVars, content, sinkBufQueue>>
      /\ sinkpc = "give" /\ sinkpc' = "while"
      /\ ToSet(cacheBufQueue') = ToSet(cacheBufQueue) \cup {sinkBuffer}
  BY AppendedTo DEF DInv, TInv, Types, GiveBack
<1> QED
  BY <1>1 DEF DInv, Due, EmptyWhereDue, bgVars

LEMMA DueStep == DInv /\ [Next]_vars => Due'
<1> SUFFICES ASSUME DInv, [Next]_vars PROVE Due'
  OBVIOUS
<1>1. CASE \/ \E p \in Producers : add(p)
           \/ TestExit \/ Look \/ KeepBuffer
           \/ UNCHANGED vars
  <2>1. /\ UNCHANGED <<bgVars, content, sinkBufQueue, cacheBufQueue, sinkBuffer>>
        /\ sinkpc' \in {"recycle", "give"} => sinkpc \in {"recycle", "give"}
    BY <1>1 DEF add, TestExit, Look, KeepBuffer, vars, sinkVars, sharedVars
  <2> QED
    BY <2>1, StillDue DEF bgVars
<1>2. CASE DeleteBuffer
  BY <1>2 DEF DeleteBuffer, DInv, Due, EmptyWhereDue, bgVars
<1> QED
  BY <1>1, <1>2, ScanDue, CopyDue, StartDue, HandOverDue, TakeDue, WriteDue,
     PopDue, GiveDue DEF Next, RingBufBG, Drain, sinkBufBG, Terminated

(* A buffer is handed over with lines in it and cached without any. *)
THEOREM EmptyOnlyWhereDue == Spec => []EmptyWhereDue
<1>1. Init => DInv
  BY TypesInitially, OwnersInitially, DueInitially DEF DInv
<1>2. DInv /\ [Next]_vars => DInv'
  BY TypesStep, OwnersStep, DueStep DEF DInv
<1>3. DInv => EmptyWhereDue
  BY DEF DInv, Due
<1> QED
  BY <1>1, <1>2, <1>3, PTL DEF Spec

-----------------------------------------------------------------------------
(* What RingBufBG has counted. *)

Consumed(p) == added[p] - Len(ring[p])

(* The entries that have left the rings. *)
Drained == {line \in Lines : line[2] <= Consumed(line[1])}

(* The part of them that is not in j yet. *)
Uncounted ==
  IF bgpc \in {"scan", "walk"} \/ (bgpc \in {"push", "take"} /\ count > 0)
  THEN nPerItr ELSE 0

Rings ==
  /\ \A p \in Producers :
       /\ ring[p] \in Seq({p} \X (1 .. AddNum))
       /\ Len(ring[p]) <= RingBufSize /\ Len(ring[p]) <= added[p]
  /\ n <= batchSizePop

Counts ==
  /\ Cardinality(Drained) = j + Uncounted
  /\ nPerItr <= Total
  /\ bgpc \in {"sleep", "done"} => j >= Total
  /\ nItrWithNonEmptyBuf <= FlushAfter
       \/ (bgpc \in {"push", "take"} /\ nItrWithNonEmptyBuf = FlushAfter + 1)

(* After the last ring of a round there is none to go back to. *)
RoundOver == bgpc \in {"push", "take"} /\ count = 0 => index = ThreadNum + 1

Streams == sinkBufBGExit \in BOOLEAN /\ good \in BOOLEAN
           /\ file \in Seq(Lines) /\ lost \in Seq(Lines)

CountInv == TInv /\ Rings /\ Counts /\ RoundOver /\ Streams

LEMMA LinesAreCounted ==
  /\ IsFiniteSet(Lines) /\ Cardinality(Lines) = Total /\ Total \in Nat
<1>1. IsFiniteSet(1 .. AddNum) /\ Cardinality(1 .. AddNum) = AddNum
  BY FS_Interval
<1>2. IsFiniteSet(Producers) /\ Cardinality(Producers) = ThreadNum
  BY FS_Interval, Constants
<1>3. IsFiniteSet(Lines) /\ Cardinality(Lines) = ThreadNum * AddNum
  BY <1>1, <1>2, FS_Product DEF Lines
<1>4. ThreadNum * AddNum = AddNum * ThreadNum /\ AddNum * ThreadNum \in Nat
  OBVIOUS
<1> QED
  BY <1>3, <1>4 DEF Total

LEMMA DrainedAreLines ==
  /\ IsFiniteSet(Drained) /\ Cardinality(Drained) \in Nat
  /\ Cardinality(Drained) <= Total
  /\ Cardinality(Drained) = Total => Drained = Lines
<1>1. Drained \in SUBSET Lines
  BY DEF Drained
<1>2. IsFiniteSet(Drained) /\ Cardinality(Drained) <= Cardinality(Lines)
      /\ (Cardinality(Lines) = Cardinality(Drained) => Lines = Drained)
  BY <1>1, LinesAreCounted, FS_Subset
<1> QED
  BY <1>2, LinesAreCounted, FS_CardinalityType

(* Since no more can have left than there are, j is right when it is       *)
(* Total: nothing is left.                                                 *)
LEMMA ExitIsRight == CountInv => DrainedAtExit
<1> SUFFICES ASSUME CountInv, bgpc \in {"sleep", "done"}, NEW p \in Producers
             PROVE  added[p] = AddNum /\ ring[p] = <<>>
  BY DEF DrainedAtExit
<1>1. added[p] \in 0 .. AddNum /\ ring[p] \in Seq(Lines) /\ Len(ring[p]) \in Nat
  BY LenProperties DEF CountInv, TInv, Types
<1>2. Cardinality(Drained) = j /\ j >= Total /\ j \in Nat
  BY DEF CountInv, Counts, Uncounted, TInv, Types
<1>3. Cardinality(Drained) = Total
  BY <1>2, DrainedAreLines, LinesAreCounted
<1>4. Drained = Lines
  BY <1>3, DrainedAreLines
<1>5. CASE AddNum = 0
  <2>1. Len(ring[p]) <= added[p]
    BY DEF CountInv, Rings
  <2>2. added[p] = 0 /\ Len(ring[p]) = 0
    BY <1>1, <1>5, <2>1
  <2> QED
    BY <1>1, <1>5, <2>2, EmptySeq
<1>6. CASE AddNum > 0
  <2>1. <<p, AddNum>> \in Lines
    BY <1>6 DEF Lines
  <2>2. AddNum <= added[p] - Len(ring[p])
    BY <1>4, <2>1 DEF Drained, Consumed
  <2> QED
    BY <1>1, <2>2, EmptySeq
<1> QED
  BY <1>5, <1>6

LEMMA CountsAreTypes == CountInv => TypeOK
<1> SUFFICES ASSUME CountInv PROVE TypeOK
  OBVIOUS
<1>1. j \in 0 .. Total /\ nPerItr \in 0 .. Total
  <2>1. j \in Nat /\ nPerItr \in Nat /\ j <= Cardinality(Drained)
    BY DEF CountInv, Counts, Uncounted, TInv, Types
  <2> QED
    BY <2>1, DrainedAreLines, LinesAreCounted DEF CountInv, Counts
<1>2. nItrWithNonEmptyBuf \in 0 .. FlushAfter + 1
  BY DEF CountInv, Counts, TInv, Types
<1>3. n \in 0 .. batchSizePop
  BY DEF CountInv, Rings, TInv, Types
<1> QED
  BY <1>1, <1>2, <1>3 DEF TypeOK, CountInv, Rings, Streams, TInv, Types, Lines

-----------------------------------------------------------------------------
LEMMA CountInitially == Init => CountInv
<1> SUFFICES ASSUME Init PROVE CountInv
  OBVIOUS
<1>1. TInv
  BY TypesInitially
<1>2. \A p \in Producers : ring[p] = <<>> /\ added[p] = 0 /\ Len(ring[p]) = 0
  BY EmptySeq DEF Init
<1>3. Rings
  BY <1>2, EmptySeq DEF Init, Rings
<1>4. Drained = {}
  BY <1>2 DEF Drained, Consumed, Lines
<1>5. Cardinality(Drained) = 0
  BY <1>4, FS_EmptySet
<1>6. Counts
  <2>1. j + Uncounted = 0
    BY DEF Init, Uncounted
  <2>2. nPerItr <= Total /\ nItrWithNonEmptyBuf <= FlushAfter /\ bgpc = "start"
    BY LinesAreCounted DEF Init
  <2>3. Cardinality(Drained) = j + Uncounted
    BY <1>5, <2>1
  <2>4. bgpc \in {"sleep", "done"} => j >= Total
    BY <2>2
  <2>5. nItrWithNonEmptyBuf <= FlushAfter
          \/ (bgpc \in {"push", "take"} /\ nItrWithNonEmptyBuf = FlushAfter + 1)
    BY <2>2
  <2> QED
    BY <2>2, <2>3, <2>4, <2>5 DEF Counts
<1>7. RoundOver /\ Streams
  BY EmptySeq DEF Init, RoundOver, Streams
<1> QED
  BY <1>1, <1>3, <1>6, <1>7 DEF CountInv

LEMMA AddCounts ==
  ASSUME CountInv, NEW p \in Producers, add(p)
  PROVE  Rings' /\ Counts'
<1> USE DEF CountInv
<1>1. /\ added[p] \in 0 .. AddNum /\ added[p] < AddNum
      /\ Len(ring[p]) < RingBufSize
      /\ added' = [added EXCEPT ![p] = @ + 1]
      /\ ring' = [ring EXCEPT ![p] = Append(@, <<p, added[p] + 1>>)]
      /\ ring \in [Producers -> Seq(Lines)] /\ added \in [Producers -> 0 .. AddNum]
      /\ UNCHANGED <<bgpc, count, n, nPerItr, j, nItrWithNonEmptyBuf>>
  BY DEF add, TInv, Types, bgVars
<1>2. ring[p] \in Seq({p} \X (1 .. AddNum))
  BY DEF Rings
<1>3. /\ ring'[p] \in Seq({p} \X (1 .. AddNum))
      /\ Len(ring'[p]) = Len(ring[p]) + 1 /\ Len(ring[p]) \in Nat
  BY <1>1, <1>2, AppendProperties, LenProperties
<1>4. \A q \in Producers : q # p => ring'[q] = ring[q] /\ added'[q] = added[q]
  BY <1>1
<1>5. added'[p] = added[p] + 1
  BY <1>1
<1>6. Rings'
  <2>1. Len(ring'[p]) <= RingBufSize
    BY <1>1, <1>3
  <2>2. Len(ring[p]) <= added[p]
    BY DEF Rings
  <2>3. Len(ring'[p]) <= added'[p]
    BY <1>1, <1>3, <1>5, <2>2
  <2>4. \A q \in Producers : /\ ring'[q] \in Seq({q} \X (1 .. AddNum))
                            /\ Len(ring'[q]) <= RingBufSize
                            /\ Len(ring'[q]) <= added'[q]
    BY <1>3, <1>4, <2>1, <2>3 DEF Rings
  <2> QED
    BY <1>1, <2>4 DEF Rings
<1>7. \A q \in Producers : Consumed(q)' = Consumed(q)
  BY <1>1, <1>3, <1>4, <1>5 DEF Consumed
<1>8. Drained' = Drained
  BY <1>7 DEF Drained, Lines
<1>9. Counts'
  BY <1>1, <1>8 DEF Counts, Uncounted
<1> QED
  BY <1>6, <1>9

(* The n entries that go back to the producer are those counted. *)
LEMMA ConsumeCounts ==
  ASSUME CountInv, consume, NEW p \in Producers, p = index
  PROVE  Rings' /\ Counts'
<1> USE DEF CountInv
<1>1. /\ n \in Nat /\ n <= Len(ring[p]) /\ bgpc = "walk"
      /\ ring \in [Producers -> Seq(Lines)] /\ added \in [Producers -> 0 .. AddNum]
      /\ ring' = [ring EXCEPT ![p] = SubSeq(ring[p], n + 1, Len(ring[p]))]
      /\ nPerItr' = nPerItr + n /\ bgpc' = "scan" /\ nPerItr \in Nat /\ j \in Nat
      /\ UNCHANGED <<added, n, count, j, nItrWithNonEmptyBuf>>
  BY DEF consume, TInv, Types, Walk, GivenBack, Counted
<1>2. /\ ring[p] \in Seq({p} \X (1 .. AddNum)) /\ Len(ring[p]) \in Nat
      /\ Len(ring[p]) <= RingBufSize /\ Len(ring[p]) <= added[p]
      /\ added[p] \in 0 .. AddNum
  BY <1>1, LenProperties DEF Rings
<1>3. /\ ring'[p] \in Seq({p} \X (1 .. AddNum))
      /\ Len(ring'[p]) = Len(ring[p]) - n
  <2>1. ring'[p] = SubSeq(ring[p], n + 1, Len(ring[p]))
    BY <1>1
  <2>2. \A i \in n + 1 .. Len(ring[p]) : ring[p][i] \in {p} \X (1 .. AddNum)
    BY <1>1, <1>2, ElementOfSeq
  <2> QED
    BY <1>1, <1>2, <2>1, <2>2, SubSeqProperties
<1>4. \A q \in Producers : q # p => ring'[q] = ring[q]
  BY <1>1
<1>5. Rings'
  <2>1. Len(ring'[p]) <= RingBufSize /\ Len(ring'[p]) <= added[p]
    BY <1>1, <1>2, <1>3
  <2>2. \A q \in Producers : /\ ring'[q] \in Seq({q} \X (1 .. AddNum))
                            /\ Len(ring'[q]) <= RingBufSize
                            /\ Len(ring'[q]) <= added[q]
    BY <1>3, <1>4, <2>1 DEF Rings
  <2> QED
    BY <1>1, <2>2 DEF Rings
<1> DEFINE c == Consumed(p)
           new == {p} \X ((c + 1) .. (c + n))
<1>6. c \in Nat /\ c + n <= AddNum /\ Consumed(p)' = c + n
  BY <1>1, <1>2, <1>3 DEF Consumed
<1>7. \A q \in Producers : q # p => Consumed(q)' = Consumed(q)
  BY <1>1, <1>4 DEF Consumed
<1> HIDE DEF c
<1>8. Drained' = Drained \cup new
  <2>1. ASSUME NEW line \in Lines
        PROVE  line \in Drained' <=> line \in Drained \/ line \in new
    <3>1. line \in Producers \X (1 .. AddNum) /\ line[1] \in Producers /\ line[2] \in Nat
      BY DEF Lines
    <3>2. line \in Drained <=> line[2] <= Consumed(line[1])
      BY DEF Drained
    <3>3. line \in Drained' <=> line[2] <= Consumed(line[1])'
      BY DEF Drained
    <3>4. line \in new <=> line[1] = p /\ line[2] > c /\ line[2] <= c + n
      BY <1>1, <1>6, <3>1
    <3>5. CASE line[1] = p
      <4>1. line \in Drained <=> line[2] <= c
        BY <3>2, <3>5 DEF c
      <4>2. line \in Drained' <=> line[2] <= c + n
        BY <1>6, <3>3, <3>5
      <4> QED
        BY <1>1, <1>6, <3>1, <3>4, <3>5, <4>1, <4>2
    <3>6. CASE line[1] # p
      BY <1>7, <3>1, <3>2, <3>3, <3>4, <3>6
    <3> QED
      BY <3>5, <3>6
  <2>2. new \subseteq Lines
    <3>1. (c + 1) .. (c + n) \subseteq 1 .. AddNum
      BY <1>1, <1>6
    <3> QED
      BY <3>1 DEF Lines
  <2> QED
    BY <2>1, <2>2 DEF Drained
<1>9. Drained \cap new = {}
  BY <1>1, <1>6 DEF Drained, c
<1>10. IsFiniteSet(new) /\ Cardinality(new) = n
  <2>1. IsFiniteSet({p}) /\ Cardinality({p}) = 1
    BY FS_Singleton
  <2>2. c + 1 \in Int /\ c + n \in Int
    BY <1>1, <1>6
  <2>3. IsFiniteSet((c + 1) .. (c + n)) /\ Cardinality((c + 1) .. (c + n)) = n
    BY <1>1, <1>6, <2>2, FS_Interval
  <2>4. IsFiniteSet(new) /\ Cardinality(new) = 1 * n
    <3> DEFINE one == {p}
               copied == (c + 1) .. (c + n)
    <3>1. IsFiniteSet(one) /\ Cardinality(one) = 1
          /\ IsFiniteSet(copied) /\ Cardinality(copied) = n
      BY <2>1, <2>3
    <3>2. new = one \X copied
      OBVIOUS
    <3> HIDE DEF one, copied, new
    <3>3. IsFiniteSet(one \X copied)
          /\ Cardinality(one \X copied) = Cardinality(one) * Cardinality(copied)
      BY <3>1, FS_Product
    <3> QED
      BY <3>1, <3>2, <3>3
  <2> QED
    BY <1>1, <2>4
<1> HIDE DEF new
<1>11. Cardinality(Drained') = Cardinality(Drained) + n
  <2>1. Cardinality(Drained \cup new) = Cardinality(Drained) + n - Cardinality({})
    BY <1>9, <1>10, DrainedAreLines, FS_Union
  <2> QED
    BY <1>1, <1>8, <2>1, FS_EmptySet, DrainedAreLines
<1>12. Cardinality(Drained) = j + nPerItr /\ Cardinality(Drained') <= Total
  <2>1. Cardinality(Drained) = j + nPerItr
    BY <1>1 DEF Counts, Uncounted
  <2>2. Drained' \in SUBSET Lines
    BY DEF Drained
  <2>3. Cardinality(Drained') <= Total
    BY <2>2, LinesAreCounted, FS_Subset
  <2> QED
    BY <2>1, <2>3
<1>13. Cardinality(Drained') = j' + Uncounted' /\ nPerItr' <= Total
  BY <1>1, <1>11, <1>12, LinesAreCounted DEF Uncounted
<1>14. nItrWithNonEmptyBuf' <= FlushAfter
  BY <1>1 DEF Counts
<1> QED
  BY <1>1, <1>5, <1>13, <1>14 DEF Counts

(* The other steps leave the rings to their producers. *)
LEMMA RingsStay ==
  ASSUME Rings, UNCHANGED <<ring, added>>, n' <= batchSizePop PROVE Rings'
  BY DEF Rings

LEMMA DrainedStays ==
  ASSUME UNCHANGED <<ring, added>> PROVE Drained' = Drained
  BY DEF Drained, Consumed

(* A round that is over is counted, or found empty. *)
LEMMA RoundCounts ==
  ASSUME CountInv, Start \/ IdleRound \/ BusyRound
  PROVE  Counts' /\ RoundOver'
<1> USE DEF CountInv
<1>1. /\ UNCHANGED <<ring, added, count>> /\ j \in Nat /\ nPerItr \in Nat
      /\ count = 0 /\ nItrWithNonEmptyBuf \in Nat /\ index \in 1 .. ThreadNum + 1
  BY DEF Start, IdleRound, BusyRound, prodVars, TInv, Types, Walk
<1>2. Drained' = Drained
  BY <1>1, DrainedStays
<1>3. CASE Start \/ IdleRound
  <2>1. /\ bgpc \in {"start", "scan"} /\ (bgpc = "scan" => nPerItr = 0)
        /\ j' = j /\ nPerItr' = 0 /\ nItrWithNonEmptyBuf' = nItrWithNonEmptyBuf
        /\ bgpc' \in {"scan", "sleep"} /\ (bgpc' = "sleep" => ~(j < Total))
    BY <1>3 DEF Start, IdleRound, Round
  <2>2. Cardinality(Drained) = j /\ nItrWithNonEmptyBuf <= FlushAfter
    BY <1>1, <2>1 DEF Counts, Uncounted
  <2> QED
    BY <1>1, <1>2, <2>1, <2>2, LinesAreCounted DEF Counts, Uncounted, RoundOver
<1>4. CASE BusyRound
  <2>1. /\ bgpc = "scan" /\ index > ThreadNum /\ j' = j + nPerItr
        /\ nItrWithNonEmptyBuf' = nItrWithNonEmptyBuf + 1
        /\ \/ /\ nItrWithNonEmptyBuf + 1 > FlushAfter /\ bgpc' = "push"
              /\ UNCHANGED <<index, nPerItr>>
           \/ /\ ~(nItrWithNonEmptyBuf + 1 > FlushAfter)
              /\ nPerItr' = 0 /\ bgpc' \in {"scan", "sleep"}
              /\ bgpc' = "sleep" => ~(j' < Total)
    BY <1>4 DEF BusyRound, Overdue, Round
  <2>2. /\ Cardinality(Drained) = j + nPerItr /\ nItrWithNonEmptyBuf <= FlushAfter
        /\ nPerItr <= Total
    BY <2>1 DEF Counts, Uncounted
  <2>3. Uncounted' = 0 /\ nPerItr' <= Total
    BY <1>1, <2>1, <2>2, LinesAreCounted DEF Uncounted
  <2>4. Cardinality(Drained') = j' + Uncounted'
    BY <1>1, <1>2, <2>1, <2>2, <2>3
  <2>5. bgpc' \in {"sleep", "done"} => j' >= Total
    BY <1>1, <2>1, LinesAreCounted
  <2>6. nItrWithNonEmptyBuf' <= FlushAfter
          \/ (bgpc' \in {"push", "take"} /\ nItrWithNonEmptyBuf' = FlushAfter + 1)
    <3>1. CASE nItrWithNonEmptyBuf + 1 > FlushAfter
      <4>1. nItrWithNonEmptyBuf' = FlushAfter + 1
        BY <1>1, <2>1, <2>2, <3>1
      <4> QED
        BY <2>1, <3>1, <4>1
    <3>2. CASE ~(nItrWithNonEmptyBuf + 1 > FlushAfter)
      <4>1. nItrWithNonEmptyBuf' = nItrWithNonEmptyBuf + 1
        BY <2>1
      <4>2. nItrWithNonEmptyBuf' <= FlushAfter
        BY <1>1, <3>2, <4>1
      <4> QED
        BY <4>2
    <3> QED
      BY <3>1, <3>2
  <2>7. RoundOver'
    BY <1>1, <2>1 DEF RoundOver
  <2> QED
    BY <2>3, <2>4, <2>5, <2>6, <2>7 DEF Counts
<1> QED
  BY <1>3, <1>4

LEMMA TakeCounts ==
  ASSUME CountInv, TakeBuffer PROVE Counts' /\ RoundOver'
<1> USE DEF CountInv
<1>1. /\ UNCHANGED <<ring, added, count, j>> /\ j \in Nat /\ nPerItr \in Nat
      /\ count \in Nat /\ bgpc = "take" /\ nItrWithNonEmptyBuf' = 0
      /\ \/ count > 0 /\ bgpc' = "walk" /\ nPerItr' = nPerItr
         \/ /\ count = 0 /\ nPerItr' = 0 /\ bgpc' \in {"scan", "sleep"}
            /\ bgpc' = "sleep" => ~(j < Total)
  BY DEF TakeBuffer, Resume, Round, RoundsRestart, prodVars, TInv, Types
<1>2. Drained' = Drained
  BY <1>1, DrainedStays
<1>3. Cardinality(Drained) = j + (IF count > 0 THEN nPerItr ELSE 0)
      /\ nPerItr <= Total
  BY <1>1 DEF Counts, Uncounted
<1>4. Cardinality(Drained') = j' + Uncounted' /\ nPerItr' <= Total
  BY <1>1, <1>2, <1>3, LinesAreCounted DEF Uncounted
<1>5. bgpc' \in {"sleep", "done"} => j' >= Total
  BY <1>1, LinesAreCounted
<1>6. nItrWithNonEmptyBuf' <= FlushAfter
        \/ (bgpc' \in {"push", "take"} /\ nItrWithNonEmptyBuf' = FlushAfter + 1)
  <2>1. nItrWithNonEmptyBuf' <= FlushAfter
    BY <1>1
  <2> QED
    BY <2>1
<1>7. RoundOver'
  BY <1>1 DEF RoundOver
<1> QED
  BY <1>4, <1>5, <1>6, <1>7 DEF Counts

(* The steps in between, and those of sinkBufBG, count nothing. *)
LEMMA OthersCount ==
  ASSUME CountInv,
         \/ peek \/ CopyEntry \/ BufferFull \/ HandOver \/ SignalExit
         \/ sinkBufBG \/ UNCHANGED vars
  PROVE  Counts' /\ RoundOver' /\ n' <= batchSizePop
<1> USE DEF CountInv
<1>1. UNCHANGED <<ring, added, nPerItr, j, nItrWithNonEmptyBuf>>
  BY DEF peek, CopyEntry, BufferFull, HandOver, SignalExit, sinkBufBG, TestExit,
         Look, PopFront, WriteOut, DeleteBuffer, KeepBuffer, GiveBack,
         vars, prodVars, bgVars
<1>2. Drained' = Drained
  BY <1>1, DrainedStays
<1>3. CASE sinkBufBG \/ UNCHANGED vars
  <2>1. UNCHANGED <<bgpc, count, index, n>>
    BY <1>3 DEF sinkBufBG, TestExit, Look, PopFront, WriteOut, DeleteBuffer,
                KeepBuffer, GiveBack, vars, bgVars
  <2> QED
    BY <1>1, <1>2, <2>1 DEF Counts, Uncounted, RoundOver, Rings
<1>4. CASE peek
  <2>1. bgpc = "scan" /\ bgpc' \in {"scan", "walk"}
    BY <1>4 DEF peek
  <2>2. n' <= batchSizePop
    BY <1>4, LenProperties DEF peek, TInv, Types, Producers
  <2> QED
    BY <1>1, <1>2, <2>1, <2>2 DEF Counts, Uncounted, RoundOver
<1>5. CASE CopyEntry
  <2>1. bgpc = "walk" /\ bgpc' = "walk" /\ n' = n
    BY <1>5 DEF CopyEntry
  <2> QED
    BY <1>1, <1>2, <2>1 DEF Counts, Uncounted, RoundOver, Rings
<1>6. CASE BufferFull
  <2>1. bgpc = "walk" /\ bgpc' = "push" /\ n' = n /\ count' = count /\ count > 0
        /\ count \in Nat
    BY <1>6 DEF BufferFull, TInv, Types
  <2> QED
    BY <1>1, <1>2, <2>1 DEF Counts, Uncounted, RoundOver, Rings
<1>7. CASE HandOver
  <2>1. bgpc = "push" /\ bgpc' = "take" /\ UNCHANGED <<n, count, index>>
    BY <1>7 DEF HandOver
  <2> QED
    BY <1>1, <1>2, <2>1 DEF Counts, Uncounted, RoundOver, Rings
<1>8. CASE SignalExit
  <2>1. bgpc = "sleep" /\ bgpc' = "done" /\ n' = n
    BY <1>8 DEF SignalExit
  <2> QED
    BY <1>1, <1>2, <2>1 DEF Counts, Uncounted, RoundOver, Rings
<1> QED
  BY <1>3, <1>4, <1>5, <1>6, <1>7, <1>8

(* The stream takes a part of the lines and refuses the rest. *)
LEMMA TakenOrLost ==
  ASSUME NEW lines \in Seq(Lines), Write(lines), Streams
  PROVE  \E k \in 0 .. Len(lines) :
           /\ file' = file \o SubSeq(lines, 1, k)
           /\ lost' = lost \o SubSeq(lines, k + 1, Len(lines))
           /\ SubSeq(lines, 1, k) \in Seq(Lines)
           /\ SubSeq(lines, k + 1, Len(lines)) \in Seq(Lines)
           /\ file' \in Seq(Lines) /\ lost' \in Seq(Lines)
           /\ good' \in BOOLEAN
           /\ ~good => k = 0 /\ ~good'
           /\ good /\ good' => k = Len(lines)
<1>1. Len(lines) \in Nat /\ good \in BOOLEAN
  BY LenProperties DEF Streams
<1>2. PICK k \in 0 .. Len(lines) :
        /\ Takes(lines, k) /\ good' \in BOOLEAN
        /\ ~good => k = 0 /\ ~good'
        /\ good /\ good' => k = Len(lines)
  <2>1. CASE good /\ Takes(lines, Len(lines)) /\ good' = TRUE
    BY <1>1, <2>1
  <2>2. ASSUME good, NEW k \in 0 .. Len(lines), Takes(lines, k), good' = FALSE
        PROVE  \E i \in 0 .. Len(lines) :
                 /\ Takes(lines, i) /\ good' \in BOOLEAN
                 /\ ~good => i = 0 /\ ~good'
                 /\ good /\ good' => i = Len(lines)
    BY <2>2
  <2>3. CASE ~good /\ Takes(lines, 0) /\ ~good' /\ good' \in BOOLEAN
    BY <1>1, <2>3
  <2> QED
    BY <2>1, <2>2, <2>3 DEF Write, StillBad
<1> DEFINE a == SubSeq(lines, 1, k)
           b == SubSeq(lines, k + 1, Len(lines))
<1>3. a \in Seq(Lines) /\ b \in Seq(Lines)
  BY <1>1
<1> HIDE DEF a, b
<1>4. file \o a \in Seq(Lines) /\ lost \o b \in Seq(Lines)
  BY <1>3, ConcatProperties DEF Streams
<1> QED
  BY <1>2, <1>3, <1>4 DEF Takes, a, b

LEMMA StreamsStep ==
  ASSUME TInv, Streams, [Next]_vars PROVE Streams'
<1>1. CASE WriteOut
  <2>1. content[sinkBuffer] \in Seq(Lines) /\ Write(content[sinkBuffer])
        /\ sinkBufBGExit' = sinkBufBGExit
    BY <1>1 DEF WriteOut, TInv, Types
  <2> QED
    BY <2>1, TakenOrLost DEF Streams
<1>2. CASE SignalExit
  BY <1>2 DEF SignalExit, Streams, streamVars
<1>3. CASE UNCHANGED outVars
  BY <1>3 DEF Streams, outVars, streamVars
<1>4. WriteOut \/ SignalExit \/ UNCHANGED outVars
  BY DEF Next, RingBufBG, Drain, sinkBufBG, Terminated, add, Start, peek,
         CopyEntry, BufferFull, consume, IdleRound, BusyRound, HandOver,
         TakeBuffer, TestExit, Look, PopFront, DeleteBuffer, KeepBuffer,
         GiveBack, vars, sharedVars
<1> QED
  BY <1>1, <1>2, <1>3, <1>4

LEMMA CountStep == CountInv /\ [Next]_vars => CountInv'
<1> SUFFICES ASSUME CountInv, [Next]_vars PROVE Rings' /\ Counts' /\ RoundOver'
  BY TypesStep, StreamsStep DEF CountInv
<1>1. ASSUME NEW p \in Producers, add(p) PROVE Rings' /\ Counts' /\ RoundOver'
  BY <1>1, AddCounts DEF add, bgVars, RoundOver, CountInv
<1>2. CASE consume
  <2>1. index \in Producers
    BY <1>2 DEF consume, CountInv, TInv, Walk
  <2>2. RoundOver'
    BY <1>2 DEF consume, RoundOver
  <2> QED
    BY <1>2, <2>1, <2>2, ConsumeCounts
<1>3. CASE Start \/ IdleRound \/ BusyRound \/ TakeBuffer
  <2>1. Rings'
    BY <1>3, RingsStay DEF Start, IdleRound, BusyRound, TakeBuffer, prodVars,
                           CountInv, Rings
  <2> QED
    BY <1>3, <2>1, RoundCounts, TakeCounts
<1>4. CASE \/ peek \/ CopyEntry \/ BufferFull \/ HandOver \/ SignalExit
           \/ sinkBufBG \/ UNCHANGED vars
  <2>1. UNCHANGED <<ring, added>>
    BY <1>4 DEF peek, CopyEntry, BufferFull, HandOver, SignalExit, sinkBufBG,
         TestExit, Look, PopFront, WriteOut, DeleteBuffer, KeepBuffer, GiveBack,
         vars, prodVars
  <2> QED
    BY <1>4, <2>1, OthersCount, RingsStay DEF CountInv
<1> QED
  BY <1>1, <1>2, <1>3, <1>4 DEF Next, RingBufBG, Drain, Terminated

(***************************************************************************)
(* RingBufBG's count of what it has copied out is exact, in the middle of  *)
(* a round and across the hand-over of a buffer as well.                   *)
(***************************************************************************)
THEOREM CountIsExact == Spec => []CountInv
  BY CountInitially, CountStep, PTL DEF Spec

(* Every variable stays in its type and its bound. *)
THEOREM TypeCorrect == Spec => []TypeOK
  BY CountIsExact, CountsAreTypes, PTL

(* The loop ends with every entry added and none left in a ring. *)
THEOREM NothingLeftInRings == Spec => []DrainedAtExit
  BY CountIsExact, ExitIsRight, PTL

-----------------------------------------------------------------------------
(* A part of a producer's lines: s holds those of p from lo + 1 to hi, in  *)
(* their order, whatever lines of others are between them.                 *)

Holds(s, p, lo, hi) ==
  /\ lo <= hi
  /\ Log!Numbers(s, p) = (lo + 1) .. hi
  /\ Log!Rising(s, p)

(* Induction, in the one form the provers take it. *)
LEMMA LeastOfNats ==
  ASSUME NEW T \in SUBSET Nat, T # {}
  PROVE  \E x \in T : \A y \in T : x <= y
<1>1. IsWellFoundedOn(OpToRel(<, Nat), Nat)
  BY NatLessThanWellFounded, Zenon
<1>2. \E x \in T : \A y \in T : ~ (<<y, x>> \in OpToRel(<, Nat))
  BY <1>1, WFMin, Zenon
<1>3. \A x, y \in Nat : y < x => <<y, x>> \in OpToRel(<, Nat)
  BY Zenon DEF OpToRel
<1>4. \E x \in T : \A y \in T : ~ (y < x)
  BY <1>2, <1>3, Zenon
<1> QED
  BY <1>4

LEMMA NoneHeld ==
  ASSUME NEW p
  PROVE  /\ \A lo \in Nat : Holds(<<>>, p, lo, lo)
         /\ \A lo, hi \in Nat : Holds(<<>>, p, lo, hi) => lo = hi
<1>1. Log!Numbers(<<>>, p) = {} /\ Log!Rising(<<>>, p)
  BY DEF Log!Numbers, Log!Rising
<1> QED
  BY <1>1 DEF Holds

LEMMA OneHeld ==
  ASSUME NEW line \in Lines, NEW p
  PROVE  /\ line[1] # p => \A lo \in Nat : Holds(<<line>>, p, lo, lo)
         /\ line[1] = p => Holds(<<line>>, p, line[2] - 1, line[2])
<1>1. /\ DOMAIN <<line>> = {1} /\ <<line>>[1] = line
      /\ line[2] \in Int
  BY DEF Lines
<1>2. Log!Rising(<<line>>, p)
  BY <1>1 DEF Log!Rising
<1>3. Log!Numbers(<<line>>, p) = IF line[1] = p THEN {line[2]} ELSE {}
  BY <1>1 DEF Log!Numbers
<1>4. CASE line[1] = p
  <2>1. {line[2]} = ((line[2] - 1) + 1) .. line[2] /\ line[2] - 1 <= line[2]
    BY <1>1
  <2> QED
    BY <1>2, <1>3, <1>4, <2>1 DEF Holds
<1>5. CASE line[1] # p
  <2>1. \A lo \in Nat : {} = (lo + 1) .. lo /\ lo <= lo
    OBVIOUS
  <2> QED
    BY <1>2, <1>3, <1>5, <2>1 DEF Holds
<1> QED
  BY <1>4, <1>5

(* The places of a sequence that consists of two. *)
LEMMA Concatenated ==
  ASSUME NEW s \in Seq(Lines), NEW t \in Seq(Lines)
  PROVE  /\ Len(s) \in Nat /\ Len(t) \in Nat
         /\ DOMAIN s = 1 .. Len(s) /\ DOMAIN t = 1 .. Len(t)
         /\ DOMAIN (s \o t) = 1 .. Len(s) + Len(t)
         /\ \A i \in 1 .. Len(s) : (s \o t)[i] = s[i]
         /\ \A i \in 1 .. Len(t) : (s \o t)[Len(s) + i] = t[i]
         /\ \A i \in 1 .. Len(s) : s[i][2] \in Nat
         /\ \A i \in 1 .. Len(t) : t[i][2] \in Nat
<1>1. /\ s \o t \in Seq(Lines) /\ Len(s \o t) = Len(s) + Len(t)
      /\ \A i \in 1 .. Len(s) + Len(t) :
           (s \o t)[i] = IF i <= Len(s) THEN s[i] ELSE t[i - Len(s)]
  BY ConcatProperties
<1>2. /\ Len(s) \in Nat /\ Len(t) \in Nat
      /\ DOMAIN s = 1 .. Len(s) /\ DOMAIN t = 1 .. Len(t)
      /\ DOMAIN (s \o t) = 1 .. Len(s) + Len(t)
  BY <1>1, LenProperties
<1>3. \A i \in 1 .. Len(s) : (s \o t)[i] = s[i]
  BY <1>1, <1>2
<1>4. \A i \in 1 .. Len(t) : (s \o t)[Len(s) + i] = t[i]
  BY <1>1, <1>2
<1>5. \A line \in Lines : line[2] \in Nat
  BY DEF Lines
<1>6. \A i \in 1 .. Len(s) : s[i][2] \in Nat
  BY <1>2, <1>5, ElementOfSeq
<1>7. \A i \in 1 .. Len(t) : t[i][2] \in Nat
  BY <1>2, <1>5, ElementOfSeq
<1> QED
  BY <1>2, <1>3, <1>4, <1>6, <1>7

LEMMA NumbersJoined ==
  ASSUME NEW s \in Seq(Lines), NEW t \in Seq(Lines), NEW p
  PROVE  /\ Log!Numbers(s \o t, p) = Log!Numbers(s, p) \cup Log!Numbers(t, p)
         /\ Log!Numbers(s, p) \subseteq Nat /\ Log!Numbers(t, p) \subseteq Nat
<1>1. \A x \in Log!Numbers(s \o t, p) :
        x \in Log!Numbers(s, p) \cup Log!Numbers(t, p)
  <2> TAKE x \in Log!Numbers(s \o t, p)
  <2>1. PICK k \in DOMAIN (s \o t) : (s \o t)[k][1] = p /\ x = (s \o t)[k][2]
    BY DEF Log!Numbers
  <2>2. CASE k <= Len(s)
    <3>1. k \in DOMAIN s /\ s[k][1] = p /\ x = s[k][2]
      BY <2>1, <2>2, Concatenated
    <3> QED
      BY <3>1 DEF Log!Numbers
  <2>3. CASE k > Len(s)
    <3>1. k - Len(s) \in 1 .. Len(t) /\ Len(s) + (k - Len(s)) = k
      BY <2>1, <2>3, Concatenated
    <3>2. k - Len(s) \in DOMAIN t /\ t[k - Len(s)][1] = p /\ x = t[k - Len(s)][2]
      BY <2>1, <3>1, Concatenated
    <3> QED
      BY <3>2 DEF Log!Numbers
  <2> QED
    BY <2>1, <2>2, <2>3, Concatenated
<1>2. Log!Numbers(s, p) \subseteq Log!Numbers(s \o t, p)
  <2>1. \A k \in DOMAIN s : k \in DOMAIN (s \o t) /\ (s \o t)[k] = s[k]
    BY Concatenated
  <2> QED
    BY <2>1 DEF Log!Numbers
<1>3. Log!Numbers(t, p) \subseteq Log!Numbers(s \o t, p)
  <2>1. \A k \in DOMAIN t : Len(s) + k \in DOMAIN (s \o t)
                            /\ (s \o t)[Len(s) + k] = t[k]
    BY Concatenated
  <2> SUFFICES ASSUME NEW x \in Log!Numbers(t, p) PROVE x \in Log!Numbers(s \o t, p)
    OBVIOUS
  <2>2. PICK k \in DOMAIN t : t[k][1] = p /\ x = t[k][2]
    BY DEF Log!Numbers
  <2>3. Len(s) + k \in DOMAIN (s \o t) /\ (s \o t)[Len(s) + k][1] = p
        /\ x = (s \o t)[Len(s) + k][2]
    BY <2>1, <2>2
  <2> QED
    BY <2>3 DEF Log!Numbers
<1>4. Log!Numbers(s, p) \subseteq Nat /\ Log!Numbers(t, p) \subseteq Nat
  BY Concatenated DEF Log!Numbers
<1> QED
  BY <1>1, <1>2, <1>3, <1>4

LEMMA RisingJoined ==
  ASSUME NEW s \in Seq(Lines), NEW t \in Seq(Lines), NEW p
  PROVE  Log!Rising(s \o t, p) <=>
           /\ Log!Rising(s, p) /\ Log!Rising(t, p)
           /\ \A i \in Log!Numbers(s, p), k \in Log!Numbers(t, p) : i < k
<1>1. ASSUME Log!Rising(s \o t, p) PROVE Log!Rising(s, p)
  <2>1. \A k \in DOMAIN s : k \in DOMAIN (s \o t) /\ (s \o t)[k] = s[k]
    BY Concatenated
  <2> QED
    BY <1>1, <2>1 DEF Log!Rising
<1>2. ASSUME Log!Rising(s \o t, p) PROVE Log!Rising(t, p)
  <2> SUFFICES ASSUME NEW k \in DOMAIN t, NEW l \in DOMAIN t, k < l,
                      t[k][1] = p, t[l][1] = p
               PROVE  t[k][2] < t[l][2]
    BY DEF Log!Rising
  <2>1. /\ Len(s) + k \in DOMAIN (s \o t) /\ Len(s) + l \in DOMAIN (s \o t)
        /\ (s \o t)[Len(s) + k] = t[k] /\ (s \o t)[Len(s) + l] = t[l]
        /\ Len(s) + k < Len(s) + l
    BY Concatenated
  <2> QED
    BY <1>2, <2>1 DEF Log!Rising
<1>3. ASSUME Log!Rising(s \o t, p), NEW i \in Log!Numbers(s, p),
             NEW k \in Log!Numbers(t, p)
      PROVE  i < k
  <2>1. PICK a \in DOMAIN s : s[a][1] = p /\ i = s[a][2]
    BY DEF Log!Numbers
  <2>2. PICK b \in DOMAIN t : t[b][1] = p /\ k = t[b][2]
    BY DEF Log!Numbers
  <2>3. /\ a \in DOMAIN (s \o t) /\ Len(s) + b \in DOMAIN (s \o t)
        /\ (s \o t)[a] = s[a] /\ (s \o t)[Len(s) + b] = t[b]
        /\ a < Len(s) + b
    BY Concatenated
  <2> QED
    BY <1>3, <2>1, <2>2, <2>3 DEF Log!Rising
<1>4. ASSUME Log!Rising(s, p), Log!Rising(t, p),
             \A i \in Log!Numbers(s, p), k \in Log!Numbers(t, p) : i < k
      PROVE  Log!Rising(s \o t, p)
  <2> SUFFICES ASSUME NEW a \in DOMAIN (s \o t), NEW b \in DOMAIN (s \o t), a < b,
                      (s \o t)[a][1] = p, (s \o t)[b][1] = p
               PROVE  (s \o t)[a][2] < (s \o t)[b][2]
    BY DEF Log!Rising
  <2>1. CASE b <= Len(s)
    <3>1. /\ a \in DOMAIN s /\ b \in DOMAIN s
          /\ (s \o t)[a] = s[a] /\ (s \o t)[b] = s[b]
      BY <2>1, Concatenated
    <3> QED
      BY <1>4, <3>1 DEF Log!Rising
  <2>2. CASE b > Len(s)
    <3>1. b - Len(s) \in 1 .. Len(t) /\ Len(s) + (b - Len(s)) = b
      BY <2>2, Concatenated
    <3>2. b - Len(s) \in DOMAIN t /\ (s \o t)[b] = t[b - Len(s)]
      BY <3>1, Concatenated
    <3>3. CASE a <= Len(s)
      <4>1. a \in DOMAIN s /\ (s \o t)[a] = s[a]
        BY <3>3, Concatenated
      <4>2. /\ (s \o t)[a][2] \in Log!Numbers(s, p)
            /\ (s \o t)[b][2] \in Log!Numbers(t, p)
        BY <3>2, <4>1 DEF Log!Numbers
      <4> QED
        BY <1>4, <4>2
    <3>4. CASE a > Len(s)
      <4>1. a - Len(s) \in 1 .. Len(t) /\ Len(s) + (a - Len(s)) = a
            /\ a - Len(s) < b - Len(s)
        <5>1. /\ a \in 1 .. Len(s) + Len(t) /\ b \in 1 .. Len(s) + Len(t)
              /\ Len(s) \in Nat /\ Len(t) \in Nat
          BY Concatenated
        <5>2. a - Len(s) >= 1 /\ a - Len(s) <= Len(t)
          BY <3>4, <5>1
        <5>3. a - Len(s) \in Int /\ a - Len(s) < b - Len(s)
              /\ Len(s) + (a - Len(s)) = a
          BY <5>1
        <5> QED
          BY <5>1, <5>2, <5>3
      <4>2. a - Len(s) \in DOMAIN t /\ (s \o t)[a] = t[a - Len(s)]
        BY <4>1, Concatenated
      <4> QED
        BY <1>4, <3>2, <4>1, <4>2 DEF Log!Rising
    <3> QED
      BY <3>3, <3>4, Concatenated
  <2> QED
    BY <2>1, <2>2, Concatenated
<1> QED
  BY <1>1, <1>2, <1>3, <1>4

LEMMA HeldJoined ==
  ASSUME NEW s \in Seq(Lines), NEW t \in Seq(Lines), NEW p,
         NEW lo \in Nat, NEW mid \in Nat, NEW hi \in Nat,
         Holds(s, p, lo, mid), Holds(t, p, mid, hi)
  PROVE  Holds(s \o t, p, lo, hi)
<1>1. /\ lo <= mid /\ mid <= hi
      /\ Log!Numbers(s, p) = (lo + 1) .. mid
      /\ Log!Numbers(t, p) = (mid + 1) .. hi
      /\ Log!Rising(s, p) /\ Log!Rising(t, p)
  BY DEF Holds
<1>2. Log!Numbers(s \o t, p) = (lo + 1) .. hi
  <2>1. ((lo + 1) .. mid) \cup ((mid + 1) .. hi) = (lo + 1) .. hi
    BY <1>1
  <2>2. Log!Numbers(s \o t, p) = Log!Numbers(s, p) \cup Log!Numbers(t, p)
    BY NumbersJoined
  <2> QED
    BY <1>1, <2>1, <2>2
<1>3. Log!Rising(s \o t, p)
  BY <1>1, RisingJoined
<1> QED
  BY <1>1, <1>2, <1>3 DEF Holds

LEMMA HeldParted ==
  ASSUME NEW s \in Seq(Lines), NEW t \in Seq(Lines), NEW p,
         NEW lo \in Nat, NEW hi \in Nat, Holds(s \o t, p, lo, hi)
  PROVE  \E mid \in Nat : Holds(s, p, lo, mid) /\ Holds(t, p, mid, hi)
<1> DEFINE S == Log!Numbers(s, p)
           T == Log!Numbers(t, p)
<1>1. /\ lo <= hi /\ S \cup T = (lo + 1) .. hi
      /\ Log!Rising(s, p) /\ Log!Rising(t, p)
      /\ \A i \in S, k \in T : i < k
      /\ S \subseteq Nat /\ T \subseteq Nat
  BY NumbersJoined, RisingJoined DEF Holds
<1> SUFFICES \E mid \in Nat : /\ lo <= mid /\ mid <= hi
                              /\ S = (lo + 1) .. mid /\ T = (mid + 1) .. hi
  BY <1>1 DEF Holds
<1> HIDE DEF S, T
<1>2. CASE T = {}
  BY <1>1, <1>2
<1>3. CASE T # {}
  <2>1. PICK m \in T : \A y \in T : m <= y
    BY <1>1, <1>3, LeastOfNats
  <2>2. m \in Nat /\ m - 1 \in Nat /\ lo <= m - 1 /\ m - 1 <= hi
    BY <1>1, <2>1
  <2>3. T = m .. hi
    <3>1. \A x \in T : x \in m .. hi
      BY <1>1, <2>1, <2>2
    <3>2. \A x \in m .. hi : x \in T
      <4> TAKE x \in m .. hi
      <4>1. x \in S \/ x \in T
        BY <1>1, <2>2
      <4>2. x \notin S
        BY <1>1, <2>1, <2>2
      <4> QED
        BY <4>1, <4>2
    <3> QED
      BY <3>1, <3>2
  <2>4. S = (lo + 1) .. (m - 1)
    <3>1. \A x \in S : x \in (lo + 1) .. (m - 1)
      BY <1>1, <2>1, <2>2
    <3>2. \A x \in (lo + 1) .. (m - 1) : x \in S
      <4> TAKE x \in (lo + 1) .. (m - 1)
      <4>1. x \in S \/ x \in T
        BY <1>1, <2>2
      <4>2. x \notin T
        BY <2>2, <2>3
      <4> QED
        BY <4>1, <4>2
    <3> QED
      BY <3>1, <3>2
  <2>5. (m - 1) + 1 = m
    BY <2>2
  <2> QED
    BY <2>2, <2>3, <2>4, <2>5
<1> QED
  BY <1>2, <1>3

(* One line more. *)
LEMMA HeldAppended ==
  ASSUME NEW s \in Seq(Lines), NEW line \in Lines, NEW p,
         NEW lo \in Nat, NEW mid \in Nat, NEW hi \in Nat,
         Holds(s, p, lo, mid), Holds(<<line>>, p, mid, hi)
  PROVE  Holds(Append(s, line), p, lo, hi)
<1>1. <<line>> \in Seq(Lines) /\ s \o <<line>> = Append(s, line)
  OBVIOUS
<1> QED
  BY <1>1, HeldJoined

-----------------------------------------------------------------------------
(* The buffers of a queue hold, one after the other, the lines of p from   *)
(* lo + 1 to hi: q tells how far each has got.                             *)
Cuts(Q, C, p, lo, hi, q) ==
  /\ q \in [0 .. Len(Q) -> Nat]
  /\ q[0] = lo /\ q[Len(Q)] = hi
  /\ \A i \in 1 .. Len(Q) : Holds(C[Q[i]], p, q[i - 1], q[i])

QueueHolds(Q, C, p, lo, hi) == \E q : Cuts(Q, C, p, lo, hi, q)

LEMMA EmptyQueueHolds ==
  ASSUME NEW C, NEW p, NEW lo \in Nat PROVE QueueHolds(<<>>, C, p, lo, lo)
<1>1. Cuts(<<>>, C, p, lo, lo, [i \in 0 .. 0 |-> lo])
  BY DEF Cuts
<1> QED
  BY <1>1 DEF QueueHolds

LEMMA QueuePushed ==
  ASSUME NEW Q \in Seq(Buffers), NEW b \in Buffers, NEW C, NEW p,
         NEW lo \in Nat, NEW mid \in Nat, NEW hi \in Nat,
         QueueHolds(Q, C, p, lo, mid), Holds(C[b], p, mid, hi)
  PROVE  QueueHolds(Append(Q, b), C, p, lo, hi)
<1>1. PICK q : Cuts(Q, C, p, lo, mid, q)
  BY DEF QueueHolds
<1>2. /\ Len(Q) \in Nat /\ Len(Append(Q, b)) = Len(Q) + 1
      /\ \A i \in 1 .. Len(Q) : Append(Q, b)[i] = Q[i]
      /\ Append(Q, b)[Len(Q) + 1] = b
  BY AppendProperties, LenProperties
<1> DEFINE r == [i \in 0 .. Len(Q) + 1 |-> IF i = Len(Q) + 1 THEN hi ELSE q[i]]
<1>3. /\ r \in [0 .. Len(Q) + 1 -> Nat]
      /\ \A i \in 0 .. Len(Q) : r[i] = q[i]
      /\ r[Len(Q) + 1] = hi /\ r[0] = lo /\ r[Len(Q)] = mid
  BY <1>1, <1>2 DEF Cuts
<1> HIDE DEF r
<1>4. \A i \in 1 .. Len(Q) + 1 : Holds(C[Append(Q, b)[i]], p, r[i - 1], r[i])
  <2> TAKE i \in 1 .. Len(Q) + 1
  <2>1. CASE i = Len(Q) + 1
    <3>1. i - 1 = Len(Q)
      BY <1>2, <2>1
    <3> QED
      BY <1>2, <1>3, <2>1, <3>1
  <2>2. CASE i # Len(Q) + 1
    <3>1. i \in 1 .. Len(Q) /\ i - 1 \in 0 .. Len(Q) /\ i \in 0 .. Len(Q)
      BY <1>2, <2>2
    <3> QED
      BY <1>1, <1>2, <1>3, <3>1 DEF Cuts
  <2> QED
    BY <2>1, <2>2
<1>5. Cuts(Append(Q, b), C, p, lo, hi, r)
  BY <1>2, <1>3, <1>4 DEF Cuts
<1> QED
  BY <1>5 DEF QueueHolds

LEMMA QueuePopped ==
  ASSUME NEW Q \in Seq(Buffers), Q # <<>>, NEW C, NEW p,
         NEW lo \in Nat, NEW hi \in Nat, QueueHolds(Q, C, p, lo, hi)
  PROVE  \E mid \in Nat : /\ Holds(C[Head(Q)], p, lo, mid)
                          /\ QueueHolds(Tail(Q), C, p, mid, hi)
<1>1. PICK q : Cuts(Q, C, p, lo, hi, q)
  BY DEF QueueHolds
<1>2. /\ Len(Q) \in Nat /\ Len(Q) > 0
      /\ Len(Tail(Q)) = Len(Q) - 1
      /\ \A i \in 1 .. Len(Q) - 1 : Tail(Q)[i] = Q[i + 1]
      /\ Head(Q) = Q[1]
  BY HeadTailProperties, LenProperties, EmptySeq
<1> DEFINE r == [i \in 0 .. Len(Q) - 1 |-> q[i + 1]]
<1>3. /\ r \in [0 .. Len(Q) - 1 -> Nat]
      /\ \A i \in 0 .. Len(Q) - 1 : r[i] = q[i + 1]
      /\ r[0] = q[1] /\ q[1] \in Nat /\ r[Len(Q) - 1] = hi
  <2>1. q \in [0 .. Len(Q) -> Nat] /\ q[Len(Q)] = hi
    BY <1>1 DEF Cuts
  <2>2. \A i \in 0 .. Len(Q) - 1 : i + 1 \in 0 .. Len(Q) /\ r[i] = q[i + 1]
    BY <1>2
  <2>3. r \in [0 .. Len(Q) - 1 -> Nat]
    BY <2>1, <2>2
  <2>4. /\ 0 \in 0 .. Len(Q) - 1 /\ Len(Q) - 1 \in 0 .. Len(Q) - 1
        /\ 0 + 1 = 1 /\ (Len(Q) - 1) + 1 = Len(Q)
    BY <1>2
  <2> QED
    BY <2>1, <2>2, <2>3, <2>4
<1> HIDE DEF r
<1>4. \A i \in 1 .. Len(Q) - 1 : Holds(C[Tail(Q)[i]], p, r[i - 1], r[i])
  <2> TAKE i \in 1 .. Len(Q) - 1
  <2>1. /\ i + 1 \in 1 .. Len(Q) /\ (i + 1) - 1 = i
        /\ i - 1 \in 0 .. Len(Q) - 1 /\ i \in 0 .. Len(Q) - 1 /\ (i - 1) + 1 = i
    BY <1>2
  <2>2. Holds(C[Q[i + 1]], p, q[i], q[i + 1])
    BY <1>1, <2>1 DEF Cuts
  <2> QED
    BY <1>2, <1>3, <2>1, <2>2
<1>5. Cuts(Tail(Q), C, p, q[1], hi, r)
  BY <1>2, <1>3, <1>4 DEF Cuts
<1>6. Holds(C[Head(Q)], p, lo, q[1])
  BY <1>1, <1>2 DEF Cuts
<1> QED
  BY <1>3, <1>5, <1>6 DEF QueueHolds

(* The cuts of a queue rise. *)
LEMMA QueueRises ==
  ASSUME NEW Q \in Seq(Buffers), NEW C, NEW p, NEW lo \in Nat, NEW hi \in Nat,
         QueueHolds(Q, C, p, lo, hi)
  PROVE  lo <= hi
<1>1. PICK q : Cuts(Q, C, p, lo, hi, q)
  BY DEF QueueHolds
<1> DEFINE T == {i \in 0 .. Len(Q) : ~(lo <= q[i])}
<1>2. Len(Q) \in Nat /\ q \in [0 .. Len(Q) -> Nat] /\ q[0] = lo /\ q[Len(Q)] = hi
  BY <1>1, LenProperties DEF Cuts
<1>3. T = {}
  <2> SUFFICES ASSUME T # {} PROVE FALSE
    OBVIOUS
  <2>1. PICK i \in T : \A x \in T : i <= x
    <3>1. T \in SUBSET Nat
      OBVIOUS
    <3> HIDE DEF T
    <3> QED
      BY <3>1, LeastOfNats
  <2>2. i # 0 /\ i \in 0 .. Len(Q)
    BY <1>2
  <2>3. i - 1 \in 0 .. Len(Q) /\ i \in 1 .. Len(Q) /\ i - 1 \notin T
    BY <1>2, <2>1, <2>2
  <2>4. q[i - 1] <= q[i]
    BY <1>1, <2>3 DEF Cuts, Holds
  <2> QED
    BY <1>2, <2>1, <2>2, <2>3, <2>4
<1> QED
  BY <1>2, <1>3

(* What other buffers hold does not matter. *)
LEMMA QueueUntouched ==
  ASSUME NEW Q \in Seq(Buffers), NEW C, NEW D, NEW p, NEW lo, NEW hi,
         \A b \in ToSet(Q) : D[b] = C[b], QueueHolds(Q, C, p, lo, hi)
  PROVE  QueueHolds(Q, D, p, lo, hi)
<1>1. PICK q : Cuts(Q, C, p, lo, hi, q)
  BY DEF QueueHolds
<1>2. \A i \in 1 .. Len(Q) : Q[i] \in ToSet(Q)
  BY LenProperties DEF ToSet
<1>3. Cuts(Q, D, p, lo, hi, q)
  BY <1>1, <1>2 DEF Cuts
<1> QED
  BY <1>3 DEF QueueHolds

-----------------------------------------------------------------------------
(* How far the lines of p have come: up to f they are in the file, up to l *)
(* refused, up to k with sinkBufBG, up to b in sinkBufQueue, up to g with  *)
(* RingBufBG, and the rest of those added in the ring.                     *)
Along(p, f, l, k, b, g) ==
  /\ Holds(file, p, 0, f)
  /\ Holds(lost, p, f, l)
  /\ Holds(Held(SinkOwns), p, l, k)
  /\ QueueHolds(sinkBufQueue, content, p, k, b)
  /\ Holds(Held(BgOwns), p, b, g)
  /\ Holds(NotCopied(p), p, g, added[p])

InOrder(p) == \E f, l, k, b, g \in Nat : Along(p, f, l, k, b, g)

OnlyBadLoses == good => lost = <<>>

Ordered == (\A p \in Producers : InOrder(p)) /\ OnlyBadLoses

OrderInv == CountInv /\ DInv /\ Ordered

LEMMA HeldBy ==
  /\ Held(SinkOwns) = IF sinkBuffer = NoBuffer THEN <<>> ELSE content[sinkBuffer]
  /\ Held(BgOwns) = IF bgBuffer = NoBuffer \/ bgpc = "take" THEN <<>>
                    ELSE content[bgBuffer]
<1>1. \A x : <<x>> # <<>> /\ <<x>>[1] = x
  OBVIOUS
<1> QED
  BY <1>1 DEF Held, SinkOwns, BgOwns

LEMMA RestTyped ==
  ASSUME NEW T, NEW s \in Seq(T), NEW a \in 1 .. Len(s) + 1
  PROVE  SubSeq(s, a, Len(s)) \in Seq(T)
<1>1. \A i \in a .. Len(s) : s[i] \in T
  BY LenProperties, ElementOfSeq
<1> QED
  BY <1>1, SubSeqProperties, LenProperties

(* The rest of a sequence from position a on. *)
LEMMA RestOf ==
  ASSUME NEW T, NEW s \in Seq(T), NEW a \in 1 .. Len(s) + 1
  PROVE  /\ SubSeq(s, a, Len(s)) \in Seq(T)
         /\ Len(SubSeq(s, a, Len(s))) = Len(s) - a + 1
         /\ \A i \in 1 .. Len(s) - a + 1 : SubSeq(s, a, Len(s))[i] = s[a + i - 1]
<1>1. Len(s) \in Nat /\ \A i \in a .. Len(s) : s[i] \in T
  BY LenProperties, ElementOfSeq
<1>2. \A i \in a .. Len(s) : i \in 1 .. Len(s)
  BY <1>1
<1>3. IF a <= Len(s) THEN Len(s) - a + 1 = Len(s) - a + 1 ELSE Len(s) - a + 1 = 0
  BY <1>1
<1> QED
  BY <1>1, <1>3, SubSeqProperties

LEMMA RestOfAppended ==
  ASSUME NEW T, NEW s \in Seq(T), NEW e \in T, NEW a \in 1 .. Len(s) + 1
  PROVE  SubSeq(Append(s, e), a, Len(Append(s, e))) = Append(SubSeq(s, a, Len(s)), e)
<1> DEFINE t == Append(s, e)
           m == Len(s)
           u == SubSeq(t, a, Len(t))
           v == SubSeq(s, a, m)
           w == Append(v, e)
           c == m - a + 1
<1>1. /\ m \in Nat /\ t \in Seq(T) /\ Len(t) = m + 1 /\ t[m + 1] = e
      /\ \A i \in 1 .. m : t[i] = s[i]
  BY LenProperties, AppendProperties
<1>2. a \in 1 .. Len(t) + 1 /\ c \in Nat /\ Len(t) - a + 1 = c + 1
      /\ a + (c + 1) - 1 = m + 1
  BY <1>1
<1> HIDE DEF t
<1>3. /\ u \in Seq(T) /\ Len(u) = c + 1
      /\ \A i \in 1 .. c + 1 : u[i] = t[a + i - 1]
  BY <1>1, <1>2, RestOf
<1>4. /\ v \in Seq(T) /\ Len(v) = c
      /\ \A i \in 1 .. c : v[i] = s[a + i - 1]
  BY RestOf
<1> HIDE DEF u, v
<1>5. /\ w \in Seq(T) /\ Len(w) = c + 1 /\ w[c + 1] = e
      /\ \A i \in 1 .. c : w[i] = v[i]
  <2>1. /\ w \in Seq(T) /\ Len(w) = Len(v) + 1 /\ w[Len(v) + 1] = e
        /\ \A i \in 1 .. Len(v) : w[i] = v[i]
    BY <1>4, AppendProperties
  <2> QED
    BY <1>4, <2>1
<1> HIDE DEF w
<1>6. \A i \in 1 .. c + 1 : u[i] = w[i]
  <2> TAKE i \in 1 .. c + 1
  <2>1. CASE i = c + 1
    BY <1>1, <1>2, <1>3, <1>5, <2>1
  <2>2. CASE i # c + 1
    <3>1. i \in 1 .. c /\ a + i - 1 \in 1 .. m
      BY <1>1, <1>2, <2>2
    <3> QED
      BY <1>1, <1>3, <1>4, <1>5, <3>1
  <2> QED
    BY <2>1, <2>2
<1>7. u = w
  BY <1>3, <1>5, <1>6, SeqEqual
<1> QED
  BY <1>7 DEF t, u, v, w

LEMMA FirstOfRest ==
  ASSUME NEW T, NEW s \in Seq(T), NEW a \in 1 .. Len(s)
  PROVE  SubSeq(s, a, Len(s)) = <<s[a]>> \o SubSeq(s, a + 1, Len(s))
<1> DEFINE m == Len(s)
           u == SubSeq(s, a, m)
           h == <<s[a]>>
           v == SubSeq(s, a + 1, m)
           w == h \o v
           c == m - a
<1>1. m \in Nat /\ s[a] \in T
  BY LenProperties, ElementOfSeq
<1>2. /\ a \in 1 .. m + 1 /\ a + 1 \in 1 .. m + 1 /\ c \in Nat
      /\ m - a + 1 = c + 1 /\ m - (a + 1) + 1 = c
  BY <1>1
<1>3. /\ u \in Seq(T) /\ Len(u) = c + 1
      /\ \A i \in 1 .. c + 1 : u[i] = s[a + i - 1]
  BY <1>2, RestOf
<1>4. /\ v \in Seq(T) /\ Len(v) = c
      /\ \A i \in 1 .. c : v[i] = s[(a + 1) + i - 1]
  BY <1>2, RestOf
<1>5. h \in Seq(T) /\ Len(h) = 1 /\ h[1] = s[a]
  BY <1>1
<1> HIDE DEF u, v, h
<1>6. /\ w \in Seq(T) /\ Len(w) = 1 + c
      /\ \A i \in 1 .. 1 + c : w[i] = IF i <= 1 THEN h[i] ELSE v[i - 1]
  <2>1. /\ w \in Seq(T) /\ Len(w) = Len(h) + Len(v)
        /\ \A i \in 1 .. Len(h) + Len(v) :
             w[i] = IF i <= Len(h) THEN h[i] ELSE v[i - Len(h)]
    BY <1>4, <1>5, ConcatProperties
  <2> QED
    BY <1>4, <1>5, <2>1
<1> HIDE DEF w
<1>7. \A i \in 1 .. c + 1 : u[i] = w[i]
  <2> TAKE i \in 1 .. c + 1
  <2>1. CASE i = 1
    <3>1. u[1] = s[a + 1 - 1] /\ a + 1 - 1 = a /\ w[1] = h[1]
      BY <1>2, <1>3, <1>6
    <3> QED
      BY <1>5, <2>1, <3>1
  <2>2. CASE i # 1
    <3>1. i - 1 \in 1 .. c /\ (a + 1) + (i - 1) - 1 = a + i - 1 /\ ~(i <= 1)
          /\ i \in 1 .. 1 + c
      BY <1>2, <2>2
    <3> QED
      BY <1>3, <1>4, <1>6, <3>1
  <2> QED
    BY <2>1, <2>2
<1>8. u = w
  <2>1. Len(u) = Len(w)
    BY <1>2, <1>3, <1>6
  <2> QED
    BY <1>3, <1>6, <1>7, <2>1, SeqEqual
<1> QED
  BY <1>8 DEF u, v, w, h

LEMMA PartsOf ==
  ASSUME NEW T, NEW s \in Seq(T)
  PROVE  /\ SubSeq(s, 1, Len(s)) = s
         /\ \A m \in 0 .. Len(s) : s = SubSeq(s, 1, m) \o SubSeq(s, m + 1, Len(s))
<1>1. SubSeq(s, 1, Len(s)) = s
  OBVIOUS
<1>2. ASSUME NEW m \in 0 .. Len(s)
      PROVE  s = SubSeq(s, 1, m) \o SubSeq(s, m + 1, Len(s))
  <2> DEFINE a == SubSeq(s, 1, m)
             b == SubSeq(s, m + 1, Len(s))
  <2>1. Len(s) \in Nat /\ \A i \in 1 .. Len(s) : s[i] \in T
    BY LenProperties, ElementOfSeq
  <2>2. a \in Seq(T) /\ Len(a) = m /\ \A i \in 1 .. m : a[i] = s[i]
    BY <2>1, SubSeqProperties
  <2>3. /\ b \in Seq(T) /\ Len(b) = Len(s) - m
        /\ \A i \in 1 .. Len(s) - m : b[i] = s[m + i]
    BY <2>1
  <2> HIDE DEF a, b
  <2>4. /\ a \o b \in Seq(T) /\ Len(a \o b) = Len(s)
        /\ \A i \in 1 .. Len(s) :
             (a \o b)[i] = IF i <= m THEN a[i] ELSE b[i - m]
    <3>1. /\ a \o b \in Seq(T) /\ Len(a \o b) = Len(a) + Len(b)
          /\ \A i \in 1 .. Len(a) + Len(b) :
               (a \o b)[i] = IF i <= Len(a) THEN a[i] ELSE b[i - Len(a)]
      BY <2>2, <2>3, ConcatProperties
    <3>2. Len(a) + Len(b) = Len(s)
      BY <2>1, <2>2, <2>3
    <3> QED
      BY <2>2, <3>1, <3>2
  <2>5. \A i \in 1 .. Len(s) : (a \o b)[i] = s[i]
    <3> TAKE i \in 1 .. Len(s)
    <3>1. CASE i <= m
      BY <2>1, <2>2, <2>4, <3>1
    <3>2. CASE i > m
      <4>1. i - m \in 1 .. Len(s) - m /\ m + (i - m) = i /\ ~(i <= m)
        BY <2>1, <3>2
      <4> QED
        BY <2>3, <2>4, <4>1
    <3>3. i <= m \/ i > m
      BY <2>1
    <3> QED
      BY <3>1, <3>2, <3>3
  <2>6. s = a \o b
    BY <2>4, <2>5, SeqEqual
  <2> QED
    BY <2>6 DEF a, b
<1> QED
  BY <1>1, <1>2

LEMMA HeldAreLines ==
  ASSUME CountInv, NEW p \in Producers
  PROVE  /\ Held(SinkOwns) \in Seq(Lines) /\ Held(BgOwns) \in Seq(Lines)
         /\ NotCopied(p) \in Seq(Lines) /\ NotCopied(p) \in Seq({p} \X (1 .. AddNum))
         /\ added[p] \in Nat
<1>1. ring[p] \in Seq(Lines) /\ ring[p] \in Seq({p} \X (1 .. AddNum))
      /\ added[p] \in Nat /\ Len(ring[p]) \in Nat
  BY LenProperties DEF CountInv, TInv, Types, Rings
<1>2. <<>> \in Seq(Lines)
  OBVIOUS
<1>3. Held(SinkOwns) \in Seq(Lines) /\ Held(BgOwns) \in Seq(Lines)
  BY <1>2, HeldBy DEF CountInv, TInv, Types
<1>4. ASSUME bgpc \in {"walk", "push", "take"}, index = p
      PROVE  n - count + 1 \in 1 .. Len(ring[p]) + 1
  <2>1. bgpc = "walk" \/ count > 0
    BY <1>4, Constants DEF CountInv, TInv, Types, RoundOver
  <2>2. n <= Len(ring[p])
    BY <1>4, <2>1 DEF CountInv, TInv, Walk
  <2> QED
    BY <1>1, <2>2 DEF CountInv, TInv, Types
<1>5. NotCopied(p) \in Seq(Lines) /\ NotCopied(p) \in Seq({p} \X (1 .. AddNum))
  BY <1>1, <1>4, RestTyped DEF NotCopied
<1> QED
  BY <1>1, <1>3, <1>5

(* A step that moves no line. *)
LEMMA Unmoved ==
  ASSUME Ordered, TInv,
         UNCHANGED <<file, lost, good, added, sinkBufQueue>>,
         \A b \in ToSet(sinkBufQueue) : content'[b] = content[b],
         Held(SinkOwns)' = Held(SinkOwns), Held(BgOwns)' = Held(BgOwns),
         \A p \in Producers : NotCopied(p)' = NotCopied(p)
  PROVE  Ordered'
<1>1. ASSUME NEW p \in Producers PROVE InOrder(p)'
  <2>1. PICK f, l, k, b, g \in Nat : Along(p, f, l, k, b, g)
    BY DEF Ordered, InOrder
  <2>2. QueueHolds(sinkBufQueue', content', p, k, b)
    BY <2>1, QueueUntouched DEF Along, TInv, Types
  <2>3. Along(p, f, l, k, b, g)'
    BY <2>1, <2>2 DEF Along
  <2> QED
    BY <2>3 DEF InOrder
<1> QED
  BY <1>1 DEF Ordered, OnlyBadLoses

LEMMA OrderedInitially == Init => Ordered
<1> SUFFICES ASSUME Init PROVE Ordered
  OBVIOUS
<1>1. ASSUME NEW p \in Producers PROVE Along(p, 0, 0, 0, 0, 0)
  <2>1. /\ file = <<>> /\ lost = <<>> /\ sinkBufQueue = <<>> /\ added[p] = 0
        /\ NotCopied(p) = <<>> /\ Held(SinkOwns) = <<>> /\ Held(BgOwns) = <<>>
    BY HeldBy DEF Init, NotCopied
  <2>2. Holds(<<>>, p, 0, 0) /\ QueueHolds(<<>>, content, p, 0, 0)
    BY NoneHeld, EmptyQueueHolds
  <2> QED
    BY <2>1, <2>2 DEF Along
<1> QED
  BY <1>1 DEF Init, Ordered, InOrder, OnlyBadLoses

(* A line added is the last of its producer. *)
LEMMA AddOrdered ==
  ASSUME OrderInv, NEW p \in Producers, add(p) PROVE Ordered'
<1> USE DEF OrderInv
<1>1. /\ UNCHANGED <<bgVars, sinkVars, sharedVars>>
      /\ added' = [added EXCEPT ![p] = @ + 1]
      /\ ring' = [ring EXCEPT ![p] = Append(@, <<p, added[p] + 1>>)]
      /\ ring \in [Producers -> Seq(Lines)] /\ added \in [Producers -> 0 .. AddNum]
      /\ <<p, added[p] + 1>> \in Lines
  <2>1. /\ UNCHANGED <<bgVars, sinkVars, sharedVars>> /\ added[p] < AddNum
        /\ added' = [added EXCEPT ![p] = @ + 1]
        /\ ring' = [ring EXCEPT ![p] = Append(@, <<p, added[p] + 1>>)]
    BY DEF add
  <2>2. ring \in [Producers -> Seq(Lines)] /\ added \in [Producers -> 0 .. AddNum]
    BY DEF CountInv, TInv, Types
  <2>3. added[p] + 1 \in 1 .. AddNum
    BY <2>1, <2>2
  <2>4. <<p, added[p] + 1>> \in Lines
    BY <2>3 DEF Lines
  <2> QED
    BY <2>1, <2>2, <2>4
<1>2. UNCHANGED <<Held(SinkOwns), Held(BgOwns)>>
  BY <1>1 DEF Held, SinkOwns, BgOwns, bgVars, sinkVars, sharedVars
<1>3. \A q \in Producers : q # p => added'[q] = added[q] /\ NotCopied(q)' = NotCopied(q)
  BY <1>1 DEF NotCopied, bgVars
<1> DEFINE line == <<p, added[p] + 1>>
<1>4. NotCopied(p)' = Append(NotCopied(p), line) /\ added'[p] = added[p] + 1
  <2>1. ring'[p] = Append(ring[p], line) /\ added'[p] = added[p] + 1
    BY <1>1
  <2>2. CASE bgpc \in {"walk", "push", "take"} /\ index = p
    <3>1. bgpc = "walk" \/ count > 0
      BY <2>2, Constants DEF CountInv, TInv, Types, RoundOver
    <3>2. n <= Len(ring[p])
      BY <2>2, <3>1 DEF CountInv, TInv, Walk
    <3>3. n - count + 1 \in 1 .. Len(ring[p]) + 1
      BY <3>2, LenProperties DEF CountInv, TInv, Types
    <3>4. SubSeq(Append(ring[p], line), n - count + 1, Len(Append(ring[p], line)))
            = Append(SubSeq(ring[p], n - count + 1, Len(ring[p])), line)
      <4>1. ring[p] \in Seq(Lines) /\ line \in Lines
        BY <1>1
      <4> HIDE DEF line
      <4> QED
        BY <3>3, <4>1, RestOfAppended
    <3> QED
      BY <1>1, <2>1, <2>2, <3>4 DEF NotCopied, bgVars
  <2>3. CASE ~(bgpc \in {"walk", "push", "take"} /\ index = p)
    BY <1>1, <2>1, <2>3 DEF NotCopied, bgVars
  <2> QED
    BY <2>1, <2>2, <2>3
<1>5. ASSUME NEW q \in Producers PROVE InOrder(q)'
  <2>1. PICK f, l, k, b, g \in Nat : Along(q, f, l, k, b, g)
    BY DEF Ordered, InOrder
  <2>2. UNCHANGED <<file, lost, sinkBufQueue, content>>
    BY <1>1 DEF sharedVars, outVars, streamVars
  <2>3. Holds(NotCopied(q)', q, g, added'[q])
    <3>1. CASE q = p
      <4>1. added[p] \in Nat /\ (added[p] + 1) - 1 = added[p] /\ added[p] + 1 \in Nat
            /\ line[1] = p /\ line[2] = added[p] + 1
        <5>1. added[p] \in Nat
          BY <1>1
        <5> QED
          BY <5>1
      <4>2. Holds(<<line>>, p, added[p], added[p] + 1)
        BY <1>1, <4>1, OneHeld
      <4>3. Holds(Append(NotCopied(p), line), p, g, added[p] + 1)
        BY <1>1, <2>1, <3>1, <4>1, <4>2, HeldAreLines, HeldAppended DEF Along
      <4> QED
        BY <1>4, <3>1, <4>3
    <3>2. CASE q # p
      BY <1>3, <2>1, <3>2 DEF Along
    <3> QED
      BY <3>1, <3>2
  <2>4. Along(q, f, l, k, b, g)'
    BY <1>2, <2>1, <2>2, <2>3 DEF Along
  <2> QED
    BY <2>4 DEF InOrder
<1> QED
  BY <1>1, <1>5 DEF Ordered, OnlyBadLoses, sharedVars, outVars, streamVars

(* RingBufBG's buffer takes the first line that is not copied. *)
LEMMA CopyOrdered == ASSUME OrderInv, CopyEntry PROVE Ordered'
<1> USE DEF OrderInv
<1>1. PICK p \in Producers : p = index
  BY DEF CopyEntry, CountInv, TInv, Walk
<1> DEFINE a == n - count + 1
           line == ring[p][a]
<1>2. /\ bgpc = "walk" /\ count > 0 /\ bgBuffer \in Buffers /\ bgBuffer # NoBuffer
      /\ content' = [content EXCEPT ![bgBuffer] = Append(@, line)]
      /\ content \in [Buffers -> Seq(Lines)]
      /\ count' = count - 1
      /\ UNCHANGED <<prodVars, bgpc, index, n, bgBuffer, sinkVars, sinkBufQueue, outVars>>
      /\ ring[p] \in Seq(Lines) /\ ring[p] \in Seq({p} \X (1 .. AddNum))
      /\ a \in 1 .. Len(ring[p]) /\ Len(ring[p]) \in Nat
      /\ n \in Nat /\ count \in Nat
  <2>1. /\ bgpc = "walk" /\ count > 0 /\ bgBuffer \in Buffers /\ bgBuffer # NoBuffer
        /\ content \in [Buffers -> Seq(Lines)]
        /\ n \in Nat /\ count \in 0 .. n /\ n <= Len(ring[p])
        /\ ring[p] \in Seq(Lines)
    BY <1>1, Constants DEF CopyEntry, CountInv, TInv, Types, Walk
  <2>2. /\ content' = [content EXCEPT ![bgBuffer] = Append(@, line)]
        /\ count' = count - 1
        /\ UNCHANGED <<prodVars, bgpc, index, n, bgBuffer, sinkVars, sinkBufQueue, outVars>>
    BY <1>1 DEF CopyEntry, AppendLine
  <2>3. ring[p] \in Seq({p} \X (1 .. AddNum))
    BY DEF CountInv, Rings
  <2>4. Len(ring[p]) \in Nat /\ a \in 1 .. Len(ring[p])
    BY <2>1, LenProperties
  <2> QED
    BY <2>1, <2>2, <2>3, <2>4
<1>3. line \in Lines /\ line[1] = p
  <2>1. line \in Lines /\ line \in {p} \X (1 .. AddNum)
    BY <1>2, ElementOfSeq
  <2> QED
    BY <2>1
<1>4. NotCopied(p) = <<line>> \o NotCopied(p)' /\ NotCopied(p)' \in Seq(Lines)
  <2>1. NotCopied(p) = SubSeq(ring[p], a, Len(ring[p]))
    BY <1>1, <1>2 DEF NotCopied
  <2>2. NotCopied(p)' = SubSeq(ring[p], a + 1, Len(ring[p]))
    <3>1. n - (count - 1) + 1 = a + 1
      BY <1>2
    <3> QED
      BY <1>1, <1>2, <3>1 DEF NotCopied, prodVars
  <2>3. SubSeq(ring[p], a + 1, Len(ring[p])) \in Seq(Lines)
    <3>1. \A i \in a + 1 .. Len(ring[p]) : ring[p][i] \in Lines
      BY <1>2, ElementOfSeq
    <3> QED
      BY <1>2, <3>1, SubSeqProperties
  <2>4. SubSeq(ring[p], a, Len(ring[p])) = <<ring[p][a]>> \o SubSeq(ring[p], a + 1, Len(ring[p]))
    BY <1>2, FirstOfRest
  <2> QED
    BY <2>1, <2>2, <2>3, <2>4
<1>5. Held(BgOwns) = content[bgBuffer] /\ Held(BgOwns)' = Append(Held(BgOwns), line)
      /\ Held(BgOwns) \in Seq(Lines)
  <2>1. Held(BgOwns) = content[bgBuffer]
    BY <1>2, HeldBy
  <2>2. Held(BgOwns)' = content'[bgBuffer]
    BY <1>2 DEF Held, BgOwns
  <2> QED
    BY <1>2, <2>1, <2>2
<1>6. /\ Held(SinkOwns)' = Held(SinkOwns)
      /\ \A b \in ToSet(sinkBufQueue) : content'[b] = content[b]
  <2>1. bgBuffer \notin ToSet(sinkBufQueue) /\ bgBuffer # sinkBuffer
    BY <1>2 DEF DInv, Owners, Disjoint, BgHas, SinkHas
  <2>2. \A b : b # bgBuffer => content'[b] = content[b]
    BY <1>2
  <2>3. sinkBuffer' = sinkBuffer
    BY <1>2 DEF sinkVars
  <2> QED
    BY <2>1, <2>2, <2>3 DEF Held, SinkOwns
<1> HIDE DEF a, line
<1>7. ASSUME NEW q \in Producers PROVE InOrder(q)'
  <2>1. PICK f, l, k, b, g \in Nat : Along(q, f, l, k, b, g)
    BY DEF Ordered, InOrder
  <2>2. QueueHolds(sinkBufQueue', content', q, k, b)
    BY <1>2, <1>6, <2>1, QueueUntouched DEF Along, CountInv, TInv, Types
  <2>3. UNCHANGED <<file, lost, added>>
    BY <1>2 DEF prodVars, outVars, streamVars
  <2>4. \E h \in Nat : /\ Holds(<<line>>, q, g, h)
                       /\ Holds(NotCopied(q)', q, h, added[q])
    <3>1. CASE q = p
      <4>1. Holds(<<line>> \o NotCopied(p)', p, g, added[p])
        BY <1>4, <2>1, <3>1 DEF Along
      <4>2. <<line>> \in Seq(Lines)
        BY <1>3
      <4>3. added[p] \in Nat
        BY HeldAreLines
      <4> QED
        BY <1>4, <3>1, <4>1, <4>2, <4>3, HeldParted
    <3>2. CASE q # p
      <4>1. Holds(<<line>>, q, g, g)
        BY <1>3, <3>2, OneHeld
      <4>2. NotCopied(q)' = NotCopied(q)
        BY <1>1, <1>2, <3>2 DEF NotCopied, prodVars
      <4> QED
        BY <2>1, <4>1, <4>2 DEF Along
    <3> QED
      BY <3>1, <3>2
  <2>5. PICK h \in Nat : /\ Holds(<<line>>, q, g, h)
                         /\ Holds(NotCopied(q)', q, h, added[q])
    BY <2>4
  <2>6. Holds(Held(BgOwns)', q, b, h)
    BY <1>3, <1>5, <2>1, <2>5, HeldAppended DEF Along
  <2>7. Along(q, f, l, k, b, h)'
    BY <1>6, <2>1, <2>2, <2>3, <2>5, <2>6 DEF Along
  <2> QED
    BY <2>7 DEF InOrder
<1> QED
  BY <1>2, <1>7 DEF Ordered, OnlyBadLoses, outVars, streamVars

(* RingBufBG goes on to another ring, to a round, or to a hand-over: what  *)
(* it has not copied yet is still that.                                    *)
LEMMA ScanOrdered ==
  ASSUME OrderInv,
         peek \/ BufferFull \/ consume \/ IdleRound \/ BusyRound \/ SignalExit
  PROVE  Ordered'
<1> USE DEF OrderInv
<1>1. /\ UNCHANGED <<added, bgBuffer, content, sinkBuffer, sinkBufQueue, file, lost, good>>
      /\ bgpc # "take" /\ bgpc' # "take"
  BY DEF peek, BufferFull, consume, IdleRound, BusyRound, SignalExit, Round,
         prodVars, sinkVars, sharedVars, outVars, streamVars
<1>2. Held(SinkOwns)' = Held(SinkOwns) /\ Held(BgOwns)' = Held(BgOwns)
  BY <1>1 DEF Held, SinkOwns, BgOwns
<1>3. ASSUME NEW p \in Producers PROVE NotCopied(p)' = NotCopied(p)
  <2>1. ring[p] \in Seq(Lines) /\ index \in 1 .. ThreadNum + 1 /\ p \in 1 .. ThreadNum
        /\ ring \in [Producers -> Seq(Lines)] /\ n \in Nat
    BY Constants DEF CountInv, TInv, Types
  <2>2. CASE peek
    <3>1. /\ bgpc = "scan" /\ ring' = ring /\ count' = n' /\ n' \in Nat
          /\ bgpc' = "scan" \/ (bgpc' = "walk" /\ index' = index)
      BY <2>1, <2>2, LenProperties DEF peek, prodVars, CountInv, TInv, Types
    <3>2. n' - count' + 1 = 1
      <4>1. PICK m \in Int : m = n' /\ m = count'
        BY <3>1
      <4>2. m - m + 1 = 1
        OBVIOUS
      <4> QED
        BY <4>1, <4>2
    <3>3. SubSeq(ring[p], 1, Len(ring[p])) = ring[p]
      BY <2>1, PartsOf
    <3> QED
      BY <3>1, <3>2, <3>3 DEF NotCopied
  <2>3. CASE BufferFull
    BY <2>3 DEF BufferFull, NotCopied, prodVars
  <2>4. CASE consume
    <3>1. /\ bgpc = "walk" /\ count = 0 /\ bgpc' = "scan"
          /\ ring' = [ring EXCEPT ![index] = SubSeq(@, n + 1, Len(@))]
      BY <2>4 DEF consume, GivenBack
    <3>2. n - count + 1 = n + 1
      BY <2>1, <3>1
    <3> QED
      BY <2>1, <3>1, <3>2 DEF NotCopied
  <2>5. CASE IdleRound \/ BusyRound
    <3>1. /\ ring' = ring /\ bgpc = "scan" /\ index > ThreadNum
          /\ bgpc' \in {"scan", "sleep"} \/ (bgpc' = "push" /\ index' = index)
      BY <2>5 DEF IdleRound, BusyRound, Round, prodVars
    <3>2. index # p
      BY <2>1, <3>1
    <3> QED
      BY <3>1, <3>2 DEF NotCopied
  <2>6. CASE SignalExit
    BY <2>6 DEF SignalExit, NotCopied, prodVars
  <2> QED
    BY <2>2, <2>3, <2>4, <2>5, <2>6
<1> QED
  BY <1>1, <1>2, <1>3, Unmoved DEF CountInv

(* A buffer that RingBufBG gets is empty. *)
LEMMA GetOrdered ==
  ASSUME OrderInv, Start \/ TakeBuffer PROVE Ordered'
<1> USE DEF OrderInv
<1>1. UNCHANGED <<prodVars, n, count, sinkBuffer, sinkBufQueue, file, lost, good>>
  BY DEF Start, TakeBuffer, sinkVars, outVars, streamVars
<1>2. /\ bgBuffer' # NoBuffer /\ bgpc' # "take"
      /\ content'[bgBuffer'] = <<>>
      /\ \A b \in heap : content'[b] = content[b]
  <2>1. CASE cacheBufQueue # <<>> /\ bgBuffer' = Last(cacheBufQueue) /\ content' = content
    <3>1. bgBuffer' \in ToSet(cacheBufQueue) /\ bgBuffer' \in Buffers
      BY <2>1, LastTaken DEF CountInv, TInv, Types
    <3>2. content[bgBuffer'] = reset
      BY <3>1 DEF DInv, Due, EmptyWhereDue
    <3> QED
      BY <2>1, <3>1, <3>2, Constants DEF reset, Start, TakeBuffer, Resume, Round
  <2>2. CASE /\ TakeBuffer /\ heap # Buffers /\ bgBuffer' = Fresh
             /\ content' = [content EXCEPT ![Fresh] = reset]
    <3>1. Fresh \in Buffers /\ Fresh \notin heap
      BY <2>2, FreshIsNew DEF CountInv, TInv, Types
    <3> QED
      BY <2>2, <3>1, Constants DEF CountInv, TInv, Types, reset, TakeBuffer, Resume, Round
  <2> QED
    BY <2>1, <2>2 DEF Start, TakeBuffer, CountInv, TInv, Waits
<1>3. Held(BgOwns) = <<>> /\ Held(BgOwns)' = <<>>
  <2>1. bgBuffer = NoBuffer \/ bgpc = "take"
    BY DEF Start, TakeBuffer, CountInv, TInv, Types
  <2>2. Held(BgOwns)' = content'[bgBuffer']
    BY <1>2 DEF Held, BgOwns
  <2> QED
    BY <1>2, <2>1, <2>2, HeldBy
<1>4. /\ Held(SinkOwns)' = Held(SinkOwns)
      /\ \A b \in ToSet(sinkBufQueue) : content'[b] = content[b]
  <2>1. /\ ToSet(sinkBufQueue) \subseteq heap
        /\ sinkBuffer # NoBuffer => sinkBuffer \in heap
    BY DEF DInv, Owners, SinkHas
  <2>2. CASE sinkBuffer = NoBuffer
    BY <1>1, <1>2, <2>1, <2>2 DEF Held, SinkOwns
  <2>3. CASE sinkBuffer # NoBuffer
    <3>1. content'[sinkBuffer] = content[sinkBuffer] /\ sinkBuffer' = sinkBuffer
      BY <1>1, <1>2, <2>1, <2>3
    <3> QED
      BY <1>2, <2>1, <3>1 DEF Held, SinkOwns
  <2> QED
    BY <2>2, <2>3
<1>5. ASSUME NEW p \in Producers PROVE NotCopied(p)' = NotCopied(p)
  <2>1. ring' = ring /\ n' = n /\ count' = count
    BY <1>1 DEF prodVars
  <2>2. CASE Start
    BY <2>1, <2>2 DEF Start, Round, NotCopied
  <2>3. CASE TakeBuffer /\ count > 0
    BY <2>1, <2>3 DEF TakeBuffer, Resume, NotCopied
  <2>4. CASE TakeBuffer /\ count = 0
    <3>1. index # p /\ bgpc' \in {"scan", "sleep"}
      BY <2>4, Constants DEF TakeBuffer, Resume, Round, CountInv, RoundOver
    <3> QED
      BY <2>1, <3>1 DEF NotCopied
  <2> QED
    BY <2>2, <2>3, <2>4 DEF CountInv, TInv, Types
<1> QED
  BY <1>1, <1>3, <1>4, <1>5, Unmoved DEF CountInv, prodVars

(* The buffer handed over is the last of the queue. *)
LEMMA HandOverOrdered == ASSUME OrderInv, HandOver PROVE Ordered'
<1> USE DEF OrderInv
<1>1. /\ bgpc = "push" /\ bgpc' = "take" /\ bgBuffer \in Buffers
      /\ bgBuffer # NoBuffer
      /\ sinkBufQueue \in Seq(Buffers)
      /\ sinkBufQueue' = Append(sinkBufQueue, bgBuffer)
      /\ UNCHANGED <<prodVars, index, n, count, content, sinkBuffer, file, lost, good>>
  BY Constants DEF HandOver, CountInv, TInv, Types, sinkVars, outVars, streamVars
<1>2. /\ Held(BgOwns) = content[bgBuffer] /\ Held(BgOwns)' = <<>>
      /\ Held(SinkOwns)' = Held(SinkOwns)
  BY <1>1, HeldBy DEF Held, SinkOwns, BgOwns
<1>3. ASSUME NEW p \in Producers PROVE InOrder(p)'
  <2>1. PICK f, l, k, b, g \in Nat : Along(p, f, l, k, b, g)
    BY DEF Ordered, InOrder
  <2>2. QueueHolds(sinkBufQueue', content', p, k, g)
    BY <1>1, <1>2, <2>1, QueuePushed DEF Along
  <2>3. NotCopied(p)' = NotCopied(p) /\ added' = added
    BY <1>1 DEF NotCopied, prodVars
  <2>4. Holds(<<>>, p, g, g)
    BY NoneHeld
  <2>5. Along(p, f, l, k, g, g)'
    BY <1>1, <1>2, <2>1, <2>2, <2>3, <2>4 DEF Along
  <2> QED
    BY <2>5 DEF InOrder
<1> QED
  BY <1>1, <1>3 DEF Ordered, OnlyBadLoses

(* sinkBufBG gets the first. *)
LEMMA PopOrdered == ASSUME OrderInv, PopFront PROVE Ordered'
<1> USE DEF OrderInv
<1>1. /\ sinkBufQueue \in Seq(Buffers) /\ sinkBufQueue # <<>>
      /\ sinkBuffer' = Head(sinkBufQueue) /\ sinkBufQueue' = Tail(sinkBufQueue)
      /\ sinkBuffer' # NoBuffer /\ sinkBuffer = NoBuffer
      /\ UNCHANGED <<prodVars, bgVars, content, file, lost, good>>
  <2>1. sinkBufQueue \in Seq(Buffers) /\ sinkBufQueue # <<>>
    BY DEF PopFront, mutexSinkHeld, CountInv, TInv, Types, Waits
  <2>2. Head(sinkBufQueue) \in Buffers
    BY <2>1, HeadTaken
  <2> QED
    BY <2>1, <2>2, Constants
       DEF PopFront, CountInv, TInv, Types, outVars, streamVars
<1>2. /\ Held(SinkOwns) = <<>> /\ Held(SinkOwns)' = content[Head(sinkBufQueue)]
      /\ Held(BgOwns)' = Held(BgOwns)
  <2>1. Held(SinkOwns) = <<>>
    BY <1>1, HeldBy
  <2>2. Held(SinkOwns)' = content'[sinkBuffer']
    BY <1>1 DEF Held, SinkOwns
  <2> QED
    BY <1>1, <2>1, <2>2 DEF Held, BgOwns, bgVars
<1>3. ASSUME NEW p \in Producers PROVE InOrder(p)'
  <2>1. PICK f, l, k, b, g \in Nat : Along(p, f, l, k, b, g)
    BY DEF Ordered, InOrder
  <2>2. l = k
    BY <1>2, <2>1, NoneHeld DEF Along
  <2>3. PICK h \in Nat : /\ Holds(content[Head(sinkBufQueue)], p, k, h)
                         /\ QueueHolds(Tail(sinkBufQueue), content, p, h, b)
    BY <1>1, <2>1, QueuePopped DEF Along
  <2>4. NotCopied(p)' = NotCopied(p) /\ added' = added
    BY <1>1 DEF NotCopied, prodVars, bgVars
  <2>5. Along(p, f, l, h, b, g)'
    BY <1>1, <1>2, <2>1, <2>2, <2>3, <2>4 DEF Along
  <2> QED
    BY <2>5 DEF InOrder
<1> QED
  BY <1>1, <1>3 DEF Ordered, OnlyBadLoses

(* What is not taken follows what was, since nothing is after it. *)
LEMMA WriteOrdered == ASSUME OrderInv, WriteOut PROVE Ordered'
<1> USE DEF OrderInv
<1> DEFINE lines == content[sinkBuffer]
<1>1. /\ sinkBuffer \in Buffers /\ sinkBuffer # NoBuffer
      /\ content \in [Buffers -> Seq(Lines)] /\ lines \in Seq(Lines)
      /\ Write(lines)
      /\ content' = [content EXCEPT ![sinkBuffer] = reset]
      /\ UNCHANGED <<prodVars, bgVars, sinkBuffer, sinkBufQueue>>
  BY Constants DEF WriteOut, AfterWrite, CountInv, TInv, Types
<1>2. Held(SinkOwns) = lines /\ Held(SinkOwns)' = <<>>
  <2>1. Held(SinkOwns)' = content'[sinkBuffer]
    BY <1>1 DEF Held, SinkOwns
  <2> QED
    BY <1>1, <2>1, HeldBy DEF reset
<1>3. /\ Held(BgOwns)' = Held(BgOwns)
      /\ \A b \in ToSet(sinkBufQueue) : content'[b] = content[b]
  <2>1. /\ sinkBuffer \notin ToSet(sinkBufQueue)
        /\ bgBuffer = NoBuffer \/ bgpc = "take" \/ bgBuffer # sinkBuffer
    BY <1>1 DEF DInv, Owners, Disjoint, BgHas, SinkHas
  <2>2. \A b : b # sinkBuffer => content'[b] = content[b]
    BY <1>1
  <2>3. bgBuffer' = bgBuffer /\ bgpc' = bgpc
    BY <1>1 DEF bgVars
  <2>4. \A b \in ToSet(sinkBufQueue) : content'[b] = content[b]
    BY <2>1, <2>2
  <2>5. CASE bgBuffer = NoBuffer \/ bgpc = "take"
    BY <2>3, <2>4, <2>5 DEF Held, BgOwns
  <2>6. CASE bgBuffer # sinkBuffer
    <3>1. content'[bgBuffer] = content[bgBuffer]
      BY <2>2, <2>6
    <3> QED
      BY <2>3, <2>4, <3>1 DEF Held, BgOwns
  <2> QED
    BY <2>1, <2>5, <2>6
<1>4. PICK m \in 0 .. Len(lines) :
        /\ file' = file \o SubSeq(lines, 1, m)
        /\ lost' = lost \o SubSeq(lines, m + 1, Len(lines))
        /\ SubSeq(lines, 1, m) \in Seq(Lines)
        /\ SubSeq(lines, m + 1, Len(lines)) \in Seq(Lines)
        /\ ~good => m = 0 /\ ~good'
        /\ good /\ good' => m = Len(lines)
  BY <1>1, TakenOrLost DEF CountInv
<1> DEFINE s == SubSeq(lines, 1, m)
           t == SubSeq(lines, m + 1, Len(lines))
<1>5. /\ Len(lines) \in Nat /\ s \in Seq(Lines) /\ t \in Seq(Lines) /\ lines = s \o t
      /\ m = 0 => s = <<>>
      /\ m = Len(lines) => t = <<>>
      /\ file \in Seq(Lines) /\ lost \in Seq(Lines)
  <2>1. Len(lines) \in Nat
    BY <1>1, LenProperties
  <2>2. lines = s \o t
    BY <1>1, PartsOf
  <2>3. (m = 0 => s = <<>>) /\ (m = Len(lines) => t = <<>>)
    BY <1>1, <2>1
  <2> QED
    BY <1>4, <2>1, <2>2, <2>3 DEF CountInv, Streams
<1>6. s = <<>> \/ lost = <<>>
  BY <1>4, <1>5 DEF Ordered, OnlyBadLoses
<1> HIDE DEF lines, s, t
<1>7. ASSUME NEW p \in Producers PROVE InOrder(p)'
  <2>1. PICK f, l, k, b, g \in Nat : Along(p, f, l, k, b, g)
    BY DEF Ordered, InOrder
  <2>2. PICK h \in Nat : Holds(s, p, l, h) /\ Holds(t, p, h, k)
    BY <1>2, <1>5, <2>1, HeldParted DEF Along
  <2>3. \E x \in Nat : Holds(file', p, 0, x) /\ Holds(lost', p, x, k)
    <3>1. file' = file \o s /\ lost' = lost \o t
      BY <1>4 DEF s, t
    <3>2. Holds(file, p, 0, f) /\ Holds(lost, p, f, l)
      BY <2>1 DEF Along
    <3>3. CASE s = <<>>
      <4>1. l = h /\ file \o s = file
        BY <1>5, <2>2, <3>3, NoneHeld
      <4>2. Holds(lost \o t, p, f, k)
        BY <1>5, <2>2, <3>2, <4>1, HeldJoined
      <4> QED
        BY <3>1, <3>2, <4>1, <4>2
    <3>4. CASE lost = <<>>
      <4>1. f = l /\ lost \o t = t
        <5>1. Holds(<<>>, p, f, l)
          BY <3>2, <3>4
        <5>2. <<>> \o t = t
          BY <1>5
        <5> QED
          BY <2>1, <3>4, <5>1, <5>2, NoneHeld
      <4>2. Holds(file \o s, p, 0, h)
        BY <1>5, <2>2, <3>2, <4>1, HeldJoined
      <4> QED
        BY <2>2, <3>1, <4>1, <4>2
    <3> QED
      BY <1>6, <3>3, <3>4
  <2>4. PICK x \in Nat : Holds(file', p, 0, x) /\ Holds(lost', p, x, k)
    BY <2>3
  <2>5. QueueHolds(sinkBufQueue', content', p, k, b)
    BY <1>1, <1>3, <2>1, QueueUntouched DEF Along, CountInv, TInv, Types
  <2>6. NotCopied(p)' = NotCopied(p) /\ added' = added
    BY <1>1 DEF NotCopied, prodVars, bgVars
  <2>7. Holds(<<>>, p, k, k)
    BY NoneHeld
  <2>8. Along(p, x, k, k, b, g)'
    BY <1>2, <1>3, <2>1, <2>4, <2>5, <2>6, <2>7 DEF Along
  <2> QED
    BY <2>8 DEF InOrder
<1>8. OnlyBadLoses'
  <2> SUFFICES ASSUME good' PROVE lost' = <<>>
    BY DEF OnlyBadLoses
  <2>1. good /\ m = Len(lines)
    BY <1>4 DEF CountInv, Streams
  <2>2. t = <<>> /\ lost = <<>>
    BY <1>5, <2>1 DEF Ordered, OnlyBadLoses
  <2> QED
    BY <1>4, <2>2 DEF t
<1> QED
  BY <1>7, <1>8 DEF Ordered

(* sinkBufBG parts with an empty buffer, or only looks at something. *)
LEMMA PartOrdered ==
  ASSUME OrderInv,
         TestExit \/ Look \/ DeleteBuffer \/ KeepBuffer \/ GiveBack \/ UNCHANGED vars
  PROVE  Ordered'
<1> USE DEF OrderInv
<1>1. /\ UNCHANGED <<prodVars, bgVars, content, sinkBufQueue, file, lost, good>>
      /\ \/ sinkBuffer' = sinkBuffer
         \/ sinkpc \in {"recycle", "give"} /\ sinkBuffer' = NoBuffer
  BY DEF TestExit, Look, DeleteBuffer, KeepBuffer, GiveBack, vars, sinkVars,
         sharedVars, outVars, streamVars
<1>2. Held(BgOwns)' = Held(BgOwns) /\ \A p \in Producers : NotCopied(p)' = NotCopied(p)
  BY <1>1 DEF Held, BgOwns, NotCopied, prodVars, bgVars
<1>3. Held(SinkOwns)' = Held(SinkOwns)
  <2>1. CASE sinkBuffer' = sinkBuffer
    BY <1>1, <2>1 DEF Held, SinkOwns
  <2>2. CASE sinkpc \in {"recycle", "give"} /\ sinkBuffer' = NoBuffer
    <3>1. Held(SinkOwns) = <<>>
      BY <2>2, HeldBy DEF DInv, Due, reset
    <3>2. Held(SinkOwns)' = <<>>
      BY <2>2 DEF Held, SinkOwns
    <3> QED
      BY <3>1, <3>2
  <2> QED
    BY <1>1, <2>1, <2>2
<1> QED
  BY <1>1, <1>2, <1>3, Unmoved DEF CountInv, prodVars

LEMMA OrderStep == OrderInv /\ [Next]_vars => Ordered'
<1> SUFFICES ASSUME OrderInv, [Next]_vars PROVE Ordered'
  OBVIOUS
<1>1. ASSUME NEW p \in Producers, add(p) PROVE Ordered'
  BY <1>1, AddOrdered
<1>2. CASE RingBufBG
  BY <1>2, CopyOrdered, ScanOrdered, GetOrdered, HandOverOrdered DEF RingBufBG, Drain
<1>3. CASE sinkBufBG
  BY <1>3, PopOrdered, WriteOrdered, PartOrdered DEF sinkBufBG
<1>4. CASE UNCHANGED vars
  BY <1>4, PartOrdered
<1> QED
  BY <1>1, <1>2, <1>3, <1>4 DEF Next, Terminated

LEMMA OrderInvariant ==
  /\ Init => OrderInv
  /\ OrderInv /\ [Next]_vars => OrderInv'
<1>1. Init => OrderInv
  BY CountInitially, TypesInitially, OwnersInitially, DueInitially,
     OrderedInitially DEF OrderInv, DInv
<1>2. OrderInv /\ [Next]_vars => OrderInv'
  BY CountStep, TypesStep, OwnersStep, DueStep, OrderStep DEF OrderInv, DInv
<1> QED
  BY <1>1, <1>2

-----------------------------------------------------------------------------
(* From the cuts to what Conservation says of the stages.                  *)

(* Stages that each go from where the one before ends.                     *)
Chained(s, c, K, p) ==
  /\ c \in [0 .. K -> Nat] /\ c[0] = 0
  /\ \A a \in 1 .. K : Holds(s[a], p, c[a - 1], c[a])

LEMMA CutsRise ==
  ASSUME NEW K \in Nat, NEW s, NEW c, NEW p, Chained(s, c, K, p)
  PROVE  \A a, b \in 0 .. K : a <= b => c[a] <= c[b]
<1> DEFINE T == {b \in 0 .. K : \E a \in 0 .. b : ~(c[a] <= c[b])}
<1>1. \A a \in 0 .. K : c[a] \in Nat
  BY DEF Chained
<1>2. T = {}
  <2> SUFFICES ASSUME T # {} PROVE FALSE
    OBVIOUS
  <2>1. PICK b \in T : \A x \in T : b <= x
    <3>1. T \in SUBSET Nat
      OBVIOUS
    <3> HIDE DEF T
    <3> QED
      BY <3>1, LeastOfNats
  <2>2. PICK a \in 0 .. b : ~(c[a] <= c[b])
    OBVIOUS
  <2>3. b \in 0 .. K /\ a # b
    BY <1>1, <2>2
  <2>4. b - 1 \in 0 .. K /\ a \in 0 .. b - 1 /\ b \in 1 .. K
    BY <2>2, <2>3
  <2>5. b - 1 \notin T
    BY <2>1, <2>3
  <2>6. c[a] <= c[b - 1]
    BY <2>4, <2>5
  <2>7. c[b - 1] <= c[b]
    BY <2>4 DEF Chained, Holds
  <2> QED
    BY <1>1, <2>2, <2>3, <2>4, <2>6, <2>7
<1> QED
  BY <1>2

LEMMA CutsCover ==
  ASSUME NEW K \in Nat, NEW s, NEW c, NEW p, Chained(s, c, K, p),
         NEW i \in 1 .. c[K]
  PROVE  \E a \in 1 .. K : i \in (c[a - 1] + 1) .. c[a]
<1> DEFINE T == {a \in 0 .. K : i <= c[a]}
<1>1. \A a \in 0 .. K : c[a] \in Nat
  BY DEF Chained
<1>2. PICK a \in T : \A x \in T : a <= x
  <2>1. T \in SUBSET Nat /\ K \in T
    BY <1>1
  <2> HIDE DEF T
  <2> QED
    BY <2>1, LeastOfNats
<1>3. a # 0
  BY <1>1 DEF Chained
<1>4. a \in 1 .. K /\ a - 1 \in 0 .. K /\ a - 1 \notin T
  BY <1>2, <1>3
<1>5. i \in Nat /\ ~(i <= c[a - 1]) /\ i <= c[a] /\ c[a - 1] \in Nat /\ c[a] \in Nat
  BY <1>1, <1>4
<1>6. i \in (c[a - 1] + 1) .. c[a]
  BY <1>5
<1> QED
  BY <1>4, <1>6

LEMMA ChainedIsOrdered ==
  ASSUME NEW K \in Nat, NEW s, NEW c, NEW p, Chained(s, c, K, p)
  PROVE  /\ UNION {Log!Numbers(s[a], p) : a \in 1 .. K} = 1 .. c[K]
         /\ \A a, b \in 1 .. K :
              a < b => \A i \in Log!Numbers(s[a], p), k \in Log!Numbers(s[b], p) : i < k
         /\ \A a \in 1 .. K : Log!Rising(s[a], p)
<1>1. /\ \A a \in 0 .. K : c[a] \in Nat
      /\ \A a \in 1 .. K : /\ Log!Numbers(s[a], p) = (c[a - 1] + 1) .. c[a]
                           /\ Log!Rising(s[a], p)
  BY DEF Chained, Holds
<1>2. ASSUME NEW a \in 1 .. K, NEW b \in 1 .. K, a < b,
             NEW i \in Log!Numbers(s[a], p), NEW k \in Log!Numbers(s[b], p)
      PROVE  i < k
  <2>1. /\ a \in 0 .. K /\ b - 1 \in 0 .. K /\ a <= b - 1
        /\ a - 1 \in 0 .. K /\ b \in 0 .. K
    BY <1>2
  <2>2. c[a] <= c[b - 1]
    BY <2>1, CutsRise
  <2>3. i \in (c[a - 1] + 1) .. c[a] /\ k \in (c[b - 1] + 1) .. c[b]
    BY <1>1, <1>2
  <2>4. c[a - 1] \in Nat /\ c[a] \in Nat /\ c[b - 1] \in Nat /\ c[b] \in Nat
    BY <1>1, <2>1
  <2> QED
    BY <2>2, <2>3, <2>4
<1>3. ASSUME NEW a \in 1 .. K, NEW i \in Log!Numbers(s[a], p) PROVE i \in 1 .. c[K]
  <2>1. /\ a \in 0 .. K /\ a - 1 \in 0 .. K /\ K \in 0 .. K
        /\ i \in (c[a - 1] + 1) .. c[a]
    BY <1>1, <1>3
  <2>2. c[a] <= c[K]
    BY <2>1, CutsRise
  <2>3. c[a - 1] \in Nat /\ c[a] \in Nat /\ c[K] \in Nat
    BY <1>1, <2>1
  <2> QED
    BY <2>1, <2>2, <2>3
<1>4. ASSUME NEW i \in 1 .. c[K] PROVE \E a \in 1 .. K : i \in Log!Numbers(s[a], p)
  <2>1. PICK a \in 1 .. K : i \in (c[a - 1] + 1) .. c[a]
    BY <1>4, CutsCover
  <2> QED
    BY <1>1, <2>1
<1>5. UNION {Log!Numbers(s[a], p) : a \in 1 .. K} = 1 .. c[K]
  BY <1>3, <1>4
<1> QED
  BY <1>1, <1>2, <1>5

LEMMA StagesAre ==
  ASSUME TInv, CountInv, NEW p \in Producers
  PROVE  LET m == Len(sinkBufQueue)
             s == Stages(p)
         IN  /\ m \in Nat /\ DOMAIN s = 1 .. m + 5
             /\ s[1] = file /\ s[2] = lost /\ s[3] = Held(SinkOwns)
             /\ \A i \in 1 .. m : s[3 + i] = content[sinkBufQueue[i]]
             /\ s[m + 4] = Held(BgOwns) /\ s[m + 5] = NotCopied(p)
<1> DEFINE m == Len(sinkBufQueue)
           first == <<file, lost, Held(SinkOwns)>>
           queued == [i \in DOMAIN sinkBufQueue |-> content[sinkBufQueue[i]]]
           rest == <<Held(BgOwns), NotCopied(p)>>
           T == Seq(Lines)
<1>1. /\ m \in Nat /\ sinkBufQueue \in Seq(Buffers)
      /\ DOMAIN sinkBufQueue = 1 .. m
      /\ content \in [Buffers -> T]
      /\ {file, lost, Held(SinkOwns), Held(BgOwns), NotCopied(p)} \subseteq T
  BY LenProperties, HeldAreLines DEF TInv, Types, CountInv, Streams
<1>2. queued \in [1 .. m -> T] /\ \A i \in 1 .. m : queued[i] = content[sinkBufQueue[i]]
  <2>1. \A i \in 1 .. m : sinkBufQueue[i] \in Buffers
    BY <1>1, ElementOfSeq
  <2> QED
    BY <1>1, <2>1
<1> HIDE DEF queued
<1>3. queued \in Seq(T) /\ Len(queued) = m
  <2>1. queued \in UNION {[1 .. i -> T] : i \in Nat}
    BY <1>1, <1>2
  <2>2. queued \in Seq(T)
    BY <2>1, SeqDef
  <2>3. DOMAIN queued = 1 .. m /\ DOMAIN queued = 1 .. Len(queued) /\ Len(queued) \in Nat
    BY <1>2, <2>2, LenProperties
  <2>4. Len(queued) = m
    BY <1>1, <2>3
  <2> QED
    BY <2>2, <2>4
<1>4. /\ first \in Seq(T) /\ Len(first) = 3
      /\ first[1] = file /\ first[2] = lost /\ first[3] = Held(SinkOwns)
      /\ rest \in Seq(T) /\ Len(rest) = 2
      /\ rest[1] = Held(BgOwns) /\ rest[2] = NotCopied(p)
  BY <1>1
<1> HIDE DEF first, rest, T, m
<1>5. /\ first \o queued \in Seq(T) /\ Len(first \o queued) = 3 + m
      /\ \A i \in 1 .. 3 + m :
           (first \o queued)[i] = IF i <= 3 THEN first[i] ELSE queued[i - 3]
  <2>1. /\ first \o queued \in Seq(T) /\ Len(first \o queued) = Len(first) + Len(queued)
        /\ \A i \in 1 .. Len(first) + Len(queued) :
             (first \o queued)[i] =
                IF i <= Len(first) THEN first[i] ELSE queued[i - Len(first)]
    BY <1>3, <1>4, ConcatProperties
  <2> QED
    BY <1>3, <1>4, <2>1
<1> DEFINE front == first \o queued
<1> HIDE DEF front
<1>6. /\ front \o rest \in Seq(T) /\ Len(front \o rest) = 3 + m + 2
      /\ \A i \in 1 .. 3 + m + 2 :
           (front \o rest)[i] = IF i <= 3 + m THEN front[i] ELSE rest[i - (3 + m)]
  <2>1. front \in Seq(T) /\ Len(front) = 3 + m
    BY <1>5 DEF front
  <2>2. /\ front \o rest \in Seq(T) /\ Len(front \o rest) = Len(front) + Len(rest)
        /\ \A i \in 1 .. Len(front) + Len(rest) :
             (front \o rest)[i] =
                IF i <= Len(front) THEN front[i] ELSE rest[i - Len(front)]
    BY <1>4, <2>1, ConcatProperties
  <2> QED
    BY <1>4, <2>1, <2>2
<1>7. Stages(p) = front \o rest
  BY DEF Stages, front, first, queued, rest
<1>8. DOMAIN Stages(p) = 1 .. m + 5
  BY <1>1, <1>6, <1>7, LenProperties
<1>9. /\ Stages(p)[1] = file /\ Stages(p)[2] = lost /\ Stages(p)[3] = Held(SinkOwns)
  <2>1. \A i \in {1, 2, 3} :
           i \in 1 .. 3 + m + 2 /\ i <= 3 + m /\ i \in 1 .. 3 + m /\ i <= 3
    BY <1>1
  <2>2. \A i \in {1, 2, 3} : front[i] = first[i]
    BY <1>5, <2>1 DEF front
  <2>3. \A i \in {1, 2, 3} : Stages(p)[i] = front[i]
    BY <1>6, <1>7, <2>1
  <2> QED
    BY <1>4, <2>2, <2>3
<1>10. \A i \in 1 .. m : Stages(p)[3 + i] = content[sinkBufQueue[i]]
  <2> TAKE i \in 1 .. m
  <2>1. /\ 3 + i \in 1 .. 3 + m + 2 /\ 3 + i <= 3 + m /\ 3 + i \in 1 .. 3 + m
        /\ ~(3 + i <= 3) /\ (3 + i) - 3 = i
    BY <1>1
  <2> QED
    BY <1>2, <1>5, <1>6, <1>7, <2>1 DEF front
<1>11. Stages(p)[m + 4] = Held(BgOwns) /\ Stages(p)[m + 5] = NotCopied(p)
  <2>1. /\ m + 4 \in 1 .. 3 + m + 2 /\ ~(m + 4 <= 3 + m) /\ (m + 4) - (3 + m) = 1
        /\ m + 5 \in 1 .. 3 + m + 2 /\ ~(m + 5 <= 3 + m) /\ (m + 5) - (3 + m) = 2
    BY <1>1
  <2> QED
    BY <1>4, <1>6, <1>7, <2>1
<1> QED
  BY <1>1, <1>8, <1>9, <1>10, <1>11 DEF m

LEMMA StagesAreChained ==
  ASSUME OrderInv, NEW p \in Producers
  PROVE  \E c : Chained(Stages(p), c, Len(sinkBufQueue) + 5, p)
                /\ c[Len(sinkBufQueue) + 5] = added[p]
<1> DEFINE m == Len(sinkBufQueue)
           s == Stages(p)
<1>1. /\ m \in Nat
      /\ s[1] = file /\ s[2] = lost /\ s[3] = Held(SinkOwns)
      /\ \A i \in 1 .. m : s[3 + i] = content[sinkBufQueue[i]]
      /\ s[m + 4] = Held(BgOwns) /\ s[m + 5] = NotCopied(p)
  BY StagesAre DEF OrderInv, CountInv
<1>2. PICK f, l, k, b, g \in Nat : Along(p, f, l, k, b, g)
  BY DEF OrderInv, Ordered, InOrder
<1>3. PICK q : Cuts(sinkBufQueue, content, p, k, b, q)
  BY <1>2 DEF Along, QueueHolds
<1>4. added[p] \in Nat
  BY HeldAreLines DEF OrderInv
<1> HIDE DEF m, s
<1> DEFINE c == [a \in 0 .. m + 5 |->
                   CASE a = 0 -> 0 [] a = 1 -> f [] a = 2 -> l
                     [] a \in 3 .. m + 3 -> q[a - 3]
                     [] a = m + 4 -> g [] a = m + 5 -> added[p]]
<1>5. /\ q \in [0 .. m -> Nat] /\ q[0] = k /\ q[m] = b
      /\ \A i \in 1 .. m : Holds(content[sinkBufQueue[i]], p, q[i - 1], q[i])
  BY <1>3 DEF Cuts, m
<1>6. /\ c[0] = 0 /\ c[1] = f /\ c[2] = l /\ c[m + 4] = g /\ c[m + 5] = added[p]
      /\ \A a \in 3 .. m + 3 : c[a] = q[a - 3] /\ a - 3 \in 0 .. m
  <2>1. /\ 0 \in 0 .. m + 5 /\ 1 \in 0 .. m + 5 /\ 2 \in 0 .. m + 5
        /\ m + 4 \in 0 .. m + 5 /\ m + 5 \in 0 .. m + 5
        /\ {m + 4, m + 5} \cap ({0, 1, 2} \cup 3 .. m + 3) = {} /\ m + 4 # m + 5
        /\ {0, 1, 2} \cap 3 .. m + 3 = {}
        /\ \A a \in 3 .. m + 3 : a \in 0 .. m + 5 /\ a - 3 \in 0 .. m
    BY <1>1
  <2>2. c[0] = 0 /\ c[1] = f /\ c[2] = l
    BY <2>1
  <2>3. c[m + 4] = g
    BY <2>1
  <2>4. c[m + 5] = added[p]
    BY <2>1
  <2>5. \A a \in 3 .. m + 3 : c[a] = q[a - 3]
    BY <2>1
  <2> QED
    BY <2>1, <2>2, <2>3, <2>4, <2>5
<1>7. c \in [0 .. m + 5 -> Nat]
  <2>1. \A a \in 0 .. m + 5 : a \in {0, 1, 2, m + 4, m + 5} \/ a \in 3 .. m + 3
    BY <1>1
  <2>2. \A a \in 3 .. m + 3 : c[a] \in Nat
    <3> HIDE DEF c
    <3> QED
      BY <1>5, <1>6
  <2>3. \A a \in {0, 1, 2, m + 4, m + 5} : c[a] \in Nat
    <3> HIDE DEF c
    <3>1. c[0] \in Nat /\ c[1] \in Nat /\ c[2] \in Nat
      BY <1>6
    <3>2. c[m + 4] \in Nat /\ c[m + 5] \in Nat
      BY <1>4, <1>6
    <3> QED
      BY <3>1, <3>2
  <2>4. \A a \in 0 .. m + 5 : c[a] \in Nat
    BY <2>1, <2>2, <2>3
  <2> QED
    BY <2>4
<1> HIDE DEF c
<1>8. c[3] = k /\ c[m + 3] = b
  <2>1. /\ 3 \in 3 .. m + 3 /\ m + 3 \in 3 .. m + 3
        /\ 3 - 3 = 0 /\ (m + 3) - 3 = m
    BY <1>1
  <2> QED
    BY <1>5, <1>6, <2>1
<1>9. ASSUME NEW a \in 1 .. m + 5 PROVE Holds(s[a], p, c[a - 1], c[a])
  <2>1. CASE a = 1
    <3>1. a - 1 = 0
      BY <2>1
    <3> QED
      BY <1>1, <1>2, <1>6, <2>1, <3>1 DEF Along
  <2>2. CASE a = 2
    <3>1. a - 1 = 1
      BY <2>2
    <3> QED
      BY <1>1, <1>2, <1>6, <2>2, <3>1 DEF Along
  <2>3. CASE a = 3
    <3>1. a - 1 = 2
      BY <2>3
    <3> QED
      BY <1>1, <1>2, <1>6, <1>8, <2>3, <3>1 DEF Along
  <2>4. CASE a \in 4 .. m + 3
    <3>1. /\ a - 3 \in 1 .. m /\ 3 + (a - 3) = a /\ (a - 3) - 1 = (a - 1) - 3
          /\ a \in 3 .. m + 3 /\ a - 1 \in 3 .. m + 3
      BY <1>1, <2>4
    <3>2. s[a] = content[sinkBufQueue[a - 3]]
      BY <1>1, <3>1
    <3>3. c[a - 1] = q[(a - 3) - 1] /\ c[a] = q[a - 3]
      BY <1>6, <3>1
    <3> QED
      BY <1>5, <3>1, <3>2, <3>3
  <2>5. CASE a = m + 4
    <3>1. a - 1 = m + 3
      BY <1>1, <2>5
    <3> QED
      BY <1>1, <1>2, <1>6, <1>8, <2>5, <3>1 DEF Along
  <2>6. CASE a = m + 5
    <3>1. a - 1 = m + 4
      BY <1>1, <2>6
    <3> QED
      BY <1>1, <1>2, <1>6, <2>6, <3>1 DEF Along
  <2>7. a \in {1, 2, 3} \cup 4 .. m + 3 \cup {m + 4, m + 5}
    BY <1>1
  <2> QED
    BY <2>1, <2>2, <2>3, <2>4, <2>5, <2>6, <2>7
<1>10. Chained(s, c, m + 5, p)
  BY <1>6, <1>7, <1>9 DEF Chained
<1> QED
  BY <1>6, <1>10 DEF m, s

LEMMA OrderConserves == OrderInv => Conservation
<1> SUFFICES ASSUME OrderInv PROVE Conservation
  OBVIOUS
<1>1. ASSUME NEW p \in Producers
      PROVE  LET s == Stages(p)
                 numbers == [a \in DOMAIN s |-> Log!Numbers(s[a], p)]
             IN  /\ UNION {numbers[a] : a \in DOMAIN s} = 1 .. added[p]
                 /\ \A a, b \in DOMAIN s :
                      a < b => \A i \in numbers[a], k \in numbers[b] : i < k
                 /\ \A a \in DOMAIN s : Log!Rising(s[a], p)
  <2> DEFINE m == Len(sinkBufQueue)
             s == Stages(p)
             numbers == [a \in DOMAIN s |-> Log!Numbers(s[a], p)]
  <2>1. m \in Nat /\ DOMAIN s = 1 .. m + 5
    BY StagesAre DEF OrderInv, CountInv
  <2>2. PICK c : Chained(s, c, m + 5, p) /\ c[m + 5] = added[p]
    BY <1>1, StagesAreChained
  <2> HIDE DEF m, s
  <2>3. /\ UNION {Log!Numbers(s[a], p) : a \in 1 .. m + 5} = 1 .. added[p]
        /\ \A a, b \in 1 .. m + 5 :
             a < b => \A i \in Log!Numbers(s[a], p), k \in Log!Numbers(s[b], p) : i < k
        /\ \A a \in 1 .. m + 5 : Log!Rising(s[a], p)
    <3>1. m + 5 \in Nat
      BY <2>1
    <3> QED
      BY <2>2, <3>1, ChainedIsOrdered
  <2>4. \A a \in 1 .. m + 5 : numbers[a] = Log!Numbers(s[a], p)
    BY <2>1
  <2>5. {numbers[a] : a \in DOMAIN s} = {Log!Numbers(s[a], p) : a \in 1 .. m + 5}
    BY <2>1, <2>4
  <2> HIDE DEF numbers
  <2>6. /\ UNION {numbers[a] : a \in DOMAIN s} = 1 .. added[p]
        /\ \A a, b \in DOMAIN s :
             a < b => \A i \in numbers[a], k \in numbers[b] : i < k
        /\ \A a \in DOMAIN s : Log!Rising(s[a], p)
    BY <2>1, <2>3, <2>4, <2>5
  <2> QED
    BY <2>6 DEF numbers, s
<1> QED
  BY <1>1 DEF Conservation, OrderInv, Ordered, OnlyBadLoses

(***************************************************************************)
(* Nothing is lost, doubled or overtaken between add() and the file.       *)
(***************************************************************************)
THEOREM NothingLostOrOvertaken == Spec => []Conservation
  BY OrderInvariant, OrderConserves, PTL DEF Spec

-----------------------------------------------------------------------------
(* The file is the log that AsyncLog promises. *)

LEMMA LogInitially == Init => Log!Init
  BY DEF Init, Log!Init

LEMMA LogStep ==
  ASSUME OrderInv, OrderInv', [Next]_vars
  PROVE  [Log!Next]_<<added, file>>
<1>1. ASSUME NEW p \in Producers, add(p) PROVE Log!Next
  <2>1. file' = file /\ added' = [added EXCEPT ![p] = @ + 1]
    BY <1>1 DEF add, sharedVars, outVars, streamVars
  <2> QED
    BY <2>1 DEF Log!Next, Log!Log
<1>2. CASE WriteOut
  <2>1. content[sinkBuffer] \in Seq(Lines) /\ Write(content[sinkBuffer])
        /\ added' = added /\ file \in Seq(Lines)
    BY <1>2 DEF WriteOut, OrderInv, CountInv, Streams, TInv, Types, prodVars
  <2>2. PICK t \in Seq(Lines) : file' = file \o t
    BY <2>1, TakenOrLost DEF OrderInv, CountInv
  <2>3. Log!IsPrefix(file, file')
    BY <2>1, <2>2 DEF Log!IsPrefix
  <2>4. ASSUME NEW p \in Producers
        PROVE  /\ \E k \in 0 .. added[p] : Log!Numbers(file', p) = 1 .. k
               /\ Log!Rising(file', p)
    <3>1. PICK f, l, k, b, g \in Nat : Along(p, f, l, k, b, g)'
      BY DEF OrderInv, Ordered, InOrder
    <3>2. /\ Holds(file', p, 0, f)
          /\ f <= l /\ l <= k /\ b <= g /\ g <= added'[p]
      BY <3>1 DEF Along, Holds
    <3>3. k <= b
      BY <3>1, QueueRises DEF Along, OrderInv, CountInv, TInv, Types
    <3>4. f \in 0 .. added[p] /\ Log!Numbers(file', p) = 1 .. f
          /\ Log!Rising(file', p)
      <4>1. added'[p] = added[p] /\ added[p] \in Nat
        BY <2>1, HeldAreLines DEF OrderInv
      <4>2. f \in 0 .. added[p]
        BY <3>2, <3>3, <4>1
      <4>3. Log!Numbers(file', p) = (0 + 1) .. f /\ Log!Rising(file', p)
        BY <3>2 DEF Holds
      <4> QED
        BY <4>2, <4>3
    <3> QED
      BY <3>4
  <2>5. \A p \in Producers :
           /\ \E k \in 0 .. added[p] : Log!Numbers(file', p) = 1 .. k
           /\ Log!Rising(file', p)
    BY <2>4
  <2>6. Log!Write
    BY <2>1, <2>3, <2>5 DEF Log!Write
  <2> QED
    BY <2>6 DEF Log!Next
<1>3. CASE UNCHANGED <<added, file>>
  BY <1>3
<1>4. (\E p \in Producers : add(p)) \/ WriteOut \/ UNCHANGED <<added, file>>
  BY DEF Next, RingBufBG, Drain, sinkBufBG, Terminated, Start, peek, CopyEntry,
         BufferFull, consume, IdleRound, BusyRound, HandOver, TakeBuffer,
         SignalExit, TestExit, Look, PopFront, DeleteBuffer, KeepBuffer,
         GiveBack, vars, prodVars, sharedVars, outVars, streamVars
<1> QED
  BY <1>1, <1>2, <1>3, <1>4

(***************************************************************************)
(* The file only grows, and of every producer it has the first lines, in   *)
(* their order: the pipeline is an AsyncLog.                               *)
(***************************************************************************)
THEOREM PipelineIsAsyncLog == Spec => LogSpec
<1>1. OrderInv /\ OrderInv' /\ [Next]_vars => [Log!Next]_<<added, file>>
  BY LogStep
<1> QED
  BY <1>1, LogInitially, OrderInvariant, PTL
     DEF Spec, LogSpec, Log!Spec, Log!logVars

=============================================================================
