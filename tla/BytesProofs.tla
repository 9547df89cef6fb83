----------------------------- MODULE BytesProofs -----------------------------
(***************************************************************************)
(* Text in memory.  SinkBytes: the bytes of a SinkBuffer are its lines,    *)
(* and nothing is stored behind the array, for every size of the buffer    *)
(* and of the arguments.  StringPieces: the comparisons are one order, and *)
(* cuts are cuts of the text, for every memory.                            *)
(***************************************************************************)
EXTENDS SinkBytes, StringPieces, SequenceTheorems, WellFoundedInduction,
        TLAPS

(* Room for what is still to come, and for a terminator behind it. *)
Fill ==
  /\ cur \in Nat
  /\ pc \in {"test", "add", "append"}
  /\ pc = "test" => cur < SinkBufferSize
  /\ pc = "add" => cur + EntryBytes < SinkBufferSize
  /\ pc = "append" => cur + ArgNum < SinkBufferSize

IInv ==
  /\ DOMAIN memory = Memory
  /\ Fill
  /\ NothingBehind

USE SinkBufferAssumption

(* x is its quotient times m plus its remainder. *)
LEMMA DivMod ==
  ASSUME NEW m \in Nat \ {0}, NEW x \in Int
  PROVE  /\ x \div m \in Int
         /\ x % m \in 0 .. (m - 1)
         /\ x = m * (x \div m) + (x % m)
  BY SMT

LEMMA Scaled ==
  ASSUME NEW a \in Int, NEW b \in Int, NEW c \in Nat \ {0}
  PROVE  a < b <=> a * c < b * c
  BY SMT

LEMMA EntryBytesFacts ==
  /\ EntryBytes \in Nat
  /\ EntryBytes = ArgNum + 12
  /\ SinkBufferSize \in Nat
  BY DEF EntryBytes, HeaderBytes

LEMMA FillInitially == Init => IInv
<1> SUFFICES ASSUME Init PROVE IInv
  OBVIOUS
<1>1. DOMAIN memory = Memory /\ NothingBehind
  BY DEF Init, NothingBehind
<1>2. Fill
  BY EntryBytesFacts DEF Init, Fill
<1> QED
  BY <1>1, <1>2 DEF IInv

(* Bytes stored where they fit leave what is behind the array alone. *)
LEMMA StoredInside ==
  ASSUME NEW p \in Nat, NEW len \in Nat, NEW l, NEW k,
         p + len <= SinkBufferSize, NothingBehind
  PROVE  /\ DOMAIN Stored(p, l, k, len) = Memory
         /\ \A a \in Memory \ Data : Stored(p, l, k, len)[a] = Junk
<1>1. ASSUME NEW a \in Memory \ Data PROVE a \notin p .. (p + len - 1)
  BY <1>1, EntryBytesFacts DEF Memory, Data
<1> QED
  BY <1>1 DEF Stored, NothingBehind

LEMMA FillStep == IInv /\ [Next]_vars => IInv'
<1> SUFFICES ASSUME IInv, [Next]_vars PROVE IInv'
  OBVIOUS
<1>1. ASSUME NEW l \in Lines, WriteHeader(l) PROVE IInv'
  <2>1. cur \in Nat /\ cur + EntryBytes < SinkBufferSize
    BY <1>1, EntryBytesFacts DEF IInv, Fill, WriteHeader, Room
  <2>2. cur + HeaderBytes <= SinkBufferSize /\ HeaderBytes \in Nat
    BY <2>1, EntryBytesFacts DEF HeaderBytes
  <2>3. DOMAIN memory' = Memory /\ NothingBehind'
    BY <1>1, <2>1, <2>2, StoredInside DEF IInv, WriteHeader, NothingBehind
  <2>4. Fill'
    BY <1>1, <2>1 DEF WriteHeader, Fill
  <2> QED
    BY <2>3, <2>4 DEF IInv
<1>2. CASE add
  <2>1. Fill'
    BY <1>2, EntryBytesFacts DEF IInv, Fill, add, HeaderBytes
  <2> QED
    BY <1>2, <2>1 DEF IInv, add, NothingBehind
<1>3. CASE append
  <2>1. cur \in Nat /\ cur + ArgNum < SinkBufferSize
    BY <1>3 DEF IInv, Fill, append
  <2>2. DOMAIN memory' = Memory /\ NothingBehind'
    BY <1>3, <2>1, StoredInside DEF IInv, append, NothingBehind
  <2>3. Fill'
    BY <1>3, <2>1 DEF append, Fill
  <2> QED
    BY <2>2, <2>3 DEF IInv
<1>4. CASE Reset
  <2>1. Fill'
    BY <1>4, EntryBytesFacts DEF IInv, Fill, Reset
  <2> QED
    BY <1>4, <2>1 DEF IInv, Reset, NothingBehind
<1>5. CASE bzero
  <2>1. DOMAIN memory' = Memory /\ NothingBehind'
    BY <1>5 DEF IInv, bzero, NothingBehind
  <2>2. Fill'
    BY <1>5 DEF IInv, Fill, bzero
  <2> QED
    BY <2>1, <2>2 DEF IInv
<1>6. CASE debugString
  <2>1. cur \in Nat /\ cur < SinkBufferSize
    BY <1>6, EntryBytesFacts DEF IInv, Fill, debugString
  <2>2. cur \notin Memory \ Data
    BY <2>1 DEF Data
  <2>3. DOMAIN memory' = Memory /\ NothingBehind'
    BY <1>6, <2>2 DEF IInv, debugString, DebugAt, NothingBehind
  <2>4. Fill'
    BY <1>6 DEF IInv, Fill, debugString
  <2> QED
    BY <2>3, <2>4 DEF IInv
<1>7. CASE UNCHANGED vars
  BY <1>7 DEF IInv, Fill, NothingBehind, vars
<1> QED
  BY <1>1, <1>2, <1>3, <1>4, <1>5, <1>6, <1>7 DEF Next

(***************************************************************************)
(* No call of append(), of add() or of debugString() reaches a byte behind *)
(* data_, as long as the caller tests avail() the way RingBufBG does.      *)
(***************************************************************************)
THEOREM BytesStayInside == Spec => []NothingBehind
<1>1. IInv => NothingBehind
  BY DEF IInv
<1> QED
  BY <1>1, FillInitially, FillStep, PTL DEF Spec

-----------------------------------------------------------------------------
(* What the bytes show. *)

AnyLine == Lines \cup {Blank}

Byte(l, b) == IF l = Blank THEN Nul ELSE <<l, b>>

(* Byte b of the k-th line. *)
At(k, b) == EntryBytes * (k - 1) + b

Shown ==
  \A k \in 1 .. Len(lines), b \in 0 .. EntryBytes - 1 :
    memory[At(k, b)] = Byte(lines[k], b)

(* The header of the next line, from where the lines end. *)
HeaderShown ==
  \A b \in 0 .. HeaderBytes - 1 : memory[length(lines) + b] = <<line, b>>

Shows ==
  /\ lines \in Seq(AnyLine)
  /\ line \in Lines
  /\ Shown
  /\ cur = length(lines) + (IF pc = "append" THEN HeaderBytes ELSE 0)
  /\ pc # "test" => HeaderShown

LEMMA LengthFacts ==
  ASSUME lines \in Seq(AnyLine)
  PROVE  /\ Len(lines) \in Nat /\ length(lines) \in Nat
         /\ length(lines) = EntryBytes * Len(lines)
<1>1. \A a, b \in Nat : a * b \in Nat
  BY SMT
<1> QED
  BY <1>1, EntryBytesFacts, LenProperties DEF length

(* The bytes of the lines lie in front of where the next one starts. *)
LEMMA AtFacts ==
  ASSUME NEW n \in Nat, NEW k \in 1 .. n, NEW b \in 0 .. EntryBytes - 1
  PROVE  At(k, b) \in Nat /\ At(k, b) < EntryBytes * n
<1> DEFINE e == EntryBytes
<1>1. e \in Nat
  BY EntryBytesFacts
<1> HIDE DEF e
<1>2. e * (k - 1) \in Nat /\ e * (n - k) \in Nat
  <2>1. \A i, j \in Nat : i * j \in Nat
    BY SMT
  <2> QED
    BY <1>1, <2>1
<1>3. e * n = e * (k - 1) + e + e * (n - k)
  BY <1>1, SMT
<1>4. b \in 0 .. e - 1
  BY DEF e
<1>5. e * (k - 1) + b \in Nat /\ e * (k - 1) + b < e * n
  BY <1>1, <1>2, <1>3, <1>4
<1> QED
  BY <1>5 DEF At, e

(* A store behind the lines does not show in them. *)
LEMMA StillShown ==
  ASSUME Shown, lines \in Seq(AnyLine), lines' = lines,
         \A a \in Memory : a < length(lines) => memory'[a] = memory[a],
         length(lines) <= SinkBufferSize
  PROVE  Shown'
<1> SUFFICES ASSUME NEW k \in 1 .. Len(lines), NEW b \in 0 .. EntryBytes - 1
             PROVE  memory'[At(k, b)] = Byte(lines[k], b)
  BY DEF Shown, At
<1>1. At(k, b) \in Nat /\ At(k, b) < length(lines)
  BY LengthFacts, AtFacts
<1>2. At(k, b) \in Memory
  BY <1>1, LengthFacts, EntryBytesFacts DEF Memory
<1> QED
  BY <1>1, <1>2 DEF Shown

LEMMA ShowsInitially == Init => Shows
<1> SUFFICES ASSUME Init PROVE Shows
  OBVIOUS
<1>1. lines = <<>> /\ cur = 0 /\ pc = "test" /\ line \in Lines
  BY DEF Init, reset
<1>2. Len(lines) = 0 /\ lines \in Seq(AnyLine)
  BY <1>1
<1>3. length(lines) = 0
  BY <1>2, EntryBytesFacts DEF length
<1>4. Shown
  BY <1>2 DEF Shown
<1> QED
  BY <1>1, <1>2, <1>3, <1>4 DEF Shows

LEMMA WriteHeaderShows ==
  ASSUME IInv, Shows, NEW l \in Lines, WriteHeader(l) PROVE Shows'
<1>1. /\ pc = "test" /\ pc' = "add" /\ line' = l /\ lines' = lines /\ cur' = cur
      /\ memory' = Stored(cur, l, 0, HeaderBytes) /\ lines \in Seq(AnyLine)
      /\ cur = length(lines) + 0
  BY DEF WriteHeader, Shows
<1>2. /\ cur = length(lines) /\ cur \in Nat /\ cur + EntryBytes < SinkBufferSize
      /\ EntryBytes \in Nat /\ EntryBytes = ArgNum + 12 /\ SinkBufferSize \in Nat
  BY <1>1, EntryBytesFacts, LengthFacts DEF WriteHeader, Room
<1>3. \A a \in Memory :
         memory'[a] = IF a \in cur .. (cur + HeaderBytes - 1)
                      THEN <<l, 0 + a - cur>> ELSE memory[a]
  BY <1>1 DEF Stored
<1>4. Shown'
  <2>1. ASSUME NEW a \in Memory, a < length(lines) PROVE memory'[a] = memory[a]
    <3>1. a \notin cur .. (cur + HeaderBytes - 1)
      BY <1>2, <2>1 DEF Memory
    <3> QED
      BY <1>3, <3>1
  <2> QED
    BY <1>1, <1>2, <2>1, StillShown DEF Shows
<1>5. HeaderShown'
  <2> SUFFICES ASSUME NEW b \in 0 .. HeaderBytes - 1
               PROVE  memory'[length(lines) + b] = <<l, b>>
    BY <1>1 DEF HeaderShown, length
  <2>1. /\ cur + b \in Memory /\ cur + b \in cur .. (cur + HeaderBytes - 1)
        /\ 0 + (cur + b) - cur = b
    BY <1>2 DEF Memory, HeaderBytes
  <2> QED
    BY <1>2, <1>3, <2>1
<1> QED
  BY <1>1, <1>4, <1>5 DEF Shows, length

LEMMA AddShows ==
  ASSUME IInv, Shows, add PROVE Shows'
<1>1. /\ pc = "add" /\ pc' = "append" /\ cur' = cur + HeaderBytes
      /\ UNCHANGED <<memory, line, lines>>
      /\ cur = length(lines) + 0 /\ HeaderShown /\ Shown
      /\ lines \in Seq(AnyLine) /\ line \in Lines
  BY DEF add, Shows
<1>2. cur' = length(lines) + HeaderBytes
  BY <1>1, LengthFacts
<1> QED
  BY <1>1, <1>2 DEF Shows, Shown, HeaderShown, length

LEMMA AppendShows ==
  ASSUME IInv, Shows, append PROVE Shows'
<1> DEFINE e == EntryBytes
           n == Len(lines)
<1>1. /\ pc = "append" /\ pc' = "test" /\ line' = line
      /\ lines' = Append(lines, line) /\ cur' = cur + ArgNum
      /\ memory' = Stored(cur, line, HeaderBytes, ArgNum)
      /\ lines \in Seq(AnyLine) /\ line \in Lines /\ Shown /\ HeaderShown
      /\ cur = length(lines) + HeaderBytes
  BY DEF append, Shows, AppendLine
<1>2. /\ n \in Nat /\ length(lines) \in Nat /\ length(lines) = e * n
      /\ e \in Nat /\ e = ArgNum + 12 /\ ArgNum \in Nat /\ SinkBufferSize \in Nat
  BY <1>1, EntryBytesFacts, LengthFacts
<1>3. cur \in Nat /\ cur + ArgNum < SinkBufferSize
  BY <1>1 DEF IInv, Fill
<1>4. /\ lines' \in Seq(AnyLine) /\ Len(lines') = n + 1 /\ lines'[n + 1] = line
      /\ \A k \in 1 .. n : lines'[k] = lines[k]
  BY <1>1, AppendProperties DEF AnyLine
<1> HIDE DEF e, n
<1>5. length(lines') = length(lines) + e
  <2>1. e * (n + 1) = e * n + e
    BY <1>2, SMT
  <2>2. length(lines') = e * (n + 1)
    BY <1>4 DEF length, e
  <2> QED
    BY <1>2, <2>1, <2>2
<1>6. cur' = length(lines') + 0
  BY <1>1, <1>2, <1>5 DEF HeaderBytes
<1>7. \A a \in Memory :
         memory'[a] = IF a \in cur .. (cur + ArgNum - 1)
                      THEN <<line, HeaderBytes + a - cur>> ELSE memory[a]
  BY <1>1 DEF Stored
<1>8. ASSUME NEW k \in 1 .. n + 1, NEW b \in 0 .. e - 1
      PROVE  memory'[At(k, b)] = Byte(lines'[k], b)
  <2>1. CASE k \in 1 .. n
    <3>1. At(k, b) \in Nat /\ At(k, b) < length(lines)
      BY <1>2, <1>8, <2>1, AtFacts DEF e
    <3>2. At(k, b) \in Memory /\ At(k, b) \notin cur .. (cur + ArgNum - 1)
      BY <1>1, <1>2, <1>3, <3>1, EntryBytesFacts DEF Memory, HeaderBytes
    <3>3. memory[At(k, b)] = Byte(lines[k], b)
      BY <1>1, <1>8, <2>1 DEF Shown, e, n
    <3> QED
      BY <1>4, <1>7, <2>1, <3>2, <3>3
  <2>2. CASE k = n + 1
    <3>1. At(k, b) = length(lines) + b
      <4>1. (n + 1) - 1 = n
        BY <1>2
      <4> QED
        BY <1>2, <2>2, <4>1 DEF At, e
    <3>2. lines'[k] = line /\ line # Blank
      BY <1>1, <1>4, <2>2, SinkBytesAssumption
    <3>3. length(lines) + b \in Memory
      BY <1>1, <1>2, <1>3, <1>8, EntryBytesFacts DEF Memory, HeaderBytes
    <3>4. CASE b < HeaderBytes
      <4>1. b \in 0 .. HeaderBytes - 1
        BY <1>2, <1>8, <3>4 DEF HeaderBytes
      <4>2. length(lines) + b \notin cur .. (cur + ArgNum - 1)
        BY <1>1, <1>2, <4>1 DEF HeaderBytes
      <4>3. memory[length(lines) + b] = <<line, b>>
        BY <1>1, <4>1 DEF HeaderShown
      <4> QED
        BY <1>7, <3>1, <3>2, <3>3, <4>2, <4>3 DEF Byte
    <3>5. CASE b >= HeaderBytes
      <4>1. /\ length(lines) + b \in cur .. (cur + ArgNum - 1)
            /\ HeaderBytes + (length(lines) + b) - cur = b
        BY <1>1, <1>2, <1>8, <3>5 DEF HeaderBytes
      <4> QED
        BY <1>7, <3>1, <3>2, <3>3, <4>1 DEF Byte
    <3>6. b < HeaderBytes \/ b >= HeaderBytes
      BY <1>2, <1>8 DEF HeaderBytes
    <3> QED
      BY <3>4, <3>5, <3>6
  <2> QED
    BY <1>2, <1>8, <2>1, <2>2
<1>9. Shown'
  BY <1>4, <1>8 DEF Shown, At, e
<1> QED
  BY <1>1, <1>4, <1>6, <1>9 DEF Shows, length

LEMMA ResetShows ==
  ASSUME Shows, Reset PROVE Shows'
<1>1. /\ pc = "test" /\ pc' = pc /\ cur' = 0 /\ lines' = <<>> /\ line' = line
      /\ line \in Lines
  BY DEF Reset, reset, Shows
<1>2. Len(lines') = 0 /\ lines' \in Seq(AnyLine)
  BY <1>1
<1>3. length(lines') = 0
  BY <1>2, EntryBytesFacts DEF length
<1>4. Shown'
  BY <1>2 DEF Shown
<1> QED
  BY <1>1, <1>2, <1>3, <1>4 DEF Shows, length

LEMMA BzeroShows ==
  ASSUME IInv, Shows, bzero PROVE Shows'
<1>1. /\ pc = "test" /\ pc' = pc /\ cur' = cur /\ line' = line /\ line \in Lines
      /\ memory' = [a \in Memory |-> IF a \in Data THEN Nul ELSE memory[a]]
      /\ lines' = [i \in DOMAIN lines |-> Blank]
      /\ lines \in Seq(AnyLine) /\ cur = length(lines) + 0
  BY DEF bzero, Shows
<1>2. DOMAIN lines = 1 .. Len(lines) /\ Len(lines) \in Nat
  BY <1>1, LenProperties
<1>3. lines' \in Seq(AnyLine) /\ Len(lines') = Len(lines)
  <2>1. lines' \in [1 .. Len(lines) -> AnyLine]
    BY <1>1, <1>2 DEF AnyLine
  <2>2. lines' \in Seq(AnyLine)
    BY <1>2, <2>1, SeqDef
  <2>3. DOMAIN lines' = 1 .. Len(lines) /\ DOMAIN lines' = 1 .. Len(lines')
        /\ Len(lines') \in Nat
    BY <2>1, <2>2, LenProperties
  <2> QED
    BY <1>2, <2>2, <2>3
<1>4. length(lines') = length(lines)
  BY <1>3 DEF length
<1>5. length(lines) \in Nat /\ length(lines) < SinkBufferSize
  BY <1>1, LengthFacts DEF IInv, Fill
<1>6. ASSUME NEW k \in 1 .. Len(lines), NEW b \in 0 .. EntryBytes - 1
      PROVE  memory'[At(k, b)] = Byte(lines'[k], b)
  <2>1. At(k, b) \in Nat /\ At(k, b) < length(lines)
    BY <1>1, <1>6, LengthFacts, AtFacts
  <2>2. At(k, b) \in Memory /\ At(k, b) \in Data
    BY <1>5, <2>1, EntryBytesFacts DEF Memory, Data
  <2>3. lines'[k] = Blank
    BY <1>1, <1>2
  <2> QED
    BY <1>1, <2>2, <2>3 DEF Byte
<1>7. Shown'
  BY <1>3, <1>6 DEF Shown, At
<1> QED
  BY <1>1, <1>3, <1>4, <1>7 DEF Shows, length

LEMMA DebugStringShows ==
  ASSUME IInv, Shows, debugString PROVE Shows'
<1>1. /\ pc # "add" /\ memory' = [memory EXCEPT ![cur] = Nul]
      /\ UNCHANGED <<cur, pc, line, lines>> /\ DOMAIN memory = Memory
      /\ lines \in Seq(AnyLine) /\ line \in Lines /\ Shown
      /\ pc \in {"test", "append"} /\ cur < SinkBufferSize /\ cur \in Nat
  BY EntryBytesFacts DEF debugString, DebugAt, Shows, IInv, Fill
<1>2. \A a \in Memory : a # cur => memory'[a] = memory[a]
  BY <1>1
<1>3. /\ length(lines) \in Nat /\ length(lines) <= cur
      /\ pc = "append" => cur = length(lines) + HeaderBytes
      /\ SinkBufferSize \in Nat /\ EntryBytes \in Nat
  BY <1>1, LengthFacts, EntryBytesFacts DEF Shows, HeaderBytes
<1>4. Shown'
  <2>1. \A a \in Memory : a < length(lines) => memory'[a] = memory[a]
    BY <1>2, <1>3 DEF Memory
  <2>2. length(lines) <= SinkBufferSize
    BY <1>1, <1>3
  <2> QED
    BY <1>1, <2>1, <2>2, StillShown
<1>5. pc = "append" => HeaderShown'
  <2> SUFFICES ASSUME pc = "append", NEW b \in 0 .. HeaderBytes - 1
               PROVE  memory'[length(lines) + b] = <<line, b>>
    BY <1>1 DEF HeaderShown, length
  <2>1. length(lines) + b \in Memory /\ length(lines) + b # cur
    BY <1>1, <1>3 DEF Memory, HeaderBytes
  <2>2. memory[length(lines) + b] = <<line, b>>
    BY DEF Shows, HeaderShown
  <2> QED
    BY <1>2, <2>1, <2>2
<1> QED
  BY <1>1, <1>4, <1>5 DEF Shows, length

LEMMA ShowsStep == IInv /\ Shows /\ [Next]_vars => Shows'
<1>1. Shows /\ UNCHANGED vars => Shows'
  BY DEF Shows, Shown, HeaderShown, length, vars
<1> QED
  BY <1>1, WriteHeaderShows, AddShows, AppendShows, ResetShows, BzeroShows,
     DebugStringShows DEF Next

LEMMA ShowsAreLines ==
  ASSUME Shows PROVE BytesAreLines
<1> SUFFICES ASSUME pc = "test"
             PROVE  /\ cur = length(lines)
                    /\ \A a \in 0 .. (cur - 1) :
                         memory[a] = Byte(lines[a \div EntryBytes + 1], a % EntryBytes)
  BY DEF BytesAreLines, Byte
<1>1. /\ lines \in Seq(AnyLine) /\ Len(lines) \in Nat /\ length(lines) \in Nat
      /\ length(lines) = EntryBytes * Len(lines)
      /\ EntryBytes \in Nat \ {0}
  BY LengthFacts, EntryBytesFacts DEF Shows
<1>2. cur = length(lines)
  BY <1>1 DEF Shows
<1> DEFINE e == EntryBytes
           n == Len(lines)
<1>3. ASSUME NEW a \in 0 .. (cur - 1)
      PROVE  memory[a] = Byte(lines[a \div e + 1], a % e)
  <2> DEFINE q == a \div e
             b == a % e
  <2>1. q \in Int /\ b \in 0 .. e - 1 /\ a = e * q + b
    BY <1>1, <1>3, DivMod
  <2>2. e \in Nat \ {0} /\ n \in Nat /\ a \in Nat /\ a < e * n
    BY <1>1, <1>2, <1>3
  <2>3. \A k \in 1 .. n : memory[At(k, b)] = Byte(lines[k], b)
    BY <2>1 DEF Shows, Shown
  <2> HIDE DEF q, b, e, n
  <2>4. q >= 0
    <3>1. (-1) * e < q * e
      BY <2>1, <2>2
    <3> QED
      BY <2>1, <2>2, <3>1, Scaled
  <2>5. q < n
    <3>1. q * e < n * e
      BY <2>1, <2>2
    <3> QED
      BY <2>1, <2>2, <3>1, Scaled
  <2>6. q + 1 \in 1 .. n /\ (q + 1) - 1 = q
    BY <2>1, <2>2, <2>4, <2>5
  <2>7. At(q + 1, b) = a
    BY <2>1, <2>6 DEF At, e
  <2> QED
    BY <2>3, <2>6, <2>7 DEF q, b
<1> QED
  BY <1>2, <1>3

(***************************************************************************)
(* What is written from a buffer is its lines, byte by byte: whatever the  *)
(* buffer held before, and wherever a debugger has put a terminator.       *)
(***************************************************************************)
THEOREM LinesAreShown == Spec => []BytesAreLines
<1>1. Init => IInv /\ Shows
  BY FillInitially, ShowsInitially
<1>2. IInv /\ Shows /\ [Next]_vars => (IInv /\ Shows)'
  BY FillStep, ShowsStep
<1>3. IInv /\ Shows => BytesAreLines
  BY ShowsAreLines
<1> QED
  BY <1>1, <1>2, <1>3, PTL DEF Spec

-----------------------------------------------------------------------------
(* StringPiece. *)

(* The memory ends with a Nul, and the piece is where its text is. *)
PInv ==
  /\ chars \in Seq(Bytes) /\ Len(chars) = Size
  /\ chars[Size] = Terminator
  /\ other \in Pieces
  /\ ShowsWhatIsLeft

USE StringPiecesAssumption

(* Texts *)

LEMMA LeastOfNats ==
  ASSUME NEW T \in SUBSET Nat, T # {}
  PROVE  \E x \in T : \A y \in T : x <= y
<1>1. IsWellFoundedOn(OpToRel(<, Nat), Nat)
  BY NatLessThanWellFounded, Zenon
<1>2. \E x \in T : \A y \in T : ~ (<<y, x>> \in OpToRel(<, Nat))
  BY <1>1, WFMin, Zenon
<1>3. \A x, y \in Nat : y < x => <<y, x>> \in OpToRel(<, Nat)
  BY Zenon DEF OpToRel
<1>4. \E x \in T : \A y \in T : ~ (y < x)
  BY <1>2, <1>3, Zenon
<1> QED
  BY <1>4

LEMMA LeastIsMin ==
  ASSUME NEW T \in SUBSET Nat, T # {}
  PROVE  Min(T) \in T /\ \A y \in T : Min(T) <= y
  BY LeastOfNats DEF Min

(* A piece shows the bytes from its pointer on. *)
LEMMA TextOf ==
  ASSUME chars \in Seq(Bytes), Len(chars) = Size, NEW p \in Pieces
  PROVE  /\ as_string(p) \in Seq(Bytes)
         /\ Len(as_string(p)) = p.length
         /\ \A i \in 1 .. p.length :
              as_string(p)[i] = chars[p.ptr + i] /\ as_string(p)[i] \in Nat
<1>1. /\ p.ptr \in Nat /\ p.length \in Nat
      /\ p.ptr + p.length <= Size
  BY DEF Pieces
<1>2. \A i \in p.ptr + 1 .. p.ptr + p.length : chars[i] \in Bytes
  BY <1>1, ElementOfSeq
<1>3. /\ as_string(p) \in Seq(Bytes)
      /\ Len(as_string(p)) = p.length
      /\ \A i \in 1 .. p.length : as_string(p)[i] = chars[p.ptr + i]
  <2> DEFINE m == p.ptr + 1  n == p.ptr + p.length
  <2>1. m \in Int /\ n \in Int /\ \A i \in m .. n : chars[i] \in Bytes
    BY <1>1, <1>2
  <2> HIDE DEF m, n
  <2>2. /\ SubSeq(chars, m, n) \in Seq(Bytes)
        /\ Len(SubSeq(chars, m, n)) = IF m <= n THEN n - m + 1 ELSE 0
        /\ \A i \in 1 .. n - m + 1 : SubSeq(chars, m, n)[i] = chars[m + i - 1]
    BY <2>1, SubSeqProperties
  <2>3. n - m + 1 = p.length /\ as_string(p) = SubSeq(chars, m, n)
    BY <1>1 DEF as_string, m, n
  <2>4. \A i \in 1 .. p.length : m + i - 1 = p.ptr + i
    BY <1>1 DEF m
  <2> QED
    BY <1>1, <2>1, <2>2, <2>3, <2>4
<1>4. \A i \in 1 .. p.length : as_string(p)[i] \in Nat
  <2> SUFFICES ASSUME NEW i \in 1 .. p.length PROVE as_string(p)[i] \in Nat
    OBVIOUS
  <2>1. p.ptr + i \in p.ptr + 1 .. p.ptr + p.length
    BY <1>1
  <2>2. chars[p.ptr + i] \in Bytes
    BY <1>2, <2>1
  <2> QED
    BY <1>3, <2>2
<1> QED
  BY <1>3, <1>4

(* What is cut at both ends is a cut of the whole. *)
LEMMA CutOfCut ==
  ASSUME chars \in Seq(Bytes), Len(chars) = Size,
         NEW p \in Pieces, NEW q \in Pieces,
         NEW m \in Nat, NEW n \in Nat,
         q.ptr = p.ptr + m, q.length = n - m, m <= n, n <= p.length
  PROVE  SubSeq(as_string(p), m + 1, n) = as_string(q)
<1> DEFINE s == as_string(p)
<1>1. /\ s \in Seq(Bytes) /\ Len(s) = p.length
      /\ \A i \in 1 .. p.length : s[i] = chars[p.ptr + i]
  BY TextOf
<1>2. /\ as_string(q) \in Seq(Bytes) /\ Len(as_string(q)) = n - m
      /\ \A i \in 1 .. n - m : as_string(q)[i] = chars[q.ptr + i]
  BY TextOf
<1>3. p.ptr \in Nat /\ p.length \in Nat
  BY DEF Pieces
<1> HIDE DEF s
<1>4. \A i \in m + 1 .. n : s[i] \in Bytes
  BY <1>1, <1>3, ElementOfSeq
<1>5. /\ SubSeq(s, m + 1, n) \in Seq(Bytes)
      /\ Len(SubSeq(s, m + 1, n)) = n - m
      /\ \A i \in 1 .. n - m : SubSeq(s, m + 1, n)[i] = s[m + i]
  <2> DEFINE k == m + 1
  <2>1. k \in Int /\ \A i \in k .. n : s[i] \in Bytes
    BY <1>4
  <2> HIDE DEF k
  <2>2. /\ SubSeq(s, k, n) \in Seq(Bytes)
        /\ Len(SubSeq(s, k, n)) = IF k <= n THEN n - k + 1 ELSE 0
        /\ \A i \in 1 .. n - k + 1 : SubSeq(s, k, n)[i] = s[k + i - 1]
    BY <2>1, SubSeqProperties
  <2>3. n - k + 1 = n - m /\ \A i \in 1 .. n - m : k + i - 1 = m + i
    BY DEF k
  <2> QED
    BY <2>2, <2>3 DEF k
<1>6. \A i \in 1 .. n - m : SubSeq(s, m + 1, n)[i] = as_string(q)[i]
  <2> SUFFICES ASSUME NEW i \in 1 .. n - m
               PROVE  SubSeq(s, m + 1, n)[i] = as_string(q)[i]
    OBVIOUS
  <2>1. m + i \in 1 .. p.length /\ p.ptr + (m + i) = q.ptr + i
    BY <1>3
  <2>2. s[m + i] = chars[p.ptr + (m + i)]
    BY <1>1, <2>1
  <2> QED
    BY <1>2, <1>5, <2>1, <2>2
<1>7. SubSeq(s, m + 1, n) = as_string(q)
  BY <1>2, <1>5, <1>6, SeqEqual
<1> QED
  BY <1>7 DEF s

-----------------------------------------------------------------------------
(* The order of texts. *)

(* s and t are the same up to n. *)
Same(s, t, n) == \A i \in 1 .. n : s[i] = t[i]

LEMMA SamePrefixes ==
  ASSUME NEW s \in Seq(Bytes), NEW t \in Seq(Bytes),
         NEW n \in Nat, n <= Len(s), n <= Len(t)
  PROVE  SubSeq(s, 1, n) = SubSeq(t, 1, n) <=> Same(s, t, n)
<1>1. \A i \in 1 .. n : s[i] \in Bytes /\ t[i] \in Bytes
  BY ElementOfSeq
<1> DEFINE a == SubSeq(s, 1, n)  b == SubSeq(t, 1, n)
<1>2. /\ a \in Seq(Bytes) /\ Len(a) = n
      /\ \A i \in 1 .. n : a[i] = s[i]
  <2>1. /\ a \in Seq(Bytes)
        /\ Len(a) = IF 1 <= n THEN n - 1 + 1 ELSE 0
        /\ \A i \in 1 .. n - 1 + 1 : a[i] = s[1 + i - 1]
    BY <1>1, SubSeqProperties
  <2> HIDE DEF a
  <2> QED
    BY <2>1
<1>3. /\ b \in Seq(Bytes) /\ Len(b) = n
      /\ \A i \in 1 .. n : b[i] = t[i]
  <2>1. /\ b \in Seq(Bytes)
        /\ Len(b) = IF 1 <= n THEN n - 1 + 1 ELSE 0
        /\ \A i \in 1 .. n - 1 + 1 : b[i] = t[1 + i - 1]
    BY <1>1, SubSeqProperties
  <2> HIDE DEF b
  <2> QED
    BY <2>1
<1> HIDE DEF a, b
<1>4. ASSUME a = b PROVE Same(s, t, n)
  BY <1>2, <1>3, <1>4 DEF Same
<1>5. ASSUME Same(s, t, n) PROVE a = b
  <2>1. \A i \in 1 .. Len(a) : a[i] = b[i]
    BY <1>2, <1>3, <1>5 DEF Same
  <2> QED
    BY <1>2, <1>3, <2>1, SeqEqual
<1> QED
  BY <1>4, <1>5 DEF a, b

LEMMA BeforeMeans ==
  ASSUME NEW s \in Seq(Bytes), NEW t \in Seq(Bytes)
  PROVE  Before(s, t) <=>
           \E k \in 0 .. Len(s) : /\ k < Len(t) /\ Same(s, t, k)
                                  /\ k < Len(s) => s[k + 1] < t[k + 1]
<1>1. Len(s) \in Nat /\ Len(t) \in Nat
  OBVIOUS
<1>2. \A k \in 0 .. Len(s) : k < Len(t) =>
        (SubSeq(s, 1, k) = SubSeq(t, 1, k) <=> Same(s, t, k))
  BY <1>1, SamePrefixes
<1> QED
  BY <1>1, <1>2 DEF Before

(* The first difference decides. *)
LEMMA FirstDifference ==
  ASSUME NEW s \in Seq(Bytes), NEW t \in Seq(Bytes),
         NEW d \in Nat \ {0}, d <= Len(s), d <= Len(t),
         Same(s, t, d - 1), s[d] \in Nat, t[d] \in Nat, s[d] # t[d]
  PROVE  Before(s, t) <=> s[d] < t[d]
<1>1. ASSUME s[d] < t[d] PROVE Before(s, t)
  <2>1. /\ d - 1 \in 0 .. Len(s) /\ d - 1 < Len(t) /\ Same(s, t, d - 1)
        /\ d - 1 < Len(s) => s[d - 1 + 1] < t[d - 1 + 1]
    BY <1>1
  <2> QED
    BY <2>1, BeforeMeans
<1>2. ASSUME Before(s, t) PROVE s[d] < t[d]
  <2>1. PICK k \in 0 .. Len(s) : /\ k < Len(t) /\ Same(s, t, k)
                                 /\ k < Len(s) => s[k + 1] < t[k + 1]
    BY <1>2, BeforeMeans
  <2>2. ~ (k >= d)
    BY <2>1 DEF Same
  <2>3. ASSUME k < d - 1 PROVE FALSE
    <3>1. s[k + 1] = t[k + 1] /\ k < Len(s)
      BY <2>1, <2>3 DEF Same
    <3>2. s[k + 1] \in Nat
      <4>1. k + 1 \in 1 .. Len(s)
        BY <3>1
      <4>2. s[k + 1] \in Bytes
        BY <4>1, ElementOfSeq
      <4> QED
        BY <4>2
    <3>3. s[k + 1] < t[k + 1]
      BY <2>1, <3>1
    <3>4. \A x, y \in Nat : x = y => ~ (x < y)
      OBVIOUS
    <3> QED
      BY <3>1, <3>2, <3>3, <3>4
  <2>4. k = d - 1
    BY <2>1, <2>2, <2>3
  <2> QED
    BY <2>1, <2>4
<1> QED
  BY <1>1, <1>2

(* If there is none, the length does. *)
LEMMA NoDifference ==
  ASSUME NEW s \in Seq(Bytes), NEW t \in Seq(Bytes),
         NEW m \in Nat, m = IF Len(s) < Len(t) THEN Len(s) ELSE Len(t),
         Same(s, t, m)
  PROVE  Before(s, t) <=> Len(s) < Len(t)
<1>0. Len(s) \in Nat /\ Len(t) \in Nat
  OBVIOUS
<1>1. ASSUME Len(s) < Len(t) PROVE Before(s, t)
  <2>1. Len(s) \in 0 .. Len(s) /\ Same(s, t, Len(s))
    BY <1>0, <1>1
  <2> QED
    BY <1>0, <1>1, <2>1, BeforeMeans
<1>2. ASSUME Before(s, t), ~ (Len(s) < Len(t)) PROVE FALSE
  <2>1. PICK k \in 0 .. Len(s) : /\ k < Len(t) /\ Same(s, t, k)
                                 /\ k < Len(s) => s[k + 1] < t[k + 1]
    BY <1>2, BeforeMeans
  <2>2. k + 1 \in 1 .. m /\ k < Len(s)
    BY <1>0, <1>2, <2>1
  <2>3. s[k + 1] = t[k + 1]
    BY <2>2 DEF Same
  <2>4. s[k + 1] \in Nat
    <3>1. k + 1 \in 1 .. Len(s)
      BY <1>0, <2>2
    <3>2. s[k + 1] \in Bytes
      BY <3>1, ElementOfSeq
    <3> QED
      BY <3>2
  <2>5. s[k + 1] < t[k + 1]
    BY <2>1, <2>2
  <2>6. \A x, y \in Nat : x = y => ~ (x < y)
    OBVIOUS
  <2> QED
    BY <2>3, <2>4, <2>5, <2>6
<1> QED
  BY <1>1, <1>2

(* memcmp finds the first difference, if there is one. *)
LEMMA MemcmpSays ==
  ASSUME chars \in Seq(Bytes), Len(chars) = Size,
         NEW p \in Pieces, NEW q \in Pieces,
         NEW n \in Nat, n <= p.length, n <= q.length
  PROVE  LET s == as_string(p)
             t == as_string(q)
             r == memcmp(p, q, n)
         IN  \/ r = 0 /\ Same(s, t, n)
             \/ \E d \in 1 .. n : /\ Same(s, t, d - 1) /\ s[d] # t[d]
                                  /\ s[d] \in Nat /\ t[d] \in Nat
                                  /\ r = s[d] - t[d]
<1> DEFINE s == as_string(p)
           t == as_string(q)
           Differ == {i \in 1 .. n : chars[p.ptr + i] # chars[q.ptr + i]}
           d == Min(Differ)
           r == memcmp(p, q, n)
<1>0. p.length \in Nat /\ q.length \in Nat
  BY DEF Pieces
<1>1. \A i \in 1 .. n : /\ s[i] = chars[p.ptr + i] /\ s[i] \in Nat
                        /\ t[i] = chars[q.ptr + i] /\ t[i] \in Nat
  BY <1>0, TextOf
<1>2. r = IF Differ = {} THEN 0
          ELSE chars[p.ptr + d] - chars[q.ptr + d]
  BY DEF memcmp
<1> HIDE DEF s, t, r
<1>3. CASE Differ = {}
  BY <1>1, <1>2, <1>3 DEF Same, s, t, r
<1>4. CASE Differ # {}
  <2>1. d \in Differ /\ \A y \in Differ : d <= y
    <3>1. Differ \in SUBSET Nat
      OBVIOUS
    <3> HIDE DEF Differ
    <3> QED
      BY <1>4, <3>1, LeastIsMin
  <2>2. d \in 1 .. n /\ s[d] # t[d] /\ s[d] \in Nat /\ t[d] \in Nat
    BY <1>1, <2>1
  <2>3. r = s[d] - t[d]
    BY <1>1, <1>2, <1>4, <2>2
  <2> HIDE DEF d
  <2>4. Same(s, t, d - 1)
    <3> SUFFICES ASSUME NEW i \in 1 .. d - 1 PROVE s[i] = t[i]
      BY DEF Same
    <3>1. i \in 1 .. n /\ ~ (d <= i)
      BY <2>2
    <3>2. i \notin Differ
      BY <2>1, <3>1
    <3> QED
      BY <1>1, <3>1, <3>2
  <2> QED
    BY <2>2, <2>3, <2>4 DEF s, t, r
<1> QED
  BY <1>3, <1>4

(* strlen finds the terminator inside the memory. *)
LEMMA StrLenInside ==
  ASSUME PInv, NEW ptr \in 0 .. (Size - 1)
  PROVE  [ptr |-> ptr, length |-> StrLen(ptr)] \in Pieces
<1> DEFINE Ends == {i \in (ptr + 1) .. Size : chars[i] = Terminator}
<1>1. Ends \in SUBSET Nat /\ Size \in Ends
  BY DEF PInv
<1>2. PICK e \in Ends : \A y \in Ends : e <= y
  BY <1>1, LeastOfNats
<1>3. e \in (ptr + 1) .. Size /\ chars[e] = Terminator
  OBVIOUS
<1>4. \A k \in (ptr + 1) .. (e - 1) : chars[k] # Terminator
  BY <1>2, <1>3
<1> DEFINE There(i) == /\ chars[i] = Terminator
                       /\ \A k \in (ptr + 1) .. (i - 1) : chars[k] # Terminator
           found == CHOOSE i \in (ptr + 1) .. Size : There(i)
<1>5. found \in (ptr + 1) .. Size
  <2>1. There(e)
    BY <1>3, <1>4
  <2> HIDE DEF There
  <2> QED
    BY <1>3, <2>1
<1>6. StrLen(ptr) = found - ptr - 1
  BY DEF StrLen
<1> HIDE DEF found
<1> QED
  BY <1>5, <1>6 DEF Pieces

LEMMA NoPieceIsOne == NoPiece \in Pieces
  BY DEF NoPiece, Pieces

LEMMA PieceInitially == PieceInit => PInv
<1> SUFFICES ASSUME PieceInit PROVE PInv
  OBVIOUS
<1>1. PICK m \in [1 .. (Size - 1) -> Bytes] : chars = Append(m, Terminator)
  BY DEF PieceInit
<1>2. m \in Seq(Bytes) /\ Len(m) = Size - 1
  <2>1. Size - 1 \in Nat
    OBVIOUS
  <2> QED
    BY <2>1
<1>3. chars \in Seq(Bytes) /\ Len(chars) = Size /\ chars[Size] = Terminator
  BY <1>1, <1>2, AppendProperties
<1>4. text = as_string(piece)
  <2>1. piece.ptr = 0 /\ piece.length = 0
    BY DEF PieceInit, NoPiece
  <2>2. as_string(piece) = SubSeq(chars, 1, 0)
    BY <2>1 DEF as_string
  <2> QED
    BY <2>2, SubSeqEmpty DEF PieceInit
<1> QED
  BY <1>3, <1>4, NoPieceIsOne DEF PInv, ShowsWhatIsLeft, PieceInit

LEMMA SetStep ==
  ASSUME PInv, NEW p \in Pieces, set(p)
  PROVE  PInv'
<1>1. piece' = p /\ text' = as_string(p) /\ chars' = chars /\ other' = other
  BY DEF set
<1>2. as_string(piece)' = as_string(p)
  BY <1>1 DEF as_string
<1>3. Pieces' = Pieces
  BY DEF Pieces
<1> QED
  BY <1>1, <1>2, <1>3 DEF PInv, ShowsWhatIsLeft

LEMMA CutStep ==
  ASSUME PInv, NEW n \in Nat, remove_prefix(n) \/ remove_suffix(n)
  PROVE  PInv'
<1>1. /\ chars \in Seq(Bytes) /\ Len(chars) = Size
      /\ piece \in Pieces /\ text = as_string(piece)
  BY DEF PInv, ShowsWhatIsLeft
<1>2. /\ piece.ptr \in Nat /\ piece.length \in Nat
      /\ piece.ptr + piece.length <= Size /\ n <= piece.length
      /\ piece = [ptr |-> piece.ptr, length |-> piece.length]
  BY <1>1 DEF Pieces, remove_prefix, remove_suffix
<1>3. chars' = chars /\ other' = other
  BY DEF remove_prefix, remove_suffix
<1>4. Len(text) = piece.length
  BY <1>1, TextOf
<1>5. piece' \in Pieces /\ text' = as_string(piece')
  <2>1. CASE remove_prefix(n)
    <3>1. /\ piece' = [ptr |-> piece.ptr + n, length |-> piece.length - n]
          /\ text' = SubSeq(text, n + 1, piece.length)
      BY <1>4, <2>1 DEF remove_prefix, WithoutPrefix
    <3>2. piece' \in Pieces
      BY <1>2, <3>1 DEF Pieces
    <3> DEFINE q == piece'
               l == piece.length
    <3>3. /\ q \in Pieces /\ q.ptr = piece.ptr + n /\ q.length = l - n
          /\ l \in Nat /\ n <= l /\ l <= piece.length
      BY <1>2, <3>1, <3>2
    <3> HIDE DEF q, l
    <3>4. SubSeq(as_string(piece), n + 1, l) = as_string(q)
      BY <1>1, <3>3, CutOfCut
    <3> QED
      BY <1>1, <3>1, <3>2, <3>4 DEF q, l
  <2>2. CASE remove_suffix(n)
    <3>1. /\ piece' = [ptr |-> piece.ptr, length |-> piece.length - n]
          /\ text' = SubSeq(text, 1, piece.length - n)
      BY <1>2, <1>4, <2>2 DEF remove_suffix
    <3>2. piece' \in Pieces
      BY <1>2, <3>1 DEF Pieces
    <3> DEFINE z == 0
               l == piece.length - n
               q == piece'
    <3>3. /\ q \in Pieces /\ q.ptr = piece.ptr + z /\ q.length = l - z
          /\ z \in Nat /\ l \in Nat /\ z <= l /\ l <= piece.length
          /\ z + 1 = 1
      BY <1>2, <3>1, <3>2
    <3> HIDE DEF z, l, q
    <3>4. SubSeq(as_string(piece), z + 1, l) = as_string(q)
      BY <1>1, <3>3, CutOfCut
    <3>5. SubSeq(as_string(piece), 1, l) = as_string(q)
      BY <3>3, <3>4
    <3> QED
      BY <1>1, <3>1, <3>2, <3>5 DEF l, q
  <2> QED
    BY <2>1, <2>2
<1>6. as_string(piece)' = as_string(piece')
  BY <1>3 DEF as_string
<1>7. Pieces' = Pieces
  BY DEF Pieces
<1> QED
  BY <1>3, <1>5, <1>6, <1>7 DEF PInv, ShowsWhatIsLeft

(***************************************************************************)
(* Whatever has been cut off, the memory still ends with a Nul, so strlen  *)
(* ends inside it, and the piece is where its text is.                     *)
(***************************************************************************)
THEOREM PieceInvariance == PieceSpec => []PInv
<1>1. PieceInit => PInv
  BY PieceInitially
<1>2. PInv /\ [NextUse]_pieceVars => PInv'
  <2> SUFFICES ASSUME PInv, [NextUse]_pieceVars PROVE PInv'
    OBVIOUS
  <2>1. ASSUME NEW p \in Pieces, set(p) PROVE PInv'
    BY <2>1, SetStep
  <2>2. ASSUME NEW ptr \in 0 .. (Size - 1), SetCString(ptr) PROVE PInv'
    BY <2>2, SetStep, StrLenInside DEF SetCString
  <2>3. CASE clear
    BY <2>3, SetStep, NoPieceIsOne DEF clear
  <2>4. ASSUME NEW n \in 1 .. Size, remove_prefix(n) \/ remove_suffix(n)
        PROVE  PInv'
    BY <2>4, CutStep
  <2>5. CASE UNCHANGED pieceVars
    <3>1. chars' = chars /\ piece' = piece /\ other' = other /\ text' = text
      BY <2>5 DEF pieceVars
    <3>2. as_string(piece)' = as_string(piece) /\ Pieces' = Pieces
      BY <3>1 DEF as_string, Pieces
    <3> QED
      BY <3>1, <3>2 DEF PInv, ShowsWhatIsLeft
  <2> QED
    BY <2>1, <2>2, <2>3, <2>4, <2>5 DEF NextUse
<1> QED
  BY <1>1, <1>2, PTL DEF PieceSpec

(* What memcmp over the shorter of the two says of the order, and of       *)
(* beginning with one another.                                             *)
LEMMA OrderOf ==
  ASSUME chars \in Seq(Bytes), Len(chars) = Size,
         NEW p \in Pieces, NEW q \in Pieces
  PROVE  LET s == as_string(p)
             t == as_string(q)
             r == memcmp(p, q, Shorter(p, q))
         IN  /\ r \in Int
             /\ p.length \in Nat /\ q.length \in Nat
             /\ Before(s, t) <=> r < 0 \/ (r = 0 /\ p.length < q.length)
             /\ Before(t, s) <=> r > 0 \/ (r = 0 /\ p.length > q.length)
<1> DEFINE s == as_string(p)
           t == as_string(q)
           m == Shorter(p, q)
           r == memcmp(p, q, m)
<1>1. /\ s \in Seq(Bytes) /\ t \in Seq(Bytes)
      /\ Len(s) = p.length /\ Len(t) = q.length
  BY TextOf
<1>2. p.length \in Nat /\ q.length \in Nat
  BY DEF Pieces
<1>3. /\ m \in Nat /\ m <= p.length /\ m <= q.length
      /\ m = IF Len(s) < Len(t) THEN Len(s) ELSE Len(t)
      /\ m = IF Len(t) < Len(s) THEN Len(t) ELSE Len(s)
  BY <1>1, <1>2 DEF Shorter
<1> HIDE DEF m
<1>4. \/ r = 0 /\ Same(s, t, m)
      \/ \E d \in 1 .. m : /\ Same(s, t, d - 1) /\ s[d] # t[d]
                           /\ s[d] \in Nat /\ t[d] \in Nat
                           /\ r = s[d] - t[d]
  BY <1>3, MemcmpSays
<1> HIDE DEF s, t, r
<1>5. CASE r = 0 /\ Same(s, t, m)
  <2>1. Same(t, s, m)
    BY <1>5 DEF Same
  <2>2. Before(s, t) <=> Len(s) < Len(t)
    BY <1>1, <1>3, <1>5, NoDifference
  <2>3. Before(t, s) <=> Len(t) < Len(s)
    BY <1>1, <1>3, <2>1, NoDifference
  <2> QED
    BY <1>1, <1>2, <1>5, <2>2, <2>3 DEF s, t, r, m
<1>6. CASE \E d \in 1 .. m : /\ Same(s, t, d - 1) /\ s[d] # t[d]
                              /\ s[d] \in Nat /\ t[d] \in Nat
                              /\ r = s[d] - t[d]
  <2>1. PICK d \in 1 .. m : /\ Same(s, t, d - 1) /\ s[d] # t[d]
                            /\ s[d] \in Nat /\ t[d] \in Nat
                            /\ r = s[d] - t[d]
    BY <1>6
  <2>2. Same(t, s, d - 1) /\ d \in Nat \ {0} /\ d <= Len(s) /\ d <= Len(t)
    <3>1. d \in Nat \ {0} /\ d <= Len(s) /\ d <= Len(t)
      BY <1>1, <1>2, <1>3
    <3>2. Same(t, s, d - 1)
      BY <2>1 DEF Same
    <3> QED
      BY <3>1, <3>2
  <2>3. Before(s, t) <=> s[d] < t[d]
    BY <1>1, <2>1, <2>2, FirstDifference
  <2>4. Before(t, s) <=> t[d] < s[d]
    BY <1>1, <2>1, <2>2, FirstDifference
  <2>5. /\ r \in Int /\ r # 0
        /\ r < 0 <=> s[d] < t[d]
        /\ r > 0 <=> t[d] < s[d]
    BY <2>1
  <2> QED
    BY <1>2, <2>3, <2>4, <2>5 DEF s, t, r, m
<1> QED
  BY <1>4, <1>5, <1>6

(* memcmp over n bytes is 0 exactly if they are the same. *)
LEMMA SameBytes ==
  ASSUME chars \in Seq(Bytes), Len(chars) = Size,
         NEW p \in Pieces, NEW q \in Pieces,
         NEW n \in Nat, n <= p.length, n <= q.length
  PROVE  memcmp(p, q, n) = 0 <=> Same(as_string(p), as_string(q), n)
<1> DEFINE s == as_string(p)
           t == as_string(q)
           r == memcmp(p, q, n)
<1>1. \/ r = 0 /\ Same(s, t, n)
      \/ \E d \in 1 .. n : /\ Same(s, t, d - 1) /\ s[d] # t[d]
                           /\ s[d] \in Nat /\ t[d] \in Nat
                           /\ r = s[d] - t[d]
  BY MemcmpSays
<1> HIDE DEF s, t, r
<1>2. ASSUME NEW d \in 1 .. n, s[d] # t[d], s[d] \in Nat, t[d] \in Nat,
             r = s[d] - t[d]
      PROVE  r # 0 /\ ~ Same(s, t, n)
  BY <1>2 DEF Same
<1>3. r = 0 <=> Same(s, t, n)
  BY <1>1, <1>2
<1> QED
  BY <1>3 DEF s, t, r

LEMMA EqualTexts ==
  ASSUME chars \in Seq(Bytes), Len(chars) = Size,
         NEW p \in Pieces, NEW q \in Pieces
  PROVE  Equal(p, q) <=> as_string(p) = as_string(q)
<1> DEFINE s == as_string(p)
           t == as_string(q)
<1>1. /\ s \in Seq(Bytes) /\ t \in Seq(Bytes)
      /\ Len(s) = p.length /\ Len(t) = q.length
  BY TextOf
<1>2. p.length \in Nat /\ q.length \in Nat
  BY DEF Pieces
<1>3. p.length = q.length =>
        (memcmp(p, q, p.length) = 0 <=> Same(s, t, p.length))
  BY <1>2, SameBytes
<1> HIDE DEF s, t
<1>4. p.length = q.length /\ Same(s, t, p.length) => s = t
  BY <1>1, SeqEqual DEF Same
<1>5. s = t => p.length = q.length /\ Same(s, t, p.length)
  BY <1>1 DEF Same
<1>6. Equal(p, q) <=> s = t
  BY <1>3, <1>4, <1>5 DEF Equal
<1> QED
  BY <1>6 DEF s, t

LEMMA PrefixTexts ==
  ASSUME chars \in Seq(Bytes), Len(chars) = Size,
         NEW p \in Pieces, NEW q \in Pieces
  PROVE  starts_with(p, q) <=> IsPrefix(as_string(q), as_string(p))
<1> DEFINE s == as_string(p)
           t == as_string(q)
<1>1. /\ s \in Seq(Bytes) /\ t \in Seq(Bytes)
      /\ Len(s) = p.length /\ Len(t) = q.length
  BY TextOf
<1>2. p.length \in Nat /\ q.length \in Nat
  BY DEF Pieces
<1>3. q.length <= p.length =>
        (memcmp(p, q, q.length) = 0 <=> Same(s, t, q.length))
  BY <1>2, SameBytes
<1> HIDE DEF s, t
<1>4. q.length <= p.length =>
        (SubSeq(s, 1, q.length) = SubSeq(t, 1, q.length)
           <=> Same(s, t, q.length))
  <2> DEFINE n == q.length
  <2>1. n <= p.length => n \in Nat /\ n <= Len(s) /\ n <= Len(t)
    BY <1>1, <1>2
  <2> HIDE DEF n
  <2>2. n <= p.length => (SubSeq(s, 1, n) = SubSeq(t, 1, n) <=> Same(s, t, n))
    BY <1>1, <2>1, SamePrefixes
  <2> QED
    BY <2>2 DEF n
<1>5. starts_with(p, q) <=> IsPrefix(t, s)
  BY <1>1, <1>2, <1>3, <1>4 DEF starts_with, IsPrefix
<1> QED
  BY <1>5 DEF s, t

LEMMA ComparesAll == PInv => ComparesTexts
<1> SUFFICES ASSUME PInv PROVE ComparesTexts
  OBVIOUS
<1> DEFINE s == as_string(piece)
           t == as_string(other)
           r == memcmp(piece, other, Shorter(piece, other))
           a == piece.length
           b == other.length
<1>0. /\ chars \in Seq(Bytes) /\ Len(chars) = Size
      /\ piece \in Pieces /\ other \in Pieces
  BY DEF PInv, ShowsWhatIsLeft
<1>1. /\ r \in Int /\ a \in Nat /\ b \in Nat
      /\ Before(s, t) <=> r < 0 \/ (r = 0 /\ a < b)
      /\ Before(t, s) <=> r > 0 \/ (r = 0 /\ a > b)
  BY <1>0, OrderOf
<1>2. Equal(piece, other) <=> s = t
  BY <1>0, EqualTexts
<1>3. starts_with(piece, other) <=> IsPrefix(t, s)
  BY <1>0, PrefixTexts
<1>4. compare(piece, other) = CASE r # 0          -> r
                                [] r = 0 /\ a < b -> -1
                                [] r = 0 /\ a > b -> 1
                                [] r = 0 /\ a = b -> 0
  BY DEF compare
<1>5. ASSUME NEW cmp, NEW auxcmp
      PROVE  Predicate(piece, other, cmp, auxcmp)
               <=> Holds(r, auxcmp, 0) \/ (r = 0 /\ Holds(a, cmp, b))
  BY DEF Predicate
<1> HIDE DEF s, t, r, a, b
<1>6. /\ compare(piece, other) < 0 <=> Before(s, t)
      /\ compare(piece, other) > 0 <=> Before(t, s)
  BY <1>1, <1>4
<1>7. \A x, y \in Int :
        /\ Holds(x, {"-"}, y) <=> x < y
        /\ Holds(x, {"+"}, y) <=> x > y
        /\ Holds(x, {"-", "0"}, y) <=> x <= y
        /\ Holds(x, {"0", "+"}, y) <=> x >= y
  BY DEF Holds
<1>8. /\ Predicate(piece, other, {"-"}, {"-"}) <=> Before(s, t)
      /\ Predicate(piece, other, {"-", "0"}, {"-"}) <=> ~Before(t, s)
      /\ Predicate(piece, other, {"0", "+"}, {"+"}) <=> ~Before(s, t)
      /\ Predicate(piece, other, {"+"}, {"+"}) <=> Before(t, s)
  BY <1>1, <1>5, <1>7
<1> QED
  BY <1>2, <1>3, <1>6, <1>8 DEF ComparesTexts, s, t

(***************************************************************************)
(* ==, compare(), the four operators and starts_with() are the one order   *)
(* of the dictionary on what the pieces show.                              *)
(***************************************************************************)
THEOREM ComparisonsAreOneOrder == PieceSpec => []ComparesTexts
  BY ComparesAll, PieceInvariance, PTL

(***************************************************************************)
(* remove_prefix and remove_suffix leave what a string of its own would    *)
(* show after the same cuts, inside the memory.                            *)
(***************************************************************************)
THEOREM CutsShowWhatIsLeft == PieceSpec => []ShowsWhatIsLeft
<1>1. PInv => ShowsWhatIsLeft
  BY DEF PInv
<1> QED
  BY <1>1, PieceInvariance, PTL

=============================================================================
