------------------------------ MODULE SinkBytes ------------------------------
(***************************************************************************)
(* A SinkBuffer<SIZE> byte by byte, in the hands of RingBufBG, which writes*)
(* lines into it, of sinkBufBG, which resets it, and of a debugger, which  *)
(* calls debugString() on it wherever the program stopped between two of   *)
(* its calls.  SinkBuffer sees the same buffer as a sequence of lines.     *)
(*                                                                         *)
(* A byte is Junk, Nul, or the k-th byte of a line.  The memory goes on    *)
(* behind data_, where the members cur_ and end_ of the buffer lie.        *)
(***************************************************************************)
EXTENDS SinkBuffer

CONSTANTS
  Lines,    \* the log lines there are
  Blank,    \* what bzero() makes of a line
  Junk,     \* a byte nobody has written
  Nul       \* '\0'

ASSUME SinkBytesAssumption ==
  /\ Blank \notin Lines
  /\ Junk # Nul

VARIABLES
  memory,  \* data_ from 0, and as much behind it as a line may take
  cur,     \* cur_ - data_
  pc,      \* what RingBufBG does next: "test", "add" or "append"
  line,    \* the line it is writing
  lines    \* history: the lines completed since the last reset()

vars == <<memory, cur, pc, line, lines>>

Data == 0 .. (SinkBufferSize - 1)
Memory == 0 .. (SinkBufferSize + EntryBytes)

(* SinkBuffer(): the array is left as it was found. *)
Init ==
  /\ memory = [a \in Memory |-> Junk]
  /\ cur = 0
  /\ pc = "test" /\ line \in Lines /\ lines = reset

(* len bytes from the k-th of a line on, stored at address p. *)
Stored(p, l, k, len) ==
  [a \in Memory |-> IF a \in p .. (p + len - 1) THEN <<l, k + a - p>>
                                                ELSE memory[a]]

\* Variant: the last byte is used as well.
RoomExactly == SinkBufferSize - cur >= EntryBytes

(* (unsigned int)avail() > entrySize *)
Room == SinkBufferSize - cur > EntryBytes

(* fmtId and timestamp, stored directly through current(). *)
WriteHeader(l) ==
  /\ pc = "test"
  /\ Room
  /\ line' = l
  /\ memory' = Stored(cur, l, 0, HeaderBytes)
  /\ pc' = "add"
  /\ UNCHANGED <<cur, lines>>

(* add(12) *)
add ==
  /\ pc = "add"
  /\ cur' = cur + HeaderBytes
  /\ pc' = "append"
  /\ UNCHANGED <<memory, line, lines>>

(* append(argData, ArgNum): no look at what room there is. *)
append ==
  /\ pc = "append"
  /\ memory' = Stored(cur, line, HeaderBytes, ArgNum)
  /\ cur' = cur + ArgNum
  /\ pc' = "test"
  /\ lines' = AppendLine(lines, line)
  /\ UNCHANGED line

(* The buffer has been written and starts again; its bytes stay. *)
Reset ==
  /\ pc = "test"
  /\ cur' = 0
  /\ lines' = reset
  /\ UNCHANGED <<memory, pc, line>>

(* bzero() clears the whole array and leaves cur_ where it is. *)
bzero ==
  /\ pc = "test"
  /\ memory' = [a \in Memory |->
                  IF a \in Data THEN Nul ELSE memory[a]]
  /\ lines' = [i \in DOMAIN lines |-> Blank]
  /\ UNCHANGED <<cur, pc, line>>

\* Variant: the terminator overwrites the last byte.
DebugAtLast == IF cur = 0 THEN 0 ELSE cur - 1

(* Where debugString() puts its terminator. *)
DebugAt == cur

(***************************************************************************)
(* Not between the header and add(12): cur_ is then in front of bytes that *)
(* are in use already, and the terminator falls on the first one of them.  *)
(***************************************************************************)
debugString ==
  /\ pc # "add"
  /\ memory' = [memory EXCEPT ![DebugAt] = Nul]
  /\ UNCHANGED <<cur, pc, line, lines>>

Next ==
  \/ \E l \in Lines : WriteHeader(l)
  \/ add
  \/ append
  \/ Reset
  \/ bzero
  \/ debugString

Spec == Init /\ [][Next]_vars

-----------------------------------------------------------------------------
(***************************************************************************)
(* What write(data(), length()) and toString() show is what SinkBuffer     *)
(* says: the bytes of its lines and nothing else, also where a debugger    *)
(* put a terminator, where the buffer has been through another use before, *)
(* or after bzero().                                                       *)
(***************************************************************************)
BytesAreLines ==
  pc = "test" =>
    /\ cur = length(lines)
    /\ \A a \in 0 .. (cur - 1) :
         LET l == lines[a \div EntryBytes + 1]
         IN  memory[a] = IF l = Blank THEN Nul ELSE <<l, a % EntryBytes>>

(***************************************************************************)
(* Nobody stores a byte behind data_, where cur_ itself comes next: not the*)
(* calls that leave the test of avail() to their caller, and not           *)
(* debugString(), that needs one byte more than the lines.                 *)
(***************************************************************************)
NothingBehind == \A a \in Memory \ Data : memory[a] = Junk

=============================================================================
