------------------------------ MODULE SinkBuffer ------------------------------
(***************************************************************************)
(* SinkBuffer<SIZE> of include/SinkBuffer.h: a byte array that log lines   *)
(* are appended to.  A buffer is the sequence of the lines between data_   *)
(* and cur_; every line the program writes takes EntryBytes bytes.  What   *)
(* lies behind cur_ is left out: write(data(), length()) never shows it.   *)
(***************************************************************************)
EXTENDS Integers, Sequences

CONSTANTS
  SinkBufferSize,   \* the template parameter SIZE, in bytes
  ArgNum            \* the bytes of argument data in one entry

(* fmtId and timestamp, then the arguments. *)
HeaderBytes == 12
EntryBytes == HeaderBytes + ArgNum

(* A buffer no line fits in would be handed over and replaced for ever. *)
ASSUME SinkBufferAssumption ==
  /\ ArgNum \in Nat
  /\ SinkBufferSize \in Nat
  /\ SinkBufferSize > EntryBytes

(* cur_ = data_: a new buffer, and what reset() makes of a used one. *)
reset == <<>>

length(buf) == EntryBytes * Len(buf)

avail(buf) == SinkBufferSize - length(buf)

(* The header through current(), add(12) and append(argData, ArgNum).     *)
(* None of them looks at avail(): that is left to the caller.              *)
AppendLine(buf, line) == Append(buf, line)

=============================================================================
