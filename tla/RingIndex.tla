------------------------------ MODULE RingIndex ------------------------------
(***************************************************************************)
(* The index arithmetic of __spsc_queue (include/RingQueue.h).             *)
(*                                                                         *)
(* fifo_.in and fifo_.out are free-running unsigned ints: they are never   *)
(* reduced to the capacity when they advance, they only wrap at the width  *)
(* of the type.  Modulus is that width (2^32 in the build); an index is    *)
(* reduced to a slot by "& (capacity - 1)", which for a power of two is    *)
(* the remainder.                                                          *)
(*                                                                         *)
(* A definition marked as a variant is a slip that the properties have to  *)
(* notice; no specification uses it.                                       *)
(***************************************************************************)
EXTENDS Integers

CONSTANTS
  Capacity,   \* the template parameter "capacity": number of slots
  Modulus     \* one more than the largest unsigned int

(***************************************************************************)
(* The static_assert makes the capacity a power of two.  What the          *)
(* arithmetic needs of it is weaker: it divides the unsigned width and is  *)
(* smaller than it (a capacity of type unsigned cannot be the width).      *)
(***************************************************************************)
ASSUME RingAssumption ==
  /\ Capacity \in Nat \ {0}
  /\ Modulus \in Nat \ {0}
  /\ Modulus % Capacity = 0
  /\ Capacity < Modulus

Index == 0 .. (Modulus - 1)
Slots == 0 .. (Capacity - 1)

min(a, b) == IF a < b THEN a ELSE b

\* Variant: the sum kept in a wider integer.
PlusNoWrap(a, b) == a + b

(* Unsigned a + b. *)
Plus(a, b) == (a + b) % Modulus

\* Variant: the difference computed without the unsigned wrap.
ReadableNoWrap(i, o) == IF i >= o THEN i - o ELSE 0

(* in - out, the number of entries the consumer may read. *)
Readable(i, o) == (i - o) % Modulus

\* Variant: one slot more than there is.
FreeSpaceOffByOne(i, o) == (Capacity - i + o + 1) % Modulus

(* capacity - in + out, the number of slots the producer may fill. *)
FreeSpace(i, o) == (Capacity - i + o) % Modulus

(* x & mask *)
SlotOf(x) == x % Capacity

(* What is left of the array behind x, at most len. *)
FirstRun(x, len) == min(len, Capacity - SlotOf(x))

\* Variant: the second run starts one slot too far.
BatchSlotSkips(x, len, i) ==
  LET l == FirstRun(x, len)
  IN  IF i <= l THEN SlotOf(x) + (i - 1) ELSE i - l

(***************************************************************************)
(* The slot of the i-th of len entries (i counted from 1) that start at    *)
(* index x: the batch operations copy a first run of l entries up to the   *)
(* end of the array and the rest from its beginning.                       *)
(***************************************************************************)
BatchSlot(x, len, i) ==
  LET l == FirstRun(x, len)
  IN  IF i <= l THEN SlotOf(x) + (i - 1) ELSE i - l - 1

(* ++p, wrapped to the beginning of the array when it meets its end. *)
NextSlot(s) == IF s + 1 = Capacity THEN 0 ELSE s + 1

=============================================================================
