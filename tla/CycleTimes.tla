----------------------------- MODULE CycleTimes -----------------------------
(***************************************************************************)
(* The conversions of src/Cycles.cpp between cycles and time, as integer   *)
(* arithmetic.  A double holds every number that occurs exactly enough as  *)
(* long as 10^9 times the cycles stays well below 2^53 times the frequency;*)
(* what is left of (uint64_t) (x + 0.5) is to round half up.               *)
(*                                                                         *)
(* The state is one call: its argument and the frequencies it may use.     *)
(***************************************************************************)
EXTENDS Integers

CONSTANTS
  NanosPerSec,    \* 10^9
  NanosPerMicro,  \* 1000
  MaxCycles,      \* bound: the largest argument
  MaxFrequency    \* bound: the highest frequency, in cycles per second

ASSUME CycleTimesAssumption ==
  /\ {NanosPerSec, NanosPerMicro, MaxFrequency} \subseteq Nat \ {0}
  /\ MaxCycles \in Nat

VARIABLES
  amount,        \* cycles or nanoseconds to convert
  frequency,     \* cyclesPerSec, the frequency that init found
  given          \* the optional argument; 0 asks for cyclesPerSec

timesVars == <<amount, frequency, given>>

TimesInit ==
  /\ amount = 0 /\ given = 0
  /\ frequency \in 1 .. MaxFrequency

(* The next call. *)
NextCall ==
  /\ amount' \in 0 .. MaxCycles
  /\ given' \in 0 .. MaxFrequency
  /\ UNCHANGED frequency

TimesSpec == TimesInit /\ [][NextCall]_timesVars

(* if (cyclesPerSec == 0) cyclesPerSec = getCyclesPerSec(); *)
Frequency(f) == IF f = 0 THEN frequency ELSE f

\* Variant: cut off instead of rounded.
CutOff(a, b) == a \div b

(* (uint64_t) (a / b + 0.5) *)
Rounded(a, b) == (2 * a + b) \div (2 * b)

(* Seconds are a fraction. *)
toSeconds(cycles, f) == [num |-> cycles, den |-> Frequency(f)]

fromSeconds(seconds, f) == Rounded(seconds.num * Frequency(f), seconds.den)

toNanoseconds(cycles, f) == Rounded(NanosPerSec * cycles, Frequency(f))

fromNanoseconds(ns, f) == Rounded(ns * Frequency(f), NanosPerSec)

toMicroseconds(cycles, f) == toNanoseconds(cycles, f) \div NanosPerMicro

\* Variant: microseconds are taken for nanoseconds.
sleepUnscaled(us) == fromNanoseconds(us, 0)

(* The cycles sleep waits for. *)
sleep(us) == fromNanoseconds(NanosPerMicro * us, 0)

-----------------------------------------------------------------------------
(* Is r the quotient a / b to the nearest integer? *)
Nearest(r, a, b) == 2 * r * b - b <= 2 * a /\ 2 * a <= 2 * r * b + b

(* The frequency a caller means. *)
Meant == IF given = 0 THEN frequency ELSE given

(***************************************************************************)
(* A time converted to cycles and back, and cycles to a time and back, is  *)
(* the same number when the unit in between is the finer one, and off by   *)
(* at most half of what the coarser unit is worth otherwise.  Two roundings*)
(* in a row never add up to more.                                          *)
(***************************************************************************)
RoundTrip ==
  LET ns == toNanoseconds(amount, given)
      cycles == fromNanoseconds(amount, given)
      back == fromNanoseconds(ns, given)
      there == toNanoseconds(cycles, given)
      Off(y) == IF y > amount THEN y - amount ELSE amount - y
  IN  /\ fromSeconds(toSeconds(amount, given), given) = amount
      /\ Meant <= NanosPerSec => back = amount
      /\ Meant >= NanosPerSec => there = amount
      /\ 2 * Off(back) * NanosPerSec <= Meant + NanosPerSec
      /\ 2 * Off(there) * Meant <= Meant + NanosPerSec

(* Not early, but for the half nanosecond that toNanoseconds rounds up, and*)
(* less than a microsecond late.                                           *)
MicrosNotEarly ==
  LET us == toMicroseconds(amount, given)
      twiceNanos == 2 * us * NanosPerMicro
  IN  /\ (twiceNanos - 1) * Meant <= 2 * NanosPerSec * amount
      /\ 2 * NanosPerSec * amount < (twiceNanos + 2 * NanosPerMicro) * Meant

(***************************************************************************)
(* toMicroseconds never shows a microsecond that has not been reached yet; *)
(* all the same, who sleeps for some microseconds and measures it sees at  *)
(* least as many, on a machine whose cycles are no longer than a           *)
(* nanosecond.                                                             *)
(***************************************************************************)
SleepIsSeen ==
  /\ MicrosNotEarly
  /\ frequency >= NanosPerSec => toMicroseconds(sleep(amount), 0) >= amount

(***************************************************************************)
(* "The time in microseconds corresponding to cycles (rounded)": to the    *)
(* nearest, as "(rounded)" means for toNanoseconds.  The code divides an   *)
(* integer, which cuts off.                                                *)
(***************************************************************************)
MicrosRounded ==
  Nearest(toMicroseconds(amount, given),
          NanosPerSec * amount, NanosPerMicro * Meant)

=============================================================================
