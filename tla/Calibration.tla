---------------------------- MODULE Calibration ----------------------------
(***************************************************************************)
(* Cycles::init (src/Cycles.cpp): the frequency of the cycle counter is    *)
(* measured against gettimeofday until two measurements in a row agree.    *)
(*                                                                         *)
(* Time passes in ticks, a fraction of a microsecond; the counter counts   *)
(* them, so the right answer is TicksPerMicro cycles per microsecond.  The *)
(* thread may be preempted between any two instructions, and the wall      *)
(* clock may be set; both are bounded in number.  Only differences of      *)
(* readings matter: the wall clock is counted from the second in which a   *)
(* measurement starts, and the counter from startCycles, which is 0.       *)
(* Doubles are exact fractions.                                            *)
(***************************************************************************)
EXTENDS Integers

CONSTANTS
  TicksPerMicro,   \* ticks, and cycles, in a microsecond
  MicrosPerSec,    \* where tv_usec carries into tv_sec (1000000)
  Threshold,       \* a measurement is longer than this (10000 microseconds)
  Tolerance,       \* agreement is within one part in so many (100000)
  Modulus,         \* one more than the largest uint64_t
  LoopTicks,       \* the ticks the code from a reading to the next may take
  Delays,          \* bound: the ticks a preemption may take
  MaxDelays,       \* bound: how many preemptions there are
  ClockSteps,      \* bound: the ticks the wall clock may be set by
  MaxClockSteps,   \* bound: how often it is set
  MaxCalls         \* bound: how often init is called

ASSUME CalibrationAssumption ==
  /\ {TicksPerMicro, MicrosPerSec, Threshold, Tolerance, Modulus}
       \subseteq Nat \ {0}
  /\ LoopTicks \subseteq Nat \ {0} /\ Delays \subseteq Nat \ {0}
  /\ ClockSteps \subseteq Int
  /\ {MaxDelays, MaxClockSteps, MaxCalls} \subseteq Nat

(***************************************************************************)
(* However often the thread is preempted, a measurement does not take      *)
(* 2^64 microseconds, which are more than half a million years.            *)
(***************************************************************************)
ASSUME MeasurementAssumption ==
  \E longest \in 0 .. TicksPerMicro * Modulus :
    /\ \A d \in LoopTicks \cup Delays : d <= longest
    /\ TicksPerMicro * (Threshold + 2) + longest * (MaxDelays + 1)
         <= TicksPerMicro * Modulus

VARIABLES
  pc,                        \* the statement of init that is next
  clock, tsc,                \* the wall clock and the counter, in ticks
  startTime, stopTime,       \* the readings, as seconds and microseconds
  cyclesPerSec, oldCycles,   \* fractions: cycles over microseconds
  calls,                     \* the calls of init so far
  delays, clockSteps,        \* the preemptions and clock settings so far
  spoilt, oldSpoilt          \* history: was this measurement, and the one
                             \* before, disturbed between paired readings?

readVars == <<startTime, stopTime>>
resultVars == <<cyclesPerSec, oldCycles>>
worldVars == <<delays, clockSteps>>
vars == <<pc, clock, tsc, readVars, resultVars, calls, worldVars, spoilt,
          oldSpoilt>>

(* Non-negative fractions, compared by their cross products. *)
Frac(a, b) == [num |-> a, den |-> b]
Zero == Frac(0, 1)
Less(x, y) == x.num * y.den < y.num * x.den

MicrosPerTurn == TicksPerMicro * MicrosPerSec

Init ==
  /\ pc = "idle"
  /\ clock \in 0 .. MicrosPerTurn - 1 /\ tsc = 0
  /\ startTime = [sec |-> 0, usec |-> 0] /\ stopTime = startTime
  /\ cyclesPerSec = Zero /\ oldCycles = Zero
  /\ calls = 0 /\ delays = 0 /\ clockSteps = 0
  /\ spoilt = FALSE /\ oldSpoilt = FALSE

-----------------------------------------------------------------------------
(* The wall clock as gettimeofday tells it: microseconds, rounded down. *)
TimeOfDay(t) ==
  [sec |-> t \div MicrosPerTurn, usec |-> (t % MicrosPerTurn) \div TicksPerMicro]

(* Time goes on by d for both clocks. *)
Pass(d) == clock' = clock + d /\ tsc' = tsc + d

\* Variant: the guard is missing, every call calibrates.
WantsCalibration == TRUE

(* if (cyclesPerSec != 0) return; *)
NeedsCalibration == cyclesPerSec = Zero

(* init is called, by a static Initialize object or explicitly. *)
Call ==
  /\ pc = "idle" /\ calls < MaxCalls
  /\ calls' = calls + 1
  /\ pc' = IF NeedsCalibration THEN "startTime" ELSE "idle"
  /\ oldCycles' = Zero
  /\ oldSpoilt' = TRUE
  /\ UNCHANGED <<clock, tsc, readVars, cyclesPerSec, worldVars, spoilt>>

ReadStartTime ==
  /\ pc = "startTime"
  /\ startTime' = [TimeOfDay(clock) EXCEPT !.sec = 0]
  /\ clock' = clock % MicrosPerTurn
  /\ spoilt' = FALSE
  /\ pc' = "startCycles"
  /\ UNCHANGED <<tsc, stopTime, resultVars, calls, worldVars, oldSpoilt>>

ReadStartCycles ==
  /\ pc = "startCycles"
  /\ \E d \in LoopTicks : clock' = clock + d /\ tsc' = d
  /\ pc' = "stopTime"
  /\ UNCHANGED <<readVars, resultVars, calls, worldVars, spoilt, oldSpoilt>>

ReadStopTime ==
  /\ pc = "stopTime"
  /\ stopTime' = TimeOfDay(clock)
  /\ pc' = "stopCycles"
  /\ UNCHANGED <<clock, tsc, startTime, resultVars, calls, worldVars, spoilt,
                 oldSpoilt>>

(* gettimeofday fails: PERFUTILS_DIE ends the program. *)
ClockUnreadable ==
  /\ pc \in {"startTime", "stopTime"}
  /\ pc' = "dead"
  /\ UNCHANGED <<clock, tsc, readVars, resultVars, calls, worldVars, spoilt,
                 oldSpoilt>>

(* The difference, computed signed and stored unsigned. *)
Micros(start, stop) ==
  ((stop.usec - start.usec) + (stop.sec - start.sec) * MicrosPerSec) % Modulus

\* Variant: only the lower bound is looked at.
AgreeFromBelow(old, new) ==
  Less(Frac(new.num * (Tolerance - 1), new.den * Tolerance), old)

(* old is more than new - delta and less than new + delta. *)
Agree(old, new) ==
  /\ Less(Frac(new.num * (Tolerance - 1), new.den * Tolerance), old)
  /\ Less(old, Frac(new.num * (Tolerance + 1), new.den * Tolerance))

\* Variant: the assignment is missing.
NotRemembered(new) == oldCycles

(* oldCycles = cyclesPerSec *)
Remember(new) == new

\* Variant: the inner loop is left at once.
AnyLength(micros) == TRUE

LongEnough(micros) == micros > Threshold

(* stopCycles is read.  The inner loop goes on until enough time has       *)
(* passed; then the result is compared with the one before.                *)
ReadStopCycles ==
  /\ pc = "stopCycles"
  /\ LET micros == Micros(startTime, stopTime)
         new == Frac(tsc, micros)
     IN  \/ /\ ~LongEnough(micros)
            /\ pc' = "stopTime"
            /\ \E d \in LoopTicks : Pass(d)
            /\ UNCHANGED <<resultVars, oldSpoilt>>
         \/ /\ LongEnough(micros) /\ Agree(oldCycles, new)
            /\ pc' = "idle"
            /\ cyclesPerSec' = new
            /\ UNCHANGED <<clock, tsc, oldCycles, oldSpoilt>>
         \/ /\ LongEnough(micros) /\ ~Agree(oldCycles, new)
            /\ pc' = "startTime"
            /\ cyclesPerSec' = new
            /\ oldCycles' = Remember(new)
            /\ oldSpoilt' = spoilt
            /\ \E d \in LoopTicks : Pass(d)
  /\ UNCHANGED <<readVars, calls, worldVars, spoilt>>

-----------------------------------------------------------------------------
(* The thread is preempted: harmless, except between paired readings. *)
Preempted(d) ==
  /\ pc \notin {"idle", "dead"} /\ delays < MaxDelays
  /\ delays' = delays + 1
  /\ Pass(d)
  /\ spoilt' = (spoilt \/ pc \in {"startCycles", "stopCycles"})
  /\ UNCHANGED <<pc, readVars, resultVars, calls, clockSteps, oldSpoilt>>

(* The wall clock is set, forwards or back. *)
ClockSet(s) ==
  /\ pc \notin {"idle", "dead"} /\ clockSteps < MaxClockSteps
  /\ clockSteps' = clockSteps + 1
  /\ clock' = clock + s
  /\ spoilt' = TRUE
  /\ UNCHANGED <<pc, tsc, readVars, resultVars, calls, delays, oldSpoilt>>

init ==
  \/ Call \/ ReadStartTime \/ ReadStartCycles \/ ReadStopTime
  \/ ReadStopCycles

(* Nobody calls init any more, or the program is dead. *)
Finished ==
  /\ pc = "dead" \/ (pc = "idle" /\ calls = MaxCalls)
  /\ UNCHANGED vars

Next ==
  \/ init
  \/ ClockUnreadable
  \/ Finished
  \/ \E d \in Delays : Preempted(d)
  \/ \E s \in ClockSteps : ClockSet(s)

Spec == Init /\ [][Next]_vars

(* The thread that calibrates is scheduled for as long as it runs. *)
FairSpec == Spec /\ WF_vars(init)

-----------------------------------------------------------------------------
(* Types of the variables. *)
TypeOK ==
  /\ pc \in {"idle", "startTime", "startCycles", "stopTime", "stopCycles",
            "dead"}
  /\ clock \in Int /\ tsc \in Nat
  /\ startTime \in [sec : {0}, usec : 0 .. MicrosPerSec - 1]
  /\ stopTime \in [sec : Int, usec : 0 .. MicrosPerSec - 1]
  /\ \A f \in {cyclesPerSec, oldCycles} : f \in [num : Nat, den : 1 .. Modulus - 1]
  /\ calls \in 0 .. MaxCalls
  /\ delays \in 0 .. MaxDelays /\ clockSteps \in 0 .. MaxClockSteps
  /\ {spoilt, oldSpoilt} \subseteq BOOLEAN

Returned == pc = "idle" /\ calls > 0

(* A frequency that is right up to one part in n, in cycles per microsecond*)
RightUpTo(f, n) ==
  /\ ~Less(f, Frac(TicksPerMicro * (n - 1), n))
  /\ ~Less(Frac(TicksPerMicro * (n + 1), n), f)

(***************************************************************************)
(* One undisturbed measurement of the last two is enough: whatever the     *)
(* other one was, a preemption between paired readings or a clock set back *)
(* (micros is huge then), the frequency init returns with is right up to   *)
(* the microsecond each reading may be off and the tolerance.  The number  *)
(* of cycles of a good measurement is within one microsecond of the length *)
(* it was taken for.                                                       *)
(***************************************************************************)
OneGoodIsEnough ==
  Returned /\ ~(spoilt /\ oldSpoilt) =>
    /\ Less(Frac(TicksPerMicro * Threshold * Tolerance,
                 (Threshold + 1) * (Tolerance + 1)), cyclesPerSec)
    /\ Less(cyclesPerSec, Frac(TicksPerMicro * (Threshold + 2) * Tolerance,
                               (Threshold + 1) * (Tolerance - 1)))

(***************************************************************************)
(* Who calls init a second time, to be sure it has run, does not change    *)
(* the frequency others have been using already.                           *)
(***************************************************************************)
FrequencySettled == [][calls > 1 => UNCHANGED cyclesPerSec]_vars

(***************************************************************************)
(* Calibration comes to an end once preemptions and clock settings do: a   *)
(* measurement begins right after the one before ended, at the turn of a   *)
(* microsecond, so that two in a row agree.                                *)
(***************************************************************************)
CalibrationEnds == calls = 1 ~> Returned \/ pc = "dead"

(***************************************************************************)
(* "two successive calculations that are within 0.001% of each other (or   *)
(* in other words, a drift of up to 10us per second)": no disturbance      *)
(* between paired readings, so the result is that accurate.  It is not:    *)
(* a start in the middle of a microsecond costs more than the tolerance,   *)
(* and two starts may be equally late.                                     *)
(***************************************************************************)
DriftWithinTolerance ==
  Returned /\ ~spoilt /\ ~oldSpoilt => RightUpTo(cyclesPerSec, Tolerance)

=============================================================================
