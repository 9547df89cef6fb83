---------------------------- MODULE CyclesProofs ----------------------------
(***************************************************************************)
(* The two halves of Cycles.  Calibration: whatever one measurement was,   *)
(* an undisturbed one next to it bounds the error of the frequency, and a  *)
(* second call changes nothing, for all figures of the two clocks.  The    *)
(* conversions: two roundings in a row do not add up, for all frequencies. *)
(***************************************************************************)
EXTENDS Calibration, CycleTimes, TLAPS

-----------------------------------------------------------------------------
(* Products and quotients *)

(* x is its quotient times m plus its remainder. *)
LEMMA DivMod ==
  ASSUME NEW m \in Nat \ {0}, NEW x \in Int
  PROVE  /\ x \div m \in Int
         /\ x % m \in 0 .. (m - 1)
         /\ x = m * (x \div m) + (x % m)
  BY SMT

LEMMA SmallMod ==
  ASSUME NEW m \in Nat \ {0}, NEW x \in 0 .. m - 1
  PROVE  x % m = x
  BY SMT

LEMMA Scaled ==
  ASSUME NEW a \in Int, NEW b \in Int, NEW c \in Nat \ {0}
  PROVE  a < b <=> a * c < b * c
  BY SMT

LEMMA ScaledUpTo ==
  ASSUME NEW a \in Int, NEW b \in Int, NEW c \in Nat, a <= b
  PROVE  a * c <= b * c
  BY SMT

(* A factor that is one larger makes a smaller number smaller still. *)
LEMMA ScaledApart ==
  ASSUME NEW a \in Nat, NEW b \in Nat, a < b, NEW c \in Nat
  PROVE  a * c < b * (c + 1)
<1>1. a * c <= b * c
  BY ScaledUpTo
<1>2. b * (c + 1) = b * c + b
  BY SMT
<1>3. a * c \in Nat /\ b * c \in Nat
  BY SMT
<1> QED
  BY <1>1, <1>2, <1>3

LEMMA Positive ==
  ASSUME NEW a \in Nat \ {0}, NEW b \in Nat \ {0}
  PROVE  a * b \in Nat \ {0}
  BY SMT

-----------------------------------------------------------------------------
(* The figures *)

Longest ==
  CHOOSE longest \in 0 .. TicksPerMicro * Modulus :
    /\ \A d \in LoopTicks \cup Delays : d <= longest
    /\ TicksPerMicro * (Threshold + 2) + longest * (MaxDelays + 1)
         <= TicksPerMicro * Modulus

LEMMA Figures ==
  /\ TicksPerMicro \in Nat \ {0} /\ MicrosPerSec \in Nat \ {0}
  /\ Threshold \in Nat \ {0} /\ Tolerance \in Nat \ {0} /\ Modulus \in Nat \ {0}
  /\ MicrosPerTurn \in Nat \ {0} /\ MaxDelays \in Nat /\ MaxClockSteps \in Nat
  /\ MaxCalls \in Nat
  /\ \A d \in LoopTicks \cup Delays : d \in Nat \ {0}
  /\ \A d \in ClockSteps : d \in Int
<1>1. TicksPerMicro \in Nat \ {0} /\ MicrosPerSec \in Nat \ {0}
  BY CalibrationAssumption
<1>2. TicksPerMicro * MicrosPerSec \in Nat \ {0}
  BY <1>1, Positive
<1> QED
  BY <1>1, <1>2, CalibrationAssumption DEF MicrosPerTurn

LEMMA LongestFits ==
  /\ Longest \in Nat /\ \A d \in LoopTicks \cup Delays : d <= Longest
  /\ TicksPerMicro * (Threshold + 2) + Longest * (MaxDelays + 1)
       <= TicksPerMicro * Modulus
<1>1. TicksPerMicro * Modulus \in Nat
  BY Figures, Positive
<1>2. /\ Longest \in 0 .. TicksPerMicro * Modulus
      /\ \A d \in LoopTicks \cup Delays : d <= Longest
      /\ TicksPerMicro * (Threshold + 2) + Longest * (MaxDelays + 1)
           <= TicksPerMicro * Modulus
  BY MeasurementAssumption, Zenon DEF Longest
<1> QED
  BY <1>1, <1>2

LEMMA ModulusIsLarger == Modulus > Threshold + 1
<1>1. Longest * (MaxDelays + 1) \in Nat
  <2>1. \A a, b \in Nat : a * b \in Nat
    BY SMT
  <2>2. MaxDelays + 1 \in Nat
    BY Figures
  <2> QED
    BY <2>1, <2>2, LongestFits
<1>2. (Threshold + 2) * TicksPerMicro <= Modulus * TicksPerMicro
  <2>1. /\ TicksPerMicro * (Threshold + 2) = (Threshold + 2) * TicksPerMicro
        /\ TicksPerMicro * Modulus = Modulus * TicksPerMicro
    BY Figures, SMT
  <2>2. (Threshold + 2) * TicksPerMicro \in Int /\ Modulus * TicksPerMicro \in Int
    BY Figures, Positive
  <2> QED
    BY <1>1, <2>1, <2>2, LongestFits
<1>3. ~(Modulus < Threshold + 2)
  BY <1>2, Figures, Scaled
<1> QED
  BY <1>3, Figures

(* gettimeofday cuts the wall clock into whole seconds, whole microseconds *)
(* and what is left of one.                                                *)
LEMMA TimeIsCut ==
  ASSUME NEW t \in Int
  PROVE  LET u == TimeOfDay(t)
         IN  /\ u.sec \in Int /\ u.usec \in 0 .. MicrosPerSec - 1
             /\ TimeOfDay(t) = [sec |-> u.sec, usec |-> u.usec]
             /\ t % MicrosPerTurn \in Nat
             /\ (t % MicrosPerTurn) - TicksPerMicro * u.usec \in 0 .. TicksPerMicro - 1
             /\ t - TicksPerMicro * (u.usec + u.sec * MicrosPerSec)
                  \in 0 .. TicksPerMicro - 1
<1> DEFINE s == t \div MicrosPerTurn
           r == t % MicrosPerTurn
           u == r \div TicksPerMicro
           v == r % TicksPerMicro
<1>1. /\ s \in Int /\ r \in 0 .. MicrosPerTurn - 1
      /\ t = MicrosPerTurn * s + r
  BY Figures, DivMod
<1>2. /\ u \in Int /\ v \in 0 .. TicksPerMicro - 1
      /\ r = TicksPerMicro * u + v
  BY <1>1, Figures, DivMod
<1>3. TimeOfDay(t) = [sec |-> s, usec |-> u]
  BY DEF TimeOfDay
<1> HIDE DEF s, r, u, v
<1>4. MicrosPerTurn = TicksPerMicro * MicrosPerSec
  BY DEF MicrosPerTurn
<1>5. u < MicrosPerSec
  <2>1. TicksPerMicro * u \in Int /\ TicksPerMicro * MicrosPerSec \in Int
    BY <1>2, Figures
  <2>2. TicksPerMicro * u < TicksPerMicro * MicrosPerSec
    BY <1>1, <1>2, <1>4, <2>1
  <2>3. u * TicksPerMicro < MicrosPerSec * TicksPerMicro
    BY <1>2, <2>2, Figures
  <2> QED
    BY <1>2, <2>3, Figures, Scaled
<1>6. u >= 0
  <2>1. TicksPerMicro * u \in Int /\ TicksPerMicro * u > -TicksPerMicro
    BY <1>1, <1>2, Figures
  <2>2. (-1) * TicksPerMicro < u * TicksPerMicro
    BY <1>2, <2>1, Figures
  <2>3. -1 < u
    BY <1>2, <2>2, Figures, Scaled
  <2> QED
    BY <1>2, <2>3
<1>7. t - TicksPerMicro * (u + s * MicrosPerSec) = v
  <2>1. TicksPerMicro * (u + s * MicrosPerSec)
          = TicksPerMicro * u + (TicksPerMicro * MicrosPerSec) * s
    BY <1>1, <1>2, Figures, SMT
  <2>2. TicksPerMicro * u \in Int /\ (TicksPerMicro * MicrosPerSec) * s \in Int
    BY <1>1, <1>2, Figures
  <2> QED
    BY <1>1, <1>2, <1>4, <2>1, <2>2
<1>8. r \in Nat /\ r - TicksPerMicro * u = v
  <2>1. TicksPerMicro * u \in Int
    BY <1>2, Figures
  <2> QED
    BY <1>1, <1>2, <2>1, Figures
<1>9. r = t % MicrosPerTurn
  BY DEF r
<1>10. TimeOfDay(t).sec = s /\ TimeOfDay(t).usec = u
  BY <1>3
<1>11. u \in 0 .. MicrosPerSec - 1
  BY <1>2, <1>5, <1>6, Figures
<1> QED
  BY <1>1, <1>2, <1>3, <1>7, <1>8, <1>9, <1>10, <1>11

-----------------------------------------------------------------------------
(* The invariant *)

(* The number of cycles fits the microseconds, but for one of them. *)
Good(f) ==
  /\ f.den > Threshold
  /\ TicksPerMicro * (f.den - 1) < f.num
  /\ f.num < TicksPerMicro * (f.den + 1)

(* init calibrates once. *)
CalledOnce ==
  /\ calls = 0 => pc = "idle" /\ cyclesPerSec = Zero
  /\ pc # "idle" => calls = 1
  /\ Returned => cyclesPerSec.num > 0 /\ cyclesPerSec.den > Threshold

(* A measurement that nothing has disturbed so far: the counter stands for *)
(* the time since somewhere in the microsecond of startTime.               *)
Timed ==
  /\ pc \in {"stopTime", "stopCycles"} => tsc > 0
  /\ pc = "startCycles" /\ ~spoilt =>
       clock - TicksPerMicro * startTime.usec \in 0 .. TicksPerMicro - 1
  /\ pc \in {"stopTime", "stopCycles"} /\ ~spoilt =>
       /\ clock - tsc - TicksPerMicro * startTime.usec \in 0 .. TicksPerMicro - 1
       /\ tsc <= TicksPerMicro * (Threshold + 1) + Longest * (delays + 1)
  /\ pc = "stopCycles" /\ ~spoilt => stopTime = TimeOfDay(clock)

Remembered == calls > 0 /\ ~oldSpoilt => Good(oldCycles)

CInv == TypeOK /\ CalledOnce /\ Timed /\ Remembered /\ OneGoodIsEnough

(* What a measurement of n cycles in m microseconds, off by less than one  *)
(* of them, says of the frequency.                                         *)
LEMMA GoodBounds ==
  ASSUME NEW f, f.num \in Nat, f.den \in Nat, Good(f)
  PROVE  /\ TicksPerMicro * Threshold * f.den < f.num * (Threshold + 1)
         /\ f.num * (Threshold + 1) < TicksPerMicro * (Threshold + 2) * f.den
<1> DEFINE T == TicksPerMicro
           h == Threshold
           m == f.den
           x == f.num
<1>1. T \in Nat \ {0} /\ h \in Nat \ {0} /\ m \in Nat /\ x \in Nat
      /\ m > h /\ T * (m - 1) < x /\ x < T * (m + 1)
  BY Figures DEF Good
<1> HIDE DEF T, h, m, x
<1>2. T * h * m < x * (h + 1)
  <2>1. (T * (m - 1)) * (h + 1) < x * (h + 1)
    BY <1>1, Scaled
  <2>2. (T * (m - 1)) * (h + 1) = T * h * m + T * (m - h - 1)
    BY <1>1, SMT
  <2>3. T * (m - h - 1) \in Nat /\ T * h * m \in Nat /\ x * (h + 1) \in Nat
    <3>1. \A a, b \in Nat : a * b \in Nat
      BY SMT
    <3>2. m - h - 1 \in Nat /\ h + 1 \in Nat
      BY <1>1
    <3> QED
      BY <1>1, <3>1, <3>2
  <2> QED
    BY <2>1, <2>2, <2>3
<1>3. x * (h + 1) < T * (h + 2) * m
  <2>1. x * (h + 1) < (T * (m + 1)) * (h + 1)
    BY <1>1, Scaled
  <2>2. (T * (m + 1)) * (h + 1) = T * (h + 2) * m - T * (m - h - 1)
    BY <1>1, SMT
  <2>3. T * (m - h - 1) \in Nat /\ T * (h + 2) * m \in Nat /\ x * (h + 1) \in Nat
    <3>1. \A a, b \in Nat : a * b \in Nat
      BY SMT
    <3>2. m - h - 1 \in Nat /\ h + 1 \in Nat /\ h + 2 \in Nat
      BY <1>1
    <3> QED
      BY <1>1, <3>1, <3>2
  <2> QED
    BY <2>1, <2>2, <2>3
<1> QED
  BY <1>2, <1>3 DEF T, h, m, x

Right(f) ==
  /\ Less(Frac(TicksPerMicro * Threshold * Tolerance,
               (Threshold + 1) * (Tolerance + 1)), f)
  /\ Less(f, Frac(TicksPerMicro * (Threshold + 2) * Tolerance,
                  (Threshold + 1) * (Tolerance - 1)))

(* A good measurement is right by itself, *)
LEMMA GoodIsRight ==
  ASSUME NEW f, f.num \in Nat, f.den \in Nat, Good(f)
  PROVE  Right(f)
<1> DEFINE T == TicksPerMicro
           h == Threshold
           t == Tolerance
           m == f.den
           x == f.num
           a == T * h * m
           b == x * (h + 1)
           c == T * (h + 2) * m
<1>1. T \in Nat /\ h \in Nat /\ t \in Nat \ {0} /\ m \in Nat /\ x \in Nat
  BY Figures
<1>2. a < b /\ b < c
  BY GoodBounds
<1>3. a \in Nat /\ b \in Nat /\ c \in Nat
  <2>1. \A i, j \in Nat : i * j \in Nat
    BY SMT
  <2>2. h + 1 \in Nat /\ h + 2 \in Nat
    BY <1>1
  <2> QED
    BY <1>1, <2>1, <2>2
<1> HIDE DEF T, h, t, m, x
<1>4. (T * h * t) * m < x * ((h + 1) * (t + 1))
  <2>1. a * t < b * (t + 1)
    <3> HIDE DEF a, b
    <3> QED
      BY <1>1, <1>2, <1>3, ScaledApart
  <2>2. a * t = (T * h * t) * m /\ b * (t + 1) = x * ((h + 1) * (t + 1))
    BY <1>1, SMT
  <2> QED
    BY <2>1, <2>2
<1>5. x * ((h + 1) * (t - 1)) < (T * (h + 2) * t) * m
  <2>1. b * (t - 1) < c * ((t - 1) + 1)
    <3>1. t - 1 \in Nat
      BY <1>1
    <3> HIDE DEF b, c
    <3> QED
      BY <1>2, <1>3, <3>1, ScaledApart
  <2>2. b * (t - 1) = x * ((h + 1) * (t - 1))
    BY <1>1, SMT
  <2>3. c * ((t - 1) + 1) = (T * (h + 2) * t) * m
    BY <1>1, SMT
  <2> QED
    BY <2>1, <2>2, <2>3
<1> QED
  BY <1>4, <1>5 DEF Right, Less, Frac, T, h, t, m, x

(* and so is any other that agrees with it. *)
LEMMA AgreedIsRight ==
  ASSUME NEW f, f.num \in Nat, f.den \in Nat \ {0},
         NEW g, g.num \in Nat, g.den \in Nat \ {0},
         Good(g), Agree(g, f)
  PROVE  Right(f)
<1> DEFINE T == TicksPerMicro
           h == Threshold
           t == Tolerance
           m == f.den
           x == f.num
           n == g.den
           y == g.num
<1>1. /\ T \in Nat /\ h \in Nat /\ t \in Nat \ {0}
      /\ m \in Nat \ {0} /\ x \in Nat /\ n \in Nat \ {0} /\ y \in Nat
  BY Figures
<1>2. /\ T * h * n < y * (h + 1)
      /\ y * (h + 1) < T * (h + 2) * n
  BY GoodBounds
<1>3. /\ (x * (t - 1)) * n < y * (m * t)
      /\ y * (m * t) < (x * (t + 1)) * n
  BY DEF Agree, Less, Frac
<1> HIDE DEF T, h, t, m, x, n, y
<1>4. /\ m * t \in Nat \ {0} /\ h + 1 \in Nat \ {0} /\ h + 2 \in Nat
      /\ t - 1 \in Nat /\ t + 1 \in Nat
  BY <1>1, Positive
<1>5. \A i, j \in Nat : i * j \in Nat
  BY SMT
<1>6. /\ T * h * n \in Nat /\ y * (h + 1) \in Nat /\ T * (h + 2) * n \in Nat
      /\ (x * (t - 1)) * n \in Nat /\ y * (m * t) \in Nat
      /\ (x * (t + 1)) * n \in Nat
  BY <1>1, <1>4, <1>5
<1>7. (T * h * t) * m < x * ((h + 1) * (t + 1))
  <2>1. (T * h * n) * (m * t) < (y * (h + 1)) * (m * t)
    BY <1>2, <1>4, <1>6, Scaled
  <2>2. (y * (m * t)) * (h + 1) < ((x * (t + 1)) * n) * (h + 1)
    BY <1>3, <1>4, <1>6, Scaled
  <2>3. (y * (h + 1)) * (m * t) = (y * (m * t)) * (h + 1)
    BY <1>1, SMT
  <2>4. (T * h * n) * (m * t) = ((T * h * t) * m) * n
    BY <1>1, SMT
  <2>5. ((x * (t + 1)) * n) * (h + 1) = (x * ((h + 1) * (t + 1))) * n
    BY <1>1, SMT
  <2>6. /\ ((T * h * t) * m) * n \in Nat /\ (y * (m * t)) * (h + 1) \in Nat
        /\ (x * ((h + 1) * (t + 1))) * n \in Nat
        /\ (T * h * t) * m \in Nat /\ x * ((h + 1) * (t + 1)) \in Nat
    BY <1>1, <1>4, <1>5
  <2>7. ((T * h * t) * m) * n < (x * ((h + 1) * (t + 1))) * n
    BY <2>1, <2>2, <2>3, <2>4, <2>5, <2>6
  <2> QED
    BY <1>1, <2>6, <2>7, Scaled
<1>8. x * ((h + 1) * (t - 1)) < (T * (h + 2) * t) * m
  <2>1. ((x * (t - 1)) * n) * (h + 1) < (y * (m * t)) * (h + 1)
    BY <1>3, <1>4, <1>6, Scaled
  <2>2. (y * (h + 1)) * (m * t) < (T * (h + 2) * n) * (m * t)
    BY <1>2, <1>4, <1>6, Scaled
  <2>3. (y * (h + 1)) * (m * t) = (y * (m * t)) * (h + 1)
    BY <1>1, SMT
  <2>4. ((x * (t - 1)) * n) * (h + 1) = (x * ((h + 1) * (t - 1))) * n
    BY <1>1, SMT
  <2>5. (T * (h + 2) * n) * (m * t) = ((T * (h + 2) * t) * m) * n
    BY <1>1, SMT
  <2>6. /\ (x * ((h + 1) * (t - 1))) * n \in Nat
        /\ (y * (m * t)) * (h + 1) \in Nat
        /\ ((T * (h + 2) * t) * m) * n \in Nat
        /\ x * ((h + 1) * (t - 1)) \in Nat /\ (T * (h + 2) * t) * m \in Nat
    BY <1>1, <1>4, <1>5
  <2>7. (x * ((h + 1) * (t - 1))) * n < ((T * (h + 2) * t) * m) * n
    BY <2>1, <2>2, <2>3, <2>4, <2>5, <2>6
  <2> QED
    BY <1>1, <2>6, <2>7, Scaled
<1> QED
  BY <1>7, <1>8 DEF Right, Less, Frac, T, h, t, m, x

-----------------------------------------------------------------------------
(* The steps *)

LEMMA MicrosType ==
  ASSUME TypeOK
  PROVE  Micros(startTime, stopTime) \in 0 .. Modulus - 1
<1>1. /\ startTime.usec \in Int /\ startTime.sec = 0
      /\ stopTime.usec \in Int /\ stopTime.sec \in Int
  BY DEF TypeOK
<1>2. (stopTime.usec - startTime.usec)
        + (stopTime.sec - startTime.sec) * MicrosPerSec \in Int
  BY <1>1, Figures
<1> QED
  BY <1>2, Figures, DivMod DEF Micros

(* What init computes from an undisturbed measurement; the difference has  *)
(* not wrapped.                                                            *)
LEMMA Measured ==
  ASSUME TypeOK, Timed, pc = "stopCycles", ~spoilt,
         NEW m, m = Micros(startTime, stopTime)
  PROVE  TicksPerMicro * (m - 1) < tsc /\ tsc < TicksPerMicro * (m + 1)
<1> DEFINE T == TicksPerMicro
           u == TimeOfDay(clock)
           e == u.usec + u.sec * MicrosPerSec - startTime.usec
<1>1. /\ T \in Nat \ {0} /\ clock \in Int /\ tsc \in Nat /\ tsc > 0
      /\ delays \in 0 .. MaxDelays
      /\ startTime.usec \in Nat /\ startTime.sec = 0 /\ stopTime = u
  BY Figures DEF TypeOK, Timed
<1>2. /\ u.usec \in Nat /\ u.sec \in Int
      /\ clock - T * (u.usec + u.sec * MicrosPerSec) \in 0 .. T - 1
  BY <1>1, TimeIsCut, Figures
<1>3. clock - tsc - T * startTime.usec \in 0 .. T - 1
  BY DEF Timed
<1> HIDE DEF T, u
<1>4. u.sec * MicrosPerSec \in Int
  BY <1>2, Figures
<1>5. e \in Int /\ T * e = T * (u.usec + u.sec * MicrosPerSec) - T * startTime.usec
  BY <1>1, <1>2, <1>4, SMT
<1>6. T * e < tsc + T /\ tsc - T < T * e
  <2>1. T * (u.usec + u.sec * MicrosPerSec) \in Int /\ T * startTime.usec \in Int
    BY <1>1, <1>2, <1>4
  <2> HIDE DEF e
  <2> QED
    BY <1>1, <1>2, <1>3, <1>5, <2>1
<1>7. (stopTime.usec - startTime.usec) + (stopTime.sec - startTime.sec) * MicrosPerSec = e
  <2>1. u.sec - 0 = u.sec
    BY <1>2
  <2> QED
    BY <1>1, <1>2, <1>4, <2>1
<1> HIDE DEF e
<1>8. T * e \in Int /\ e * T = T * e
  BY <1>1, <1>5, SMT
<1>9. e >= 0
  <2>1. (-1) * T < e * T
    BY <1>1, <1>6, <1>8
  <2>2. -1 < e
    BY <1>1, <1>5, <2>1, Scaled
  <2> QED
    BY <1>5, <2>2
<1>10. e < Modulus
  <2>1. tsc <= T * (Threshold + 1) + Longest * (delays + 1)
    BY DEF Timed, T
  <2>2. Longest * (delays + 1) <= Longest * (MaxDelays + 1)
    <3>1. (delays + 1) * Longest <= (MaxDelays + 1) * Longest
      BY <1>1, LongestFits, Figures, ScaledUpTo
    <3> QED
      BY <1>1, <3>1, LongestFits, Figures
  <2>3. T * (Threshold + 2) = T * (Threshold + 1) + T
    BY <1>1, Figures, SMT
  <2>4. T * (Threshold + 2) + Longest * (MaxDelays + 1) <= T * Modulus
    BY LongestFits DEF T
  <2>5. /\ T * (Threshold + 1) \in Int /\ Longest * (delays + 1) \in Int
        /\ Longest * (MaxDelays + 1) \in Int /\ T * Modulus \in Int
    BY <1>1, Figures, LongestFits
  <2>6. T * e < T * Modulus
    BY <1>1, <1>6, <1>8, <2>1, <2>2, <2>3, <2>4, <2>5
  <2>7. e * T < Modulus * T
    BY <1>1, <1>8, <2>6, Figures
  <2> QED
    BY <1>1, <1>5, <2>7, Figures, Scaled
<1>11. m = e
  <2>1. e \in 0 .. Modulus - 1
    BY <1>5, <1>9, <1>10, Figures
  <2> QED
    BY <1>7, <2>1, Figures, SmallMod DEF Micros
<1>12. T * (m - 1) = T * e - T /\ T * (m + 1) = T * e + T
  BY <1>1, <1>5, <1>11, SMT
<1> QED
  BY <1>1, <1>6, <1>8, <1>12 DEF T

LEMMA Initially == Init => CInv
<1> SUFFICES ASSUME Init PROVE CInv
  OBVIOUS
<1>1. clock \in Int
  BY Figures DEF Init
<1>2. Modulus > 1
  BY ModulusIsLarger, Figures
<1>3. TypeOK
  <2>1. Zero \in [num : Nat, den : 1 .. Modulus - 1]
    BY <1>2, Figures DEF Zero, Frac
  <2>2. /\ startTime = [sec |-> 0, usec |-> 0] /\ stopTime = startTime
        /\ 0 \in 0 .. MicrosPerSec - 1
    BY Figures DEF Init
  <2>3. /\ startTime \in [sec : {0}, usec : 0 .. MicrosPerSec - 1]
        /\ stopTime \in [sec : Int, usec : 0 .. MicrosPerSec - 1]
    BY <2>2
  <2>4. /\ pc = "idle" /\ tsc \in Nat
        /\ cyclesPerSec = Zero /\ oldCycles = Zero
        /\ spoilt = FALSE /\ oldSpoilt = FALSE
    BY DEF Init
  <2>5. /\ calls \in 0 .. MaxCalls /\ delays \in 0 .. MaxDelays
        /\ clockSteps \in 0 .. MaxClockSteps
    BY Figures DEF Init
  <2> QED
    BY <1>1, <2>1, <2>3, <2>4, <2>5 DEF TypeOK
<1> QED
  BY <1>3 DEF Init, CInv, CalledOnce, Timed, Remembered, OneGoodIsEnough, Returned

LEMMA CallStep ==
  ASSUME CInv, Call PROVE CInv'
<1> USE DEF CInv
<1>1. /\ pc = "idle" /\ calls \in Nat /\ calls < MaxCalls
      /\ calls' = calls + 1 /\ oldCycles' = Zero /\ oldSpoilt' = TRUE
      /\ pc' = IF NeedsCalibration THEN "startTime" ELSE "idle"
      /\ UNCHANGED <<clock, tsc, startTime, stopTime, cyclesPerSec, delays,
                     clockSteps, spoilt>>
  BY DEF Call, TypeOK, readVars, worldVars
<1>2. calls > 0 => pc' = "idle"
  <2> SUFFICES ASSUME calls > 0 PROVE ~NeedsCalibration
    BY <1>1
  <2>1. cyclesPerSec.den > Threshold
    BY <1>1 DEF CalledOnce, Returned
  <2> QED
    BY <2>1, Figures DEF NeedsCalibration, Zero, Frac
<1>3. calls = 0 => pc' = "startTime"
  BY <1>1 DEF CalledOnce, NeedsCalibration
<1>4. TypeOK'
  <2>1. Zero \in [num : Nat, den : 1 .. Modulus - 1]
    BY ModulusIsLarger, Figures DEF Zero, Frac
  <2>2. calls' \in 0 .. MaxCalls /\ pc' \in {"idle", "startTime"}
    BY <1>1, Figures
  <2> QED
    BY <1>1, <2>1, <2>2 DEF TypeOK
<1>5. CalledOnce'
  BY <1>1, <1>2, <1>3 DEF CalledOnce, Returned
<1>6. Timed' /\ Remembered'
  BY <1>1 DEF Timed, Remembered
<1>7. OneGoodIsEnough'
  BY <1>1, <1>2, <1>3 DEF OneGoodIsEnough, Returned
<1> QED
  BY <1>4, <1>5, <1>6, <1>7

LEMMA ReadStartTimeStep ==
  ASSUME CInv, ReadStartTime PROVE CInv'
<1> USE DEF CInv
<1>1. /\ pc = "startTime" /\ pc' = "startCycles" /\ clock \in Int
      /\ startTime' = [TimeOfDay(clock) EXCEPT !.sec = 0]
      /\ clock' = clock % MicrosPerTurn /\ spoilt' = FALSE
      /\ UNCHANGED <<tsc, stopTime, cyclesPerSec, oldCycles, calls, delays,
                     clockSteps, oldSpoilt>>
  BY DEF ReadStartTime, TypeOK, resultVars, worldVars
<1>2. LET u == TimeOfDay(clock)
      IN  /\ startTime' = [sec |-> 0, usec |-> u.usec]
          /\ u.usec \in 0 .. MicrosPerSec - 1
          /\ clock' \in Nat
          /\ clock' - TicksPerMicro * u.usec \in 0 .. TicksPerMicro - 1
  BY <1>1, TimeIsCut
<1>3. TypeOK'
  <2>1. /\ startTime' \in [sec : {0}, usec : 0 .. MicrosPerSec - 1]
        /\ clock' \in Int
    BY <1>2
  <2> QED
    BY <1>1, <2>1 DEF TypeOK
<1>4. CalledOnce' /\ Remembered' /\ OneGoodIsEnough'
  BY <1>1 DEF CalledOnce, Remembered, OneGoodIsEnough, Returned
<1>5. Timed'
  BY <1>1, <1>2 DEF Timed
<1> QED
  BY <1>3, <1>4, <1>5

LEMMA ReadStartCyclesStep ==
  ASSUME CInv, ReadStartCycles PROVE CInv'
<1> USE DEF CInv
<1>1. PICK d \in LoopTicks : clock' = clock + d /\ tsc' = d
  BY DEF ReadStartCycles
<1>2. /\ pc = "startCycles" /\ pc' = "stopTime" /\ clock \in Int
      /\ startTime.usec \in Nat /\ delays \in 0 .. MaxDelays
      /\ UNCHANGED <<startTime, stopTime, cyclesPerSec, oldCycles, calls, delays,
                     clockSteps, spoilt, oldSpoilt>>
  BY DEF ReadStartCycles, TypeOK, readVars, resultVars, worldVars
<1>3. d \in Nat \ {0} /\ d <= Longest /\ Longest \in Nat
  BY Figures, LongestFits
<1>4. TypeOK'
  BY <1>1, <1>2, <1>3 DEF TypeOK
<1>5. CalledOnce' /\ Remembered' /\ OneGoodIsEnough'
  BY <1>2 DEF CalledOnce, Remembered, OneGoodIsEnough, Returned
<1>6. Timed'
  <2>1. d <= TicksPerMicro * (Threshold + 1) + Longest * (delays + 1)
    <3>1. TicksPerMicro * (Threshold + 1) \in Nat
      BY Figures, Positive
    <3>2. Longest * (delays + 1) = Longest * delays + Longest
      BY <1>2, <1>3, Figures, SMT
    <3>3. \A a, b \in Nat : a * b \in Nat
      BY SMT
    <3>4. Longest * delays \in Nat
      BY <1>2, <1>3, <3>3, Figures
    <3> QED
      BY <1>3, <3>1, <3>2, <3>4
  <2>2. ~spoilt => clock - TicksPerMicro * startTime.usec \in 0 .. TicksPerMicro - 1
    BY <1>2 DEF Timed
  <2>3. clock' - tsc' = clock
    BY <1>1, <1>2, <1>3
  <2> QED
    BY <1>1, <1>2, <1>3, <2>1, <2>2, <2>3 DEF Timed
<1> QED
  BY <1>4, <1>5, <1>6

LEMMA ReadStopTimeStep ==
  ASSUME CInv, ReadStopTime PROVE CInv'
<1> USE DEF CInv
<1>1. /\ pc = "stopTime" /\ pc' = "stopCycles" /\ clock \in Int
      /\ stopTime' = TimeOfDay(clock)
      /\ UNCHANGED <<clock, tsc, startTime, cyclesPerSec, oldCycles, calls,
                     delays, clockSteps, spoilt, oldSpoilt>>
  BY DEF ReadStopTime, TypeOK, resultVars, worldVars
<1>2. stopTime' \in [sec : Int, usec : 0 .. MicrosPerSec - 1]
  BY <1>1, TimeIsCut
<1>3. TypeOK'
  BY <1>1, <1>2 DEF TypeOK
<1>4. CalledOnce' /\ Remembered' /\ OneGoodIsEnough'
  BY <1>1 DEF CalledOnce, Remembered, OneGoodIsEnough, Returned
<1>5. Timed'
  BY <1>1 DEF Timed
<1> QED
  BY <1>3, <1>4, <1>5

LEMMA ReadStopCyclesStep ==
  ASSUME CInv, ReadStopCycles PROVE CInv'
<1> USE DEF CInv
<1> DEFINE m == Micros(startTime, stopTime)
           new == Frac(tsc, m)
<1>1. /\ pc = "stopCycles" /\ clock \in Int /\ tsc \in Nat /\ tsc > 0
      /\ calls = 1 /\ delays \in 0 .. MaxDelays /\ startTime.usec \in Nat
      /\ spoilt \in BOOLEAN /\ oldSpoilt \in BOOLEAN
      /\ UNCHANGED <<startTime, stopTime, calls, delays, clockSteps, spoilt>>
  BY DEF ReadStopCycles, TypeOK, CalledOnce, Timed, readVars, worldVars
<1>2. m \in 0 .. Modulus - 1
  BY MicrosType
<1>3. ~spoilt => TicksPerMicro * (m - 1) < tsc /\ tsc < TicksPerMicro * (m + 1)
  BY <1>1, Measured
<1>4. \/ /\ ~LongEnough(m)
         /\ pc' = "stopTime"
         /\ \E d \in LoopTicks : Pass(d)
         /\ UNCHANGED <<cyclesPerSec, oldCycles, oldSpoilt>>
      \/ /\ LongEnough(m) /\ Agree(oldCycles, new)
         /\ pc' = "idle"
         /\ cyclesPerSec' = new
         /\ UNCHANGED <<clock, tsc, oldCycles, oldSpoilt>>
      \/ /\ LongEnough(m) /\ ~Agree(oldCycles, new)
         /\ pc' = "startTime"
         /\ cyclesPerSec' = new
         /\ oldCycles' = new
         /\ oldSpoilt' = spoilt
         /\ \E d \in LoopTicks : Pass(d)
  BY DEF ReadStopCycles, resultVars, Remember
<1> HIDE DEF m
<1>5. new.num = tsc /\ new.den = m
  BY DEF Frac
<1>6. LongEnough(m) => /\ m > Threshold
                       /\ new \in [num : Nat, den : 1 .. Modulus - 1]
                       /\ ~spoilt => Good(new)
  BY <1>1, <1>2, <1>3, <1>5, Figures DEF LongEnough, Good, Frac
<1> HIDE DEF new
<1>7. CASE /\ ~LongEnough(m)
           /\ pc' = "stopTime"
           /\ \E d \in LoopTicks : Pass(d)
           /\ UNCHANGED <<cyclesPerSec, oldCycles, oldSpoilt>>
  <2>1. PICK d \in LoopTicks : clock' = clock + d /\ tsc' = tsc + d
    BY <1>7 DEF Pass
  <2>2. d \in Nat \ {0} /\ d <= Longest /\ Longest \in Nat
    BY Figures, LongestFits
  <2>3. TypeOK'
    BY <1>1, <1>7, <2>1, <2>2 DEF TypeOK
  <2>4. CalledOnce' /\ Remembered' /\ OneGoodIsEnough'
    BY <1>1, <1>7 DEF CalledOnce, Remembered, OneGoodIsEnough, Returned
  <2>5. ASSUME ~spoilt
        PROVE  tsc + d <= TicksPerMicro * (Threshold + 1) + Longest * (delays + 1)
    <3>1. m + 1 <= Threshold + 1
      BY <1>2, <1>7, Figures DEF LongEnough
    <3>2. (m + 1) * TicksPerMicro <= (Threshold + 1) * TicksPerMicro
      BY <1>2, <3>1, Figures, ScaledUpTo
    <3>3. /\ TicksPerMicro * (m + 1) = (m + 1) * TicksPerMicro
          /\ TicksPerMicro * (Threshold + 1) = (Threshold + 1) * TicksPerMicro
          /\ Longest * (delays + 1) = Longest * delays + Longest
      BY <1>1, <1>2, <2>2, Figures, SMT
    <3>4. \A a, b \in Nat : a * b \in Nat
      BY SMT
    <3>5. /\ Longest * delays \in Nat /\ (m + 1) * TicksPerMicro \in Nat
          /\ (Threshold + 1) * TicksPerMicro \in Nat
      BY <1>1, <1>2, <2>2, <3>4, Figures
    <3> QED
      BY <1>1, <1>3, <2>2, <2>5, <3>2, <3>3, <3>5
  <2>6. clock' - tsc' = clock - tsc
    BY <1>1, <2>1, <2>2
  <2>7. Timed'
    BY <1>1, <1>7, <2>1, <2>2, <2>5, <2>6 DEF Timed
  <2> QED
    BY <2>3, <2>4, <2>7
<1>8. CASE /\ LongEnough(m) /\ Agree(oldCycles, new)
           /\ pc' = "idle"
           /\ cyclesPerSec' = new
           /\ UNCHANGED <<clock, tsc, oldCycles, oldSpoilt>>
  <2>1. TypeOK'
    BY <1>1, <1>6, <1>8 DEF TypeOK
  <2>2. CalledOnce'
    BY <1>1, <1>5, <1>6, <1>8 DEF CalledOnce, Returned
  <2>3. Timed' /\ Remembered'
    BY <1>1, <1>8 DEF Timed, Remembered
  <2>4. ASSUME ~(spoilt /\ oldSpoilt) PROVE Right(new)
    <3>1. new.num \in Nat /\ new.den \in Nat \ {0}
      BY <1>2, <1>6, <1>8, Figures
    <3>2. oldCycles.num \in Nat /\ oldCycles.den \in Nat \ {0}
      BY Figures DEF TypeOK
    <3>3. ~spoilt => Good(new)
      BY <1>6, <1>8
    <3>4. ~oldSpoilt => Good(oldCycles)
      BY <1>1 DEF Remembered
    <3> QED
      BY <1>8, <2>4, <3>1, <3>2, <3>3, <3>4, GoodIsRight, AgreedIsRight
  <2>5. OneGoodIsEnough'
    BY <1>1, <1>8, <2>4 DEF OneGoodIsEnough, Right
  <2> QED
    BY <2>1, <2>2, <2>3, <2>5
<1>9. CASE /\ LongEnough(m) /\ ~Agree(oldCycles, new)
           /\ pc' = "startTime"
           /\ cyclesPerSec' = new
           /\ oldCycles' = new
           /\ oldSpoilt' = spoilt
           /\ \E d \in LoopTicks : Pass(d)
  <2>1. PICK d \in LoopTicks : clock' = clock + d /\ tsc' = tsc + d
    BY <1>9 DEF Pass
  <2>2. d \in Nat
    BY Figures
  <2>3. TypeOK'
    BY <1>1, <1>6, <1>9, <2>1, <2>2 DEF TypeOK
  <2>4. CalledOnce' /\ Timed' /\ OneGoodIsEnough'
    BY <1>1, <1>9 DEF CalledOnce, Timed, OneGoodIsEnough, Returned
  <2>5. Remembered'
    BY <1>6, <1>9 DEF Remembered
  <2> QED
    BY <2>3, <2>4, <2>5
<1> QED
  BY <1>4, <1>7, <1>8, <1>9

LEMMA PreemptedStep ==
  ASSUME CInv, NEW d \in Delays, Preempted(d) PROVE CInv'
<1> USE DEF CInv
<1>1. /\ pc \notin {"idle", "dead"} /\ clock \in Int /\ tsc \in Nat
      /\ delays \in 0 .. MaxDelays /\ delays < MaxDelays /\ delays' = delays + 1
      /\ clock' = clock + d /\ tsc' = tsc + d /\ startTime.usec \in Nat
      /\ spoilt' = (spoilt \/ pc \in {"startCycles", "stopCycles"})
      /\ UNCHANGED <<pc, startTime, stopTime, cyclesPerSec, oldCycles, calls,
                     clockSteps, oldSpoilt>>
  BY DEF Preempted, Pass, TypeOK, readVars, resultVars
<1>2. d \in Nat /\ d <= Longest /\ Longest \in Nat
  BY Figures, LongestFits
<1>3. TypeOK'
  <2>1. delays' \in 0 .. MaxDelays /\ clock' \in Int /\ tsc' \in Nat
    BY <1>1, <1>2, Figures
  <2>2. spoilt' \in BOOLEAN
    BY <1>1 DEF TypeOK
  <2> QED
    BY <1>1, <2>1, <2>2 DEF TypeOK
<1>4. CalledOnce' /\ Remembered' /\ OneGoodIsEnough'
  BY <1>1 DEF CalledOnce, Remembered, OneGoodIsEnough, Returned
<1>5. Timed'
  <2>1. pc \in {"stopTime", "stopCycles"} => tsc' > 0
    BY <1>1, <1>2 DEF Timed
  <2>2. ASSUME pc = "stopTime", ~spoilt'
        PROVE  /\ clock' - tsc' - TicksPerMicro * startTime.usec
                    \in 0 .. TicksPerMicro - 1
               /\ tsc' <= TicksPerMicro * (Threshold + 1) + Longest * (delays' + 1)
    <3>1. /\ clock - tsc - TicksPerMicro * startTime.usec \in 0 .. TicksPerMicro - 1
          /\ tsc <= TicksPerMicro * (Threshold + 1) + Longest * (delays + 1)
      BY <1>1, <2>2 DEF Timed
    <3>2. clock' - tsc' = clock - tsc
      BY <1>1, <1>2
    <3>3. Longest * (delays' + 1) = Longest * (delays + 1) + Longest
      BY <1>1, <1>2, SMT
    <3>4. TicksPerMicro * (Threshold + 1) \in Int /\ Longest * (delays + 1) \in Int
      BY <1>1, <1>2, Figures
    <3> QED
      BY <1>1, <1>2, <3>1, <3>2, <3>3, <3>4
  <2> QED
    BY <1>1, <2>1, <2>2 DEF Timed
<1> QED
  BY <1>3, <1>4, <1>5

LEMMA ClockSetStep ==
  ASSUME CInv, NEW s \in ClockSteps, ClockSet(s) PROVE CInv'
<1> USE DEF CInv
<1>1. /\ pc \notin {"idle", "dead"} /\ clock \in Int
      /\ clockSteps < MaxClockSteps /\ clockSteps' = clockSteps + 1
      /\ clock' = clock + s /\ spoilt' = TRUE
      /\ UNCHANGED <<pc, tsc, startTime, stopTime, cyclesPerSec, oldCycles,
                     calls, delays, oldSpoilt>>
  BY DEF ClockSet, TypeOK, readVars, resultVars
<1>2. TypeOK'
  <2>1. clockSteps' \in 0 .. MaxClockSteps /\ clock' \in Int
    BY <1>1, Figures DEF TypeOK
  <2> QED
    BY <1>1, <2>1 DEF TypeOK
<1>3. CalledOnce' /\ Timed' /\ Remembered' /\ OneGoodIsEnough'
  BY <1>1 DEF CalledOnce, Timed, Remembered, OneGoodIsEnough, Returned
<1> QED
  BY <1>2, <1>3

LEMMA ClockUnreadableStep ==
  ASSUME CInv, ClockUnreadable PROVE CInv'
<1>1. /\ pc \in {"startTime", "stopTime"} /\ pc' = "dead"
      /\ UNCHANGED <<clock, tsc, startTime, stopTime, cyclesPerSec, oldCycles,
                     calls, delays, clockSteps, spoilt, oldSpoilt>>
  BY DEF ClockUnreadable, readVars, resultVars, worldVars
<1> QED
  BY <1>1 DEF CInv, TypeOK, CalledOnce, Timed, Remembered, OneGoodIsEnough, Returned

LEMMA Unchanged == CInv /\ UNCHANGED vars => CInv'
  BY DEF CInv, TypeOK, CalledOnce, Timed, Remembered, Good, OneGoodIsEnough,
         Returned, vars, readVars, resultVars, worldVars

LEMMA Step == CInv /\ [Next]_vars => CInv'
  BY CallStep, ReadStartTimeStep, ReadStartCyclesStep, ReadStopTimeStep,
     ReadStopCyclesStep, PreemptedStep, ClockSetStep, ClockUnreadableStep, Unchanged
     DEF Next, init, Finished

THEOREM CalibrationInvariance == Spec => []CInv
  BY Initially, Step, PTL DEF Spec

(* The variables keep their types: in particular, micros never wraps to 0  *)
(* where something is divided by it.                                       *)
THEOREM CalibrationTypeCorrect == Spec => []TypeOK
<1>1. CInv => TypeOK
  BY DEF CInv
<1> QED
  BY <1>1, CalibrationInvariance, PTL

(***************************************************************************)
(* The frequency that init returns with is right up to a microsecond for   *)
(* each reading and the tolerance, if one of the two measurements that     *)
(* agreed was undisturbed: whatever the other was, for any clocks, delays  *)
(* and thresholds.                                                         *)
(***************************************************************************)
THEOREM OneGoodMeasurementSuffices == Spec => []OneGoodIsEnough
<1>1. CInv => OneGoodIsEnough
  BY DEF CInv
<1> QED
  BY <1>1, CalibrationInvariance, PTL

(* init does not change a frequency that an earlier call has found.        *)
THEOREM SecondCallChangesNothing == Spec => FrequencySettled
<1>1. CInv /\ [Next]_vars => [calls > 1 => UNCHANGED cyclesPerSec]_vars
  <2> SUFFICES ASSUME CInv, Next, calls > 1 PROVE UNCHANGED cyclesPerSec
    OBVIOUS
  <2>1. pc = "idle"
    BY DEF CInv, CalledOnce
  <2> QED
    BY <2>1 DEF Next, init, Call, ReadStartTime, ReadStartCycles, ReadStopTime,
         ReadStopCycles, ClockUnreadable, Finished, Preempted, ClockSet, vars,
         resultVars
<1> QED
  BY <1>1, CalibrationInvariance, PTL DEF Spec, FrequencySettled

-----------------------------------------------------------------------------
(* CycleTimes: two roundings in a row *)

LEMMA Halved ==
  ASSUME NEW a \in Nat, NEW b \in Nat \ {0}, NEW r, r = Rounded(a, b)
  PROVE  r \in Nat /\ 2 * (b * r) - b <= 2 * a /\ 2 * a < 2 * (b * r) + b
<1> DEFINE d == 2 * b
           s == 2 * a + b
<1>1. d \in Nat \ {0} /\ s \in Int
  OBVIOUS
<1>2. s \div d \in Int /\ s % d \in 0 .. d - 1 /\ s = d * (s \div d) + (s % d)
  <2> HIDE DEF d, s
  <2> QED
    BY <1>1, DivMod
<1>3. r = s \div d
  BY DEF Rounded
<1>4. d * r = 2 * (b * r) /\ b * r \in Int
  BY <1>2, <1>3, SMT
<1>5. 2 * (b * r) - b <= 2 * a /\ 2 * a < 2 * (b * r) + b
  BY <1>2, <1>3, <1>4
<1>6. r >= 0
  <2>1. r \in Int /\ r * b = b * r
    BY <1>2, <1>3, SMT
  <2>2. (-1) * b < r * b
    BY <1>4, <1>5, <2>1
  <2>3. -1 < r
    BY <2>1, <2>2, Scaled
  <2> QED
    BY <2>1, <2>3
<1> QED
  BY <1>2, <1>3, <1>5, <1>6

(* A number that is none too large has to be the one. *)
LEMMA Within ==
  ASSUME NEW a \in Int, NEW b \in Int, NEW c \in Nat \ {0},
         c * (a - b) < c, c * (b - a) < c
  PROVE  a = b
<1>1. (a - b) * c < 1 * c /\ (b - a) * c < 1 * c
  BY SMT
<1>2. a - b < 1 /\ b - a < 1
  BY <1>1, Scaled
<1> QED
  BY <1>2

LEMMA ExactRounded ==
  ASSUME NEW a \in Nat, NEW b \in Nat \ {0}
  PROVE  Rounded(b * a, b) = a /\ Rounded(a * b, b) = a
<1> DEFINE r == Rounded(b * a, b)
<1>1. b * a \in Nat /\ a * b = b * a
  <2>1. \A i, k \in Nat : i * k \in Nat
    BY SMT
  <2> QED
    BY <2>1
<1>2. /\ r \in Nat /\ 2 * (b * r) - b <= 2 * (b * a)
      /\ 2 * (b * a) < 2 * (b * r) + b
  BY <1>1, Halved
<1> HIDE DEF r
<1>3. b * (r - a) = b * r - b * a /\ b * (a - r) = b * a - b * r /\ b * r \in Int
  BY <1>2, SMT
<1>4. b * (r - a) < b /\ b * (a - r) < b
  BY <1>1, <1>2, <1>3
<1>5. r = a
  BY <1>2, <1>4, Within
<1> QED
  BY <1>1, <1>5 DEF r

(* From one unit to another and back. *)
There(k, a, b) == Rounded(a * k, b)
Back(k, a, b) == Rounded(There(k, a, b) * b, a)

LEMMA ThereAndBack ==
  ASSUME NEW k \in Nat, NEW a \in Nat \ {0}, NEW b \in Nat \ {0}
  PROVE  /\ There(k, a, b) \in Nat /\ Back(k, a, b) \in Nat
         /\ 2 * (a * (Back(k, a, b) - k)) <= a + b
         /\ 2 * (a * (k - Back(k, a, b))) <= a + b
         /\ b <= a => Back(k, a, b) = k
<1> DEFINE y == There(k, a, b)
           z == Back(k, a, b)
<1>0. y = Rounded(a * k, b) /\ z = Rounded(y * b, a)
  BY DEF There, Back
<1> HIDE DEF y, z
<1>1. \A i, j \in Nat : i * j \in Nat
  BY SMT
<1>2. /\ a * k \in Nat /\ y \in Nat
      /\ 2 * (b * y) - b <= 2 * (a * k) /\ 2 * (a * k) < 2 * (b * y) + b
  BY <1>0, <1>1, Halved
<1>3. /\ y * b \in Nat /\ z \in Nat
      /\ 2 * (a * z) - a <= 2 * (y * b) /\ 2 * (y * b) < 2 * (a * z) + a
  BY <1>0, <1>1, <1>2, Halved
<1>4. /\ a * (z - k) = a * z - a * k /\ a * (k - z) = a * k - a * z
      /\ a * z \in Nat /\ b * y = y * b
  BY <1>1, <1>2, <1>3, SMT
<1>5. 2 * (a * (z - k)) <= a + b /\ 2 * (a * (k - z)) < a + b
  BY <1>2, <1>3, <1>4
<1>6. ASSUME b <= a PROVE z = k
  <2>1. CASE b < a
    <3>1. a * (z - k) < a /\ a * (k - z) < a
      BY <1>2, <1>4, <1>5, <2>1
    <3> QED
      BY <1>3, <3>1, Within
  <2>2. CASE b = a
    <3>1. y = k
      BY <1>0, <2>2, ExactRounded
    <3> QED
      BY <1>0, <2>2, <3>1, ExactRounded
  <2> QED
    BY <1>6, <2>1, <2>2
<1>7. 2 * (a * (k - z)) <= a + b
  BY <1>2, <1>3, <1>4, <1>5
<1> QED
  BY <1>2, <1>3, <1>5, <1>6, <1>7 DEF y, z

CallOK ==
  amount \in Nat /\ given \in 0 .. MaxFrequency /\ frequency \in 1 .. MaxFrequency

LEMMA CallsAreOK == TimesSpec => []CallOK
<1>1. MaxFrequency \in Nat \ {0} /\ MaxCycles \in Nat
  BY CycleTimesAssumption
<1>2. TimesInit => CallOK
  BY <1>1 DEF TimesInit, CallOK
<1>3. CallOK /\ [NextCall]_timesVars => CallOK'
  BY <1>1 DEF CallOK, NextCall, timesVars
<1> QED
  BY <1>2, <1>3, PTL DEF TimesSpec

LEMMA FrequencyMeant ==
  ASSUME CallOK
  PROVE  /\ Frequency(given) = Meant /\ Meant \in Nat \ {0}
         /\ NanosPerSec \in Nat \ {0} /\ NanosPerMicro \in Nat \ {0}
         /\ Frequency(0) = frequency /\ frequency \in Nat \ {0}
<1>1. NanosPerSec \in Nat \ {0} /\ NanosPerMicro \in Nat \ {0} /\ MaxFrequency \in Nat
  BY CycleTimesAssumption
<1>2. frequency \in Nat \ {0} /\ given \in Nat
  BY <1>1 DEF CallOK
<1> QED
  BY <1>1, <1>2 DEF Frequency, Meant

LEMMA TripsAreExact ==
  ASSUME CallOK
  PROVE  RoundTrip
<1> DEFINE f == Meant
           s == NanosPerSec
           ns == toNanoseconds(amount, given)
           cycles == fromNanoseconds(amount, given)
           back == fromNanoseconds(ns, given)
           there == toNanoseconds(cycles, given)
           Off(y) == IF y > amount THEN y - amount ELSE amount - y
<1>1. /\ Frequency(given) = f /\ f \in Nat \ {0} /\ s \in Nat \ {0}
      /\ amount \in Nat
  BY FrequencyMeant DEF CallOK
<1>2. /\ ns = Rounded(s * amount, f) /\ back = Rounded(ns * f, s)
      /\ cycles = Rounded(amount * f, s) /\ there = Rounded(s * cycles, f)
  BY <1>1 DEF toNanoseconds, fromNanoseconds
<1>3. fromSeconds(toSeconds(amount, given), given) = amount
  <2>1. fromSeconds(toSeconds(amount, given), given) = Rounded(amount * f, f)
    BY <1>1 DEF fromSeconds, toSeconds
  <2> QED
    BY <1>1, <2>1, ExactRounded
<1> HIDE DEF f, s, ns, cycles, back, there
<1>4. /\ ns \in Nat /\ back \in Nat
      /\ 2 * (s * (back - amount)) <= s + f /\ 2 * (s * (amount - back)) <= s + f
      /\ f <= s => back = amount
  <2>1. ns = There(amount, s, f) /\ back = Back(amount, s, f)
    BY <1>2 DEF There, Back
  <2> QED
    BY <1>1, <2>1, ThereAndBack
<1>5. /\ cycles \in Nat /\ there \in Nat
      /\ 2 * (f * (there - amount)) <= f + s /\ 2 * (f * (amount - there)) <= f + s
      /\ s <= f => there = amount
  <2>1. amount * f = f * amount
    BY <1>1, SMT
  <2>2. cycles = There(amount, f, s)
    BY <1>2, <2>1 DEF There
  <2>3. cycles \in Nat
    BY <1>1, <2>2, ThereAndBack
  <2>4. s * cycles = cycles * s
    BY <1>1, <2>3, SMT
  <2>5. there = Back(amount, f, s)
    BY <1>2, <2>2, <2>4 DEF Back
  <2> QED
    BY <1>1, <2>2, <2>5, ThereAndBack
<1>6. 2 * Off(back) * s <= f + s
  <2>1. /\ 2 * (back - amount) * s = 2 * (s * (back - amount))
        /\ 2 * (amount - back) * s = 2 * (s * (amount - back))
    BY <1>1, <1>4, SMT
  <2>2. CASE back > amount
    <3>1. Off(back) = back - amount
      BY <2>2
    <3> HIDE DEF Off
    <3> QED
      BY <1>1, <1>4, <2>1, <3>1
  <2>3. CASE ~(back > amount)
    <3>1. Off(back) = amount - back
      BY <2>3
    <3> HIDE DEF Off
    <3> QED
      BY <1>1, <1>4, <2>1, <3>1
  <2> QED
    BY <2>2, <2>3
<1>7. 2 * Off(there) * f <= f + s
  <2>1. /\ 2 * (there - amount) * f = 2 * (f * (there - amount))
        /\ 2 * (amount - there) * f = 2 * (f * (amount - there))
    BY <1>1, <1>5, SMT
  <2>2. CASE there > amount
    <3>1. Off(there) = there - amount
      BY <2>2
    <3> HIDE DEF Off
    <3> QED
      BY <1>1, <1>5, <2>1, <3>1
  <2>3. CASE ~(there > amount)
    <3>1. Off(there) = amount - there
      BY <2>3
    <3> HIDE DEF Off
    <3> QED
      BY <1>1, <1>5, <2>1, <3>1
  <2> QED
    BY <2>2, <2>3
<1>8. f >= s => there = amount
  BY <1>1, <1>5
<1> HIDE DEF Off
<1> QED
  BY <1>3, <1>4, <1>6, <1>7, <1>8
     DEF RoundTrip, Off, f, s, ns, cycles, back, there

LEMMA SleepersSee ==
  ASSUME CallOK
  PROVE  SleepIsSeen
<1> DEFINE f == Meant
           s == NanosPerSec
           m == NanosPerMicro
           ns == toNanoseconds(amount, given)
           us == ns \div m
<1>1. /\ Frequency(given) = f /\ f \in Nat \ {0} /\ s \in Nat \ {0}
      /\ m \in Nat \ {0} /\ amount \in Nat
      /\ Frequency(0) = frequency /\ frequency \in Nat \ {0}
  BY FrequencyMeant DEF CallOK
<1>2. \A i, j \in Nat : i * j \in Nat
  BY SMT
<1>3. ns = Rounded(s * amount, f)
  BY <1>1 DEF toNanoseconds
<1>4. toMicroseconds(amount, given) = us
  BY DEF toMicroseconds
<1>5. MicrosNotEarly
  <2> HIDE DEF f, s, m, ns
  <2>1. /\ s * amount \in Nat /\ ns \in Nat
        /\ 2 * (f * ns) - f <= 2 * (s * amount) /\ 2 * (s * amount) < 2 * (f * ns) + f
    BY <1>1, <1>2, <1>3, Halved
  <2>2. us \in Int /\ ns % m \in 0 .. m - 1 /\ ns = m * us + (ns % m)
    <3>1. ns \in Int
      BY <2>1
    <3> QED
      BY <1>1, <3>1, DivMod
  <2> HIDE DEF us
  <2> DEFINE t == 2 * us * m
  <2>3. t = 2 * (m * us) /\ m * us \in Int
    BY <1>1, <2>2, SMT
  <2>4. t \in Int /\ t - 1 <= 2 * ns - 1 /\ 2 * ns + 1 < t + 2 * m
    BY <1>1, <2>1, <2>2, <2>3
  <2> HIDE DEF t
  <2>5. /\ (t - 1) * f <= (2 * ns - 1) * f
        /\ (2 * ns + 1) * f < (t + 2 * m) * f
    BY <1>1, <2>1, <2>4, Scaled, ScaledUpTo
  <2>6. /\ (2 * ns - 1) * f = 2 * (f * ns) - f /\ (2 * ns + 1) * f = 2 * (f * ns) + f
        /\ 2 * s * amount = 2 * (s * amount)
    BY <1>1, <2>1, SMT
  <2>7. f * ns \in Nat /\ (t - 1) * f \in Int /\ (t + 2 * m) * f \in Int
    BY <1>1, <1>2, <2>1, <2>4
  <2>8. (t - 1) * f <= 2 * s * amount /\ 2 * s * amount < (t + 2 * m) * f
    BY <1>1, <2>1, <2>5, <2>6, <2>7
  <2> QED
    BY <1>4, <2>8 DEF MicrosNotEarly, t, f, s, m
<1>6. ASSUME frequency >= s
      PROVE  toMicroseconds(sleep(amount), 0) >= amount
  <2> DEFINE c == sleep(amount)
             k == m * amount
  <2>1. k \in Nat
    BY <1>1, <1>2
  <2>2. c = Rounded(k * frequency, s)
    BY <1>1 DEF sleep, fromNanoseconds
  <2>3. toMicroseconds(c, 0) = Rounded(s * c, frequency) \div m
    BY <1>1 DEF toMicroseconds, toNanoseconds
  <2> HIDE DEF c, s, m
  <2>4. c = There(k, frequency, s)
    <3>1. k * frequency = frequency * k
      BY <1>1, <2>1, SMT
    <3> QED
      BY <2>2, <3>1 DEF There
  <2> HIDE DEF k
  <2>5. c \in Nat
    BY <1>1, <2>1, <2>4, ThereAndBack
  <2>6. s * c = c * s
    BY <1>1, <2>5, SMT
  <2>7. Rounded(s * c, frequency) = k
    <3>1. Rounded(s * c, frequency) = Back(k, frequency, s)
      BY <2>4, <2>6 DEF Back
    <3>2. s <= frequency
      BY <1>1, <1>6 DEF s
    <3> QED
      BY <1>1, <2>1, <3>1, <3>2, ThereAndBack
  <2>8. k \div m = amount
    BY <1>1, SMT DEF k
  <2> QED
    BY <1>1, <2>3, <2>7, <2>8 DEF c
<1> QED
  BY <1>5, <1>6 DEF SleepIsSeen, s

(***************************************************************************)
(* Conversions there and back lose no more than one rounding, for every    *)
(* number of cycles and every frequency.                                   *)
(***************************************************************************)
THEOREM ConversionsRoundTrip == TimesSpec => []RoundTrip
<1>1. CallOK => RoundTrip
  BY TripsAreExact
<1> QED
  BY <1>1, CallsAreOK, PTL

(***************************************************************************)
(* toMicroseconds is not ahead of time, and who sleeps for some            *)
(* microseconds sees at least as many pass.                                *)
(***************************************************************************)
THEOREM SleepersSeeTheirTime == TimesSpec => []SleepIsSeen
<1>1. CallOK => SleepIsSeen
  BY SleepersSee
<1> QED
  BY <1>1, CallsAreOK, PTL

=============================================================================
