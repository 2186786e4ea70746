--------------------------- MODULE FileTimeProofs ---------------------------
(***************************************************************************)
(* Theorems about the time formats, for halves of any even size.           *)
(***************************************************************************)
EXTENDS FileTime, TLAPS

USE SignAssumption

\* A multiple of a positive number plus a remainder has that quotient and that
\* remainder.
LEMMA DivMod ==
    ASSUME NEW m \in Nat \ {0}, NEW q \in Int, NEW r \in 0..m - 1,
           NEW n \in Int, n = q * m + r
    PROVE  n \div m = q /\ n % m = r
<1>1. m \in Int /\ m > 0
    OBVIOUS
<1>2. n = m * (n \div m) + (n % m) /\ n \div m \in Int /\ n % m \in 0..m - 1
    BY <1>1
<1>3. \A a, b \in Int : a * m < (b + 1) * m => a <= b
  <2> SUFFICES ASSUME NEW a \in Int, NEW b \in Int, a > b PROVE a * m >= (b + 1) * m
      OBVIOUS
  <2>1. PICK k \in Nat : a = b + 1 + k
      BY a - b - 1 \in Nat
  <2>2. a * m = (b + 1) * m + k * m /\ k * m >= 0
      BY <2>1
  <2> QED BY <2>2
<1>4. (n \div m) * m < (q + 1) * m /\ q * m < ((n \div m) + 1) * m
    BY <1>2
<1>5. n \div m = q
    BY <1>2, <1>3, <1>4
<1> QED BY <1>2, <1>5

\* The remainder of a number that is one modulus below its remainder, or equal
\* to it.
LEMMA ModShift ==
    ASSUME NEW m \in Nat \ {0}, NEW r \in 0..m - 1, NEW q \in Int, q = r \/ q = r - m
    PROVE  q % m = r
<1>1. PICK k \in Int : q = k * m + r
  <2>1. q = 0 * m + r \/ q = (-1) * m + r
      OBVIOUS
  <2> QED BY <2>1
<1> QED BY <1>1, DivMod

LEMMA HalfPositive == Half \in Nat \ {0} /\ Sign \in Int /\ Sign > 0 /\ Half = 2 * Sign
BY DEF Half

\* The i64 of a pair of halves: the high one is a quotient between -Sign and
\* Sign - 1.
LEMMA TicksInRange ==
    ASSUME NEW q \in -Sign..Sign - 1, NEW r \in 0..Half - 1
    PROVE  q * Half + r \in Int64
<1>1. q + Sign \in Nat /\ Sign - 1 - q \in Nat
    BY HalfPositive
<1>2. (q + Sign) * Half >= 0 /\ (Sign - 1 - q) * Half >= 0
    BY <1>1, HalfPositive
<1>3. q * Half \in Int /\ Sign * Half \in Int
    BY HalfPositive
<1>4. (q + Sign) * Half = q * Half + Sign * Half
    BY HalfPositive
<1>5. (Sign - 1 - q) * Half = Sign * Half - Half - q * Half
    BY HalfPositive
<1> QED BY <1>2, <1>3, <1>4, <1>5, HalfPositive DEF Int64, MinTicks, MaxTicks

\* filetime_to_i64 never leaves i64, and i64_to_filetime takes its result back
\* to the same two halves.
THEOREM HalvesOfTicks ==
    ASSUME NEW ft \in FileTimes
    PROVE  Ticks(ft) \in Int64 /\ Halves(Ticks(ft)) = ft
<1> DEFINE h == ft.high
           r == ft.low
           q == IF h < Sign THEN h ELSE h - Half
<1>1. r \in 0..Half - 1 /\ h \in 0..Half - 1 /\ ft = [low |-> r, high |-> h]
    BY DEF FileTimes
<1>2. Ticks(ft) = q * Half + r
    BY DEF Ticks
<1>3. q \in -Sign..Sign - 1 /\ q \in Int /\ (q = h \/ q = h - Half)
    BY <1>1, HalfPositive
<1> HIDE DEF h, r, q
<1>4. Half \in Nat \ {0}
    BY HalfPositive
<1>5. q % Half = h
    BY <1>1, <1>3, <1>4, ModShift
<1>6. Ticks(ft) \in Int64
    BY <1>1, <1>2, <1>3, TicksInRange
<1>7. Ticks(ft) \in Int
    BY <1>1, <1>2, <1>3, HalfPositive
<1>8. Ticks(ft) \div Half = q /\ Ticks(ft) % Half = r
  <2> DEFINE n == Ticks(ft)
  <2>1. n \in Int /\ n = q * Half + r /\ q \in Int /\ r \in 0..Half - 1
      BY <1>1, <1>2, <1>3, <1>7
  <2> HIDE DEF n
  <2>2. n \div Half = q /\ n % Half = r
      BY <2>1, <1>4, DivMod
  <2> QED BY <2>2 DEF n
<1>9. Halves(Ticks(ft)) = [low |-> r, high |-> h]
    BY <1>5, <1>8 DEF Halves
<1> QED BY <1>1, <1>6, <1>9

\* The quotient of an i64 by Half is a signed half.
LEMMA QuotientRange ==
    ASSUME NEW n \in Int64
    PROVE  /\ n \div Half \in -Sign..Sign - 1
           /\ n % Half \in 0..Half - 1
           /\ n = (n \div Half) * Half + (n % Half)
<1>1. n \in Int /\ -(Sign * Half) <= n /\ n < Sign * Half
    BY HalfPositive DEF Int64, MinTicks, MaxTicks
<1>2. n \div Half \in Int /\ n % Half \in 0..Half - 1
      /\ n = (n \div Half) * Half + (n % Half)
    BY <1>1, HalfPositive
<1> DEFINE q == n \div Half
<1> HIDE DEF q
<1>3. q \in Int /\ n = q * Half + (n % Half)
    BY <1>2 DEF q
<1>4. q < Sign
  <2> SUFFICES ASSUME q >= Sign PROVE FALSE
      BY <1>3, HalfPositive
  <2>1. (q - Sign) * Half >= 0
      BY <1>3, HalfPositive, q - Sign \in Nat
  <2>2. (q - Sign) * Half = q * Half - Sign * Half
      BY <1>3, HalfPositive
  <2> QED BY <1>1, <1>2, <1>3, <2>1, <2>2, HalfPositive
<1>5. q >= -Sign
  <2> SUFFICES ASSUME q < -Sign PROVE FALSE
      BY <1>3, HalfPositive
  <2>1. (-Sign - 1 - q) * Half >= 0
      BY <1>3, HalfPositive, -Sign - 1 - q \in Nat
  <2>2. (-Sign - 1 - q) * Half = -(Sign * Half) - Half - q * Half
      BY <1>3, HalfPositive
  <2> QED BY <1>1, <1>2, <1>3, <2>1, <2>2, HalfPositive
<1> QED BY <1>2, <1>3, <1>4, <1>5, HalfPositive DEF q

\* i64_to_filetime loses nothing: filetime_to_i64 takes its halves back to the
\* same i64, negative or not.
THEOREM TicksOfHalves ==
    ASSUME NEW n \in Int64
    PROVE  Halves(n) \in FileTimes /\ Ticks(Halves(n)) = n
<1> DEFINE q == n \div Half
           r == n % Half
<1> HIDE DEF q, r
<1>1. q \in -Sign..Sign - 1 /\ r \in 0..Half - 1 /\ n = q * Half + r
    BY QuotientRange DEF q, r
<1>2. CASE q >= 0
  <2>1. q % Half = q
      BY <1>1, <1>2, ModShift, HalfPositive
  <2>2. Halves(n) = [low |-> r, high |-> q]
      BY <2>1 DEF Halves, q, r
  <2> QED BY <1>1, <1>2, <2>2, HalfPositive DEF FileTimes, Ticks
<1>3. CASE q < 0
  <2>1. q + Half \in 0..Half - 1 /\ (q + Half) - Half = q /\ ~(q + Half < Sign)
      BY <1>1, <1>3, HalfPositive
  <2>2. q % Half = q + Half
      BY <1>1, <2>1, ModShift, HalfPositive
  <2>3. Halves(n) = [low |-> r, high |-> q + Half]
      BY <2>2 DEF Halves, q, r
  <2> QED BY <1>1, <2>1, <2>3 DEF FileTimes, Ticks
<1> QED BY <1>1, <1>2, <1>3, HalfPositive

\* A FILETIME has a SYSTEMTIME exactly when its i64 is not negative.
LEMMA SystemTimeFromZero ==
    ASSUME NEW ft \in FileTimes
    PROVE  HasSystemTime(ft) <=> Ticks(ft) >= 0
<1>1. ft.low \in 0..Half - 1 /\ ft.high \in 0..Half - 1
    BY DEF FileTimes
<1>2. CASE ft.high < Sign
  <2>1. ft.high * Half >= 0
      BY <1>1, HalfPositive
  <2> QED BY <1>1, <1>2, <2>1, HalfPositive DEF Ticks, HasSystemTime
<1>3. CASE ~(ft.high < Sign)
  <2>1. Half - 1 - ft.high \in Nat
      BY <1>1, HalfPositive
  <2>2. (Half - 1 - ft.high) * Half >= 0
      BY <2>1, HalfPositive
  <2>3. (Half - 1 - ft.high) * Half + (ft.high - Half) * Half + Half = 0
      BY <1>1, HalfPositive
  <2> QED BY <1>1, <1>3, <2>2, <2>3, HalfPositive DEF Ticks, HasSystemTime
<1> QED BY <1>2, <1>3

LEMMA LimitsAreIntegers == MinTicks \in Int /\ MaxTicks \in Nat /\ MinTicks < 0
<1>1. Sign * Half \in Nat /\ Sign * Half > 0
    BY HalfPositive
<1> QED BY <1>1 DEF MinTicks, MaxTicks

\* saturating_add stays in i64, is the sum whenever that fits, and never turns
\* the order of two real times around: under one delta no hooked clock runs
\* backwards.
THEOREM SaturatingSumSound ==
    ASSUME NEW a \in Int64, NEW b \in Int64, NEW d \in Int64
    PROVE  /\ SaturatingSum(a, d) \in Int64
           /\ a + d \in Int64 => SaturatingSum(a, d) = a + d
           /\ a <= b => SaturatingSum(a, d) <= SaturatingSum(b, d)
BY LimitsAreIntegers DEF SaturatingSum, Int64

-----------------------------------------------------------------------------
(***************************************************************************)
(* The numbers of the code: the years 1970 to 2200, and halves that are    *)
(* large enough, as those of 32 bits are (Sign = 2147483648).              *)
(***************************************************************************)

Epoch == 116444736000000000

\* A time the picker can hold, in microseconds since 1970, with a day more at
\* either end for the time zone.
Supported(micros) ==
    micros \in Int /\ micros >= -86400000000 /\ micros <= 7289740800000000

LEMMA Product ==
    ASSUME NEW a \in Int, NEW b \in Int, NEW c \in Nat, a >= c, b >= c
    PROVE  a * b \in Int /\ a * b >= c * c
<1>1. PICK x \in Nat, y \in Nat : a = c + x /\ b = c + y
    BY a - c \in Nat, b - c \in Nat
<1>2. a * b = c * c + c * y + x * c + x * y /\ c * y >= 0 /\ x * c >= 0 /\ x * y >= 0
    BY <1>1
<1> QED BY <1>2

LEMMA LargeHalves ==
    ASSUME Sign >= 1000000000
    PROVE  /\ MaxTicks \in Int /\ MaxTicks >= 900000000000000000
           /\ MinTicks \in Int /\ MinTicks <= -900000000000000000
<1>1. Sign \in Int /\ Half \in Int /\ Half >= 1000000000 /\ 1000000000 \in Nat
    BY SMT DEF Half
<1>2. Sign * Half \in Int /\ Sign * Half >= 1000000000 * 1000000000
    BY <1>1, Product, SMT
<1> QED BY <1>2, SMT DEF MinTicks, MaxTicks

\* The two overflow messages of apply_fake_time are never shown for a time the
\* picker can hold.
THEOREM PickedTimesConvert ==
    ASSUME Sign >= 1000000000, NEW micros, Supported(micros)
    PROVE  UnixConverts(micros, Epoch)
<1>1. 10 * micros \in Int64
    BY LargeHalves, SMT DEF Int64, Supported
<1>2. UnixTicks(micros, Epoch) \in Int64
    BY LargeHalves, SMT DEF Int64, UnixTicks, Epoch, Supported
<1> QED BY <1>1, <1>2, SMT DEF UnixConverts

\* A delta made of two supported times, added to a real time that has gone on
\* since to any later supported time: the sum neither saturates nor lacks a
\* SYSTEMTIME, and is the picked time plus what has passed.
THEOREM PickedTimesShown ==
    ASSUME Sign >= 1000000000,
           NEW fake, Supported(fake), NEW real, Supported(real),
           NEW later, Supported(later), real <= later
    PROVE  LET delta == UnixTicks(fake, Epoch) - UnixTicks(real, Epoch)
               sum == SaturatingSum(UnixTicks(later, Epoch), delta) IN
           /\ sum = UnixTicks(fake + (later - real), Epoch)
           /\ HasSystemTime(Halves(sum))
<1> DEFINE delta == UnixTicks(fake, Epoch) - UnixTicks(real, Epoch)
           sum == SaturatingSum(UnixTicks(later, Epoch), delta)
           shown == UnixTicks(fake + (later - real), Epoch)
<1>1. UnixTicks(later, Epoch) + delta = shown
    BY SMT DEF Epoch, UnixTicks, Supported
<1>2. shown \in Int64 /\ shown >= 0
    BY LargeHalves, SMT DEF Epoch, UnixTicks, Int64, Supported
<1>3. sum = shown
    BY <1>1, <1>2, LargeHalves, SMT DEF SaturatingSum, Int64
<1>4. HasSystemTime(Halves(shown))
    BY <1>2, TicksOfHalves, SystemTimeFromZero, SMT
<1> QED BY <1>3, <1>4, SMT
=============================================================================
