------------------------------ MODULE FileTime ------------------------------
(***************************************************************************)
(* The time formats of TimeMocker: a FILETIME is a 64-bit count of ticks   *)
(* of 100 ns in two unsigned halves, and the code computes with it as an   *)
(* i64.  The halves have 32 bits there, and any even number of values      *)
(* here, 2 * Sign.                                                         *)
(***************************************************************************)
EXTENDS Integers

CONSTANT Sign   \* the value of the top bit of a half, 2^31

ASSUME SignAssumption == Sign \in Nat \ {0}

Half == 2 * Sign

\* i64::MIN and i64::MAX.
MinTicks == -(Sign * Half)
MaxTicks == Sign * Half - 1
Int64 == MinTicks..MaxTicks

FileTimes == [low : 0..Half - 1, high : 0..Half - 1]

\* filetime_to_i64: the shift moves the top bit of the high half to the sign.
Ticks(ft) == (IF ft.high < Sign THEN ft.high ELSE ft.high - Half) * Half + ft.low

\* i64_to_filetime: the shift rounds down, the masks keep a half.
Halves(n) == [low |-> n % Half, high |-> (n \div Half) % Half]

\* Mutant: the sum of a release build, which wraps around.
WrappingSum(a, b) == ((a + b - MinTicks) % (Half * Half)) + MinTicks

\* i64::saturating_add.
SaturatingSum(a, b) ==
    CASE a + b > MaxTicks -> MaxTicks
      [] a + b < MinTicks -> MinTicks
      [] OTHER -> a + b

\* unix_micros_to_filetime_ticks: microseconds since 1970 to ticks since 1601,
\* None unless the product and the sum are both in i64.
UnixTicks(micros, epoch) == epoch + 10 * micros
UnixConverts(micros, epoch) == {10 * micros, UnixTicks(micros, epoch)} \subseteq Int64

\* FileTimeToSystemTime refuses a FILETIME with the top bit set.
HasSystemTime(ft) == ft.high < Sign
=============================================================================
