--------------------------- MODULE HookDllProofs ---------------------------
(***************************************************************************)
(* Theorems about HookDll, for any number of threads and any deltas.       *)
(***************************************************************************)
EXTENDS HookDll, FileTimeProofs, TLAPS

USE HookAssumption

Hooks == {"GetSystemTime", "GetLocalTime", "GetSystemTimeAsFileTime",
          "GetSystemTimePreciseAsFileTime", "NtQuerySystemTime"}

\* The hooks are those of Order, one for each of its five places.
LEMMA FiveHooks == Apis = Hooks /\ \A k \in 1..5 : Order[k] \in Apis
<1>1. \A k \in 1..5 : Order[k] \in Apis
    BY DEF Apis
<1>2. Apis = {Order[1], Order[2], Order[3], Order[4], Order[5]}
    BY DEF Apis
<1>3. Apis = Hooks
    BY <1>2 DEF Order, Hooks
<1> QED BY <1>1, <1>3

\* The record of a call that has gone through the trampoline.
LEMMA TrampolineCall ==
    ASSUME NEW c \in Calls, NEW ft \in FileTimes
    PROVE  [c EXCEPT !.at = "after", !.real = ft] \in Calls
BY DEF Calls

\* The clock is an i64, and its halves a FILETIME.
LEMMA ClockHalves ==
    ASSUME NEW now \in 0..MaxClock
    PROVE  now \in Int64 /\ Halves(now) \in FileTimes /\ Ticks(Halves(now)) = now
<1>1. now \in Int64
    BY LimitsAreIntegers DEF Int64
<1> QED BY <1>1, TicksOfHalves

\* The fake time of a call is the saturating sum of what the trampoline
\* returned and the delta.
LEMMA FakeTimeTicks ==
    ASSUME TypeOK, NEW t \in Threads
    PROVE  /\ FakeTime(t) \in FileTimes
           /\ Ticks(FakeTime(t)) =
                 SaturatingSum(Ticks(call[t].real), IF shared THEN delta ELSE 0)
<1>1. Ticks(call[t].real) \in Int64
    BY HalvesOfTicks DEF TypeOK, Calls
<1>2. (IF shared THEN delta ELSE 0) \in Int64
    BY DEF TypeOK
<1> DEFINE sum == SaturatingSum(Ticks(call[t].real), IF shared THEN delta ELSE 0)
<1>3. sum \in Int64
    BY <1>1, <1>2, SaturatingSumSound
<1> QED BY <1>3, TicksOfHalves DEF FakeTime

LEMMA TrampolineStep ==
    ASSUME TypeOK, NEW t \in Threads, CallTrampoline(t)
    PROVE  call' \in [Threads -> Calls]
<1>1. call \in [Threads -> Calls] /\ Halves(clock) \in FileTimes
    BY ClockHalves DEF TypeOK
<1>2. [call[t] EXCEPT !.at = "after", !.real = Halves(clock)] \in Calls
    BY <1>1, TrampolineCall
<1> QED BY <1>1, <1>2 DEF CallTrampoline

LEMMA TypeStep == TypeOK /\ [Next]_vars => TypeOK'
<1> SUFFICES ASSUME TypeOK, [Next]_vars PROVE TypeOK'
    OBVIOUS
<1> USE FiveHooks DEF TypeOK, Calls, Outcomes, installVars
<1>1. CASE Install
  <2>1. CASE SetShared
      BY <2>1 DEF SetShared
  <2>2. CASE InitializeHook
      BY <2>2 DEF InitializeHook, Current
  <2>3. CASE EnableHook
      BY <2>3 DEF EnableHook, Current
  <2>4. CASE FailHook
      BY <2>4 DEF FailHook
  <2> QED BY <1>1, <2>1, <2>2, <2>3, <2>4 DEF Install
<1>2. ASSUME NEW t \in Threads, ThreadStep(t) PROVE TypeOK'
  <2>a. Halves(clock) \in FileTimes /\ FakeTime(t) \in FileTimes /\ last[t].time \in FileTimes
      BY ClockHalves, FakeTimeTicks
  <2>1. ASSUME NEW a \in Apis, CallReal(t, a) PROVE TypeOK'
      BY <2>a, <2>1 DEF CallReal, Finish
  <2>2. ASSUME NEW a \in Apis, EnterHook(t, a) PROVE TypeOK'
      BY <2>a, <2>2 DEF EnterHook
  <2>3. CASE CallTrampoline(t)
    <3>1. UNCHANGED <<installVars, delta, clock, aborted, last, seen>>
        BY <2>3 DEF CallTrampoline
    <3>2. call' \in [Threads -> Calls]
        BY <2>3, TrampolineStep
    <3> QED BY <3>1, <3>2
  <2>4. CASE PanicInHook(t)
      BY <2>4 DEF PanicInHook
  <2>5. CASE PassStatus(t) \/ FailConversion(t)
    <3>1. LeaveUnwritten(t) /\ UNCHANGED seen
        BY <2>5 DEF PassStatus, FailConversion
    <3>2. last' \in [Threads -> Outcomes]
        BY <2>a, <3>1 DEF LeaveUnwritten, Finish
    <3>3. call' \in [Threads -> Calls]
        BY <3>1 DEF LeaveUnwritten, Finish
    <3> QED BY <3>1, <3>2, <3>3 DEF LeaveUnwritten, Finish
  <2>6. CASE WriteTime(t)
      BY <2>a, <2>6 DEF WriteTime, Finish
  <2> QED BY <1>2, <2>1, <2>2, <2>3, <2>4, <2>5, <2>6 DEF ThreadStep
<1>3. ASSUME NEW d \in Deltas, SetDelta(d) PROVE TypeOK'
    BY <1>3 DEF SetDelta
<1>4. CASE Tick
    BY <1>4 DEF Tick
<1>5. CASE UNCHANGED vars
    BY <1>5 DEF vars
<1> QED BY <1>1, <1>2, <1>3, <1>4, <1>5 DEF Next

\* Every variable keeps its type.
THEOREM HookTypeInvariant == Spec => []TypeOK
<1>1. ASSUME Init PROVE TypeOK
  <2>1. [at |-> "out", api |-> Order[1], since |-> 0, real |-> Halves(0)] \in Calls
         /\ [how |-> "real", time |-> Halves(0)] \in Outcomes
      BY FiveHooks, ClockHalves DEF Calls, Outcomes
  <2>2. call \in [Threads -> Calls]
      BY <1>1, <2>1 DEF Init
  <2>3. last \in [Threads -> Outcomes]
      BY <1>1, <2>1 DEF Init
  <2>4. seen \in [Threads -> SUBSET Deltas]
      BY <1>1 DEF Init
  <2>5. detour \in [Apis -> {"none", "ready", "armed"}]
      BY <1>1 DEF Init
  <2>6. shared \in BOOLEAN /\ delta \in Deltas /\ aborted \in BOOLEAN
      BY <1>1 DEF Init
  <2>7. next \in 0..6
      BY <1>1 DEF Init
  <2>8. clock \in 0..MaxClock
      BY <1>1 DEF Init, HookAssumption
  <2> QED BY <2>2, <2>3, <2>4, <2>5, <2>6, <2>7, <2>8 DEF TypeOK
<1> QED BY <1>1, TypeStep, PTL DEF Spec

\* A thread is inside a hook only when the hook is armed.
InsideArmed == \A t \in Threads : call[t].at # "out" => detour[call[t].api] = "armed"

EarlyInv == InsideArmed /\ AbortOnlyEarly

LEMMA EarlyStep == TypeOK /\ EarlyInv /\ [Next]_vars => EarlyInv'
<1> SUFFICES ASSUME TypeOK, EarlyInv, [Next]_vars PROVE EarlyInv'
    OBVIOUS
<1> USE FiveHooks DEF TypeOK, Calls, EarlyInv, InsideArmed, AbortOnlyEarly, installVars
<1>1. CASE Install
  <2>1. \A a \in Apis : detour[a] = "armed" => detour'[a] = "armed"
      BY <1>1 DEF Install, SetShared, InitializeHook, EnableHook, FailHook, Current
  <2>2. ~aborted /\ UNCHANGED <<aborted, call>>
      BY <1>1 DEF Install, SetShared, InitializeHook, EnableHook, FailHook
  <2> QED BY <2>1, <2>2
<1>2. ASSUME NEW t \in Threads, ThreadStep(t) PROVE EarlyInv'
  <2>1. ASSUME NEW a \in Apis, CallReal(t, a) PROVE EarlyInv'
      BY <1>2, <2>1 DEF ThreadStep, CallReal, Finish
  <2>2. ASSUME NEW a \in Apis, EnterHook(t, a) PROVE EarlyInv'
      BY <1>2, <2>2 DEF ThreadStep, EnterHook
  <2>3. CASE CallTrampoline(t)
    <3>1. \A u \in Threads : call'[u].api = call[u].api
                              /\ (call'[u].at # "out" => call[u].at # "out")
        BY <2>3 DEF CallTrampoline
    <3> QED BY <1>2, <2>3, <3>1 DEF ThreadStep, CallTrampoline
  <2>4. CASE PassStatus(t) \/ WriteTime(t) \/ FailConversion(t)
      BY <1>2, <2>4 DEF ThreadStep, PassStatus, WriteTime, FailConversion, LeaveUnwritten, Finish
  <2>5. CASE PanicInHook(t)
    <3>1. detour[call[t].api] = "armed"
        BY <2>5 DEF PanicInHook
    <3>2. call[t].api \in {"GetSystemTime", "GetLocalTime"}
        BY <2>5, <3>1 DEF PanicInHook, Trampoline, SystemTimeApis
    <3> QED BY <2>5, <3>2 DEF PanicInHook, Trampoline, SystemTimeApis
  <2> QED BY <1>2, <2>1, <2>2, <2>3, <2>4, <2>5 DEF ThreadStep
<1>3. CASE (\E d \in Deltas : SetDelta(d)) \/ Tick \/ UNCHANGED vars
    BY <1>3 DEF SetDelta, Tick, vars
<1> QED BY <1>1, <1>2, <1>3 DEF Next

\* A call can abort the process only as long as the third hook is not
\* initialized.
THEOREM AbortsOnlyEarly == Spec => []AbortOnlyEarly
<1>1. Init => EarlyInv
    BY DEF Init, EarlyInv, InsideArmed, AbortOnlyEarly
<1> QED BY <1>1, HookTypeInvariant, EarlyStep, PTL DEF Spec, EarlyInv

\* Inside a call the delta in force is among those seen, the clock has not
\* gone back since the call began, and the hook has a reader to ask.
CallInForce ==
    /\ \A a \in Apis : detour[a] # "none" => shared
    /\ next > 0 => shared
    /\ \A t \in Threads :
          /\ call[t].since <= clock
          /\ call[t].at # "out" => delta \in seen[t]
          /\ call[t].at = "after" => Ticks(call[t].real) \in call[t].since..clock

TimeInv == CallInForce /\ HookedTimeInForce /\ UnwrittenBefore1601

LEMMA TimeStep == TypeOK /\ InsideArmed /\ TimeInv /\ [Next]_vars => TimeInv'
<1> SUFFICES ASSUME TypeOK, InsideArmed, TimeInv, [Next]_vars PROVE TimeInv'
    OBVIOUS
<1> USE FiveHooks DEF TypeOK, Calls, Outcomes, InsideArmed, TimeInv, CallInForce,
                      HookedTimeInForce, UnwrittenBefore1601, installVars
<1>1. CASE Install
  <2>1. UNCHANGED <<delta, clock, call, last, seen>>
      BY <1>1 DEF Install, SetShared, InitializeHook, EnableHook, FailHook
  <2>2. /\ \A a \in Apis : detour'[a] # "none" => shared'
        /\ next' > 0 => shared'
    <3>1. CASE SetShared
        BY <3>1 DEF SetShared
    <3>2. CASE InitializeHook
        BY <3>2 DEF InitializeHook, Current
    <3>3. CASE EnableHook
        BY <3>3 DEF EnableHook, Current
    <3>4. CASE FailHook
        BY <3>4 DEF FailHook
    <3> QED BY <1>1, <3>1, <3>2, <3>3, <3>4 DEF Install
  <2> QED BY <2>1, <2>2
<1>2. ASSUME NEW t \in Threads, ThreadStep(t) PROVE TimeInv'
  <2>1. ASSUME NEW a \in Apis, CallReal(t, a) PROVE TimeInv'
      BY <2>1 DEF CallReal, Finish
  <2>2. ASSUME NEW a \in Apis, EnterHook(t, a) PROVE TimeInv'
      BY <2>2 DEF EnterHook
  <2>3. CASE CallTrampoline(t)
      BY <2>3, ClockHalves DEF CallTrampoline
  <2>4. CASE PanicInHook(t)
      BY <2>4 DEF PanicInHook
  <2>5. CASE PassStatus(t)
      BY <2>5 DEF PassStatus, LeaveUnwritten, Finish
  <2>6. ASSUME WriteTime(t) \/ FailConversion(t)
        PROVE  /\ delta \in seen[t]
               /\ delta \in Int64
               /\ FakeTime(t) \in FileTimes
               /\ \E r \in call[t].since..clock : Ticks(FakeTime(t)) = SaturatingSum(r, delta)
    <3>1. call[t].at = "after"
        BY <2>6 DEF WriteTime, FailConversion
    <3>2. shared /\ delta \in seen[t] /\ Ticks(call[t].real) \in call[t].since..clock
        BY <3>1
    <3> QED BY <3>2, FakeTimeTicks
  <2>7. CASE WriteTime(t)
    <3>1. PICK r \in call[t].since..clock : Ticks(FakeTime(t)) = SaturatingSum(r, delta)
        BY <2>6, <2>7
    <3>2. {call[t].since, r, clock} \subseteq Int64 /\ call[t].since <= r /\ r <= clock
        BY <3>1, ClockHalves, LimitsAreIntegers DEF Int64
    <3>3. Ticks(FakeTime(t)) \in SaturatingSum(call[t].since, delta)..SaturatingSum(clock, delta)
        BY <2>6, <2>7, <3>1, <3>2, SaturatingSumSound, LimitsAreIntegers DEF Int64
    <3>4. call'[t].since = call[t].since /\ last'[t].time = FakeTime(t)
          /\ UNCHANGED <<installVars, delta, clock, seen>>
          /\ last'[t].how = "hooked" /\ call'[t].at = "out"
        BY <2>7 DEF WriteTime, Finish
    <3>5. \A u \in Threads \ {t} : call'[u] = call[u] /\ last'[u] = last[u]
        BY <2>7 DEF WriteTime, Finish
    <3>6. \E d \in seen'[t] :
             Ticks(last'[t].time) \in
                 SaturatingSum(call'[t].since, d)..SaturatingSum(clock', d)
        BY <2>6, <2>7, <3>3, <3>4
    <3> QED BY <3>4, <3>5, <3>6
  <2>8. CASE FailConversion(t)
    <3>1. PICK r \in call[t].since..clock : Ticks(FakeTime(t)) = SaturatingSum(r, delta)
        BY <2>6, <2>8
    <3>2. Ticks(FakeTime(t)) < 0
        BY <2>6, <2>8, SystemTimeFromZero, HalvesOfTicks
           DEF FailConversion, Unconvertible, Int64, FileTimes
    <3>3. call[t].since + delta < 0
        BY <2>6, <2>8, <3>1, <3>2, LimitsAreIntegers DEF SaturatingSum, Int64
    <3>4. call'[t].since = call[t].since /\ UNCHANGED <<installVars, delta, clock, seen>>
          /\ last'[t].how = "unwritten" /\ call'[t].at = "out"
        BY <2>8 DEF FailConversion, LeaveUnwritten, Finish
    <3>5. \A u \in Threads \ {t} : call'[u] = call[u] /\ last'[u] = last[u]
        BY <2>8 DEF FailConversion, LeaveUnwritten, Finish
    <3> QED BY <2>6, <2>8, <3>3, <3>4, <3>5
  <2> QED BY <1>2, <2>1, <2>2, <2>3, <2>4, <2>5, <2>7, <2>8 DEF ThreadStep
<1>3. ASSUME NEW d \in Deltas, SetDelta(d) PROVE TimeInv'
    BY <1>3 DEF SetDelta
<1>4. CASE Tick
  <2>1. clock \in Int64 /\ clock + 1 \in Int64 /\ clock' = clock + 1 /\ clock <= clock + 1
      BY <1>4, LimitsAreIntegers DEF Tick, Int64
  <2>2. \A d \in Int64 : SaturatingSum(clock, d) <= SaturatingSum(clock', d)
      BY <2>1, SaturatingSumSound
  <2>3. \A d \in Int64 : SaturatingSum(clock, d) \in Int /\ SaturatingSum(clock', d) \in Int
      BY <2>1, SaturatingSumSound, LimitsAreIntegers DEF Int64
  <2>4. \A t \in Threads : Ticks(last[t].time) \in Int
      BY HalvesOfTicks, LimitsAreIntegers DEF Int64
  <2>5. \A t \in Threads, d \in Int64 :
           Ticks(last[t].time) \in SaturatingSum(call[t].since, d)..SaturatingSum(clock, d) =>
           Ticks(last[t].time) \in SaturatingSum(call[t].since, d)..SaturatingSum(clock', d)
      BY <2>2, <2>3, <2>4
  <2>6. HookedTimeInForce'
      BY <1>4, <2>5 DEF Tick
  <2> QED BY <1>4, <2>6 DEF Tick
<1>5. CASE UNCHANGED vars
    BY <1>5 DEF vars
<1> QED BY <1>1, <1>2, <1>3, <1>4, <1>5 DEF Next

\* A hooked call returns a real time read during the call plus a delta that
\* was in force during the call, held at the ends of i64.
THEOREM HookedTimesInForce == Spec => []HookedTimeInForce
<1>1. Init => TimeInv
    BY FiveHooks DEF Init, TimeInv, CallInForce, HookedTimeInForce, UnwrittenBefore1601
<1>2. Init => EarlyInv
    BY DEF Init, EarlyInv, InsideArmed, AbortOnlyEarly
<1> QED BY <1>1, <1>2, HookTypeInvariant, EarlyStep, TimeStep, PTL DEF Spec, EarlyInv, TimeInv

\* A hook leaves the buffer unwritten only for a delta that takes the clock to
\* before 1601.
THEOREM UnwrittenOnlyBefore1601 == Spec => []UnwrittenBefore1601
<1>1. Init => TimeInv
    BY FiveHooks DEF Init, TimeInv, CallInForce, HookedTimeInForce, UnwrittenBefore1601
<1>2. Init => EarlyInv
    BY DEF Init, EarlyInv, InsideArmed, AbortOnlyEarly
<1> QED BY <1>1, <1>2, HookTypeInvariant, EarlyStep, TimeStep, PTL DEF Spec, EarlyInv, TimeInv

-----------------------------------------------------------------------------
(***************************************************************************)
(* install: the safety part of BestEffort.                                 *)
(***************************************************************************)

\* The hooks before the one install is at are armed, those that may fail
\* excepted; it is not armed itself, and the ones after it are untouched.
InOrder ==
    \A k \in 1..5 :
        /\ k < next /\ Order[k] \notin Failing => detour[Order[k]] = "armed"
        /\ k = next => detour[Order[k]] \in {"none", "ready"}
        /\ k > next => detour[Order[k]] = "none"

\* No function is hooked twice.
LEMMA OrderInjective == \A j, k \in 1..5 : Order[j] = Order[k] => j = k
BY DEF Order

\* Only the steps of install touch what InOrder speaks of.
LEMMA OnlyInstall ==
    ASSUME [Next]_vars, ~Install
    PROVE  UNCHANGED <<detour, next>>
BY DEF Next, ThreadStep, CallReal, EnterHook, CallTrampoline, PanicInHook, PassStatus,
       WriteTime, FailConversion, LeaveUnwritten, Finish, SetDelta, Tick, vars, installVars

LEMMA OrderStep == TypeOK /\ InOrder /\ [Next]_vars => InOrder'
<1> SUFFICES ASSUME TypeOK, InOrder, [Next]_vars PROVE InOrder'
    OBVIOUS
<1>1. next \in 0..6 /\ detour \in [Apis -> {"none", "ready", "armed"}]
    BY DEF TypeOK
<1>2. CASE SetShared
  <2>1. next = 0 /\ next' = 1 /\ detour' = detour
      BY <1>2 DEF SetShared
  <2> QED BY <2>1 DEF InOrder
<1>3. CASE InitializeHook
  <2>1. /\ next \in 1..5 /\ next' = next
        /\ detour' = [detour EXCEPT ![Order[next]] = "ready"]
        /\ detour[Order[next]] = "none"
      BY <1>3 DEF InitializeHook, Current
  <2>2. ASSUME NEW k \in 1..5
        PROVE  detour'[Order[k]] = IF k = next THEN "ready" ELSE detour[Order[k]]
      BY <1>1, <2>1, FiveHooks, OrderInjective
  <2> QED BY <2>1, <2>2 DEF InOrder
<1>4. CASE EnableHook
  <2>1. /\ next \in 1..5 /\ next' = next + 1
        /\ detour' = [detour EXCEPT ![Order[next]] = "armed"]
      BY <1>4 DEF EnableHook, Current
  <2>2. ASSUME NEW k \in 1..5
        PROVE  detour'[Order[k]] = IF k = next THEN "armed" ELSE detour[Order[k]]
      BY <1>1, <2>1, FiveHooks, OrderInjective
  <2> QED BY <2>1, <2>2 DEF InOrder
<1>5. CASE FailHook
  <2>1. next \in 1..5 /\ next' = next + 1 /\ detour' = detour /\ Order[next] \in Failing
      BY <1>5 DEF FailHook, Current
  <2> QED BY <2>1 DEF InOrder
<1>6. CASE ~Install
    BY <1>6, OnlyInstall DEF InOrder
<1> QED BY <1>2, <1>3, <1>4, <1>5, <1>6 DEF Install

LEMMA OrderCorrect == Spec => []InOrder
<1>1. Init => InOrder
    BY FiveHooks DEF Init, InOrder
<1> QED BY <1>1, HookTypeInvariant, OrderStep, PTL DEF Spec

\* When install is through, every hook that does not fail is armed, whichever
\* of the others failed and wherever they failed.
THEOREM InstallArmsTheRest ==
    Spec => [](next = 6 => \A a \in Apis \ Failing : detour[a] = "armed")
<1>1. InOrder => (next = 6 => \A a \in Apis \ Failing : detour[a] = "armed")
    BY DEF InOrder, Apis
<1> QED BY <1>1, OrderCorrect, PTL

\* The steps install has behind it, of at most 12.
Progress ==
    2 * next + (IF next \in 1..5 /\ detour[Order[next]] = "ready" THEN 1 ELSE 0)

\* The hook install is at is one it can initialize or enable: short of the last,
\* and unless the process is aborted, install has a step it can take.
THEOREM InstallCanGoOn ==
    Spec => [](next \in 1..5 => detour[Current] \in {"none", "ready"})
<1>1. InOrder => (next \in 1..5 => detour[Current] \in {"none", "ready"})
    BY DEF InOrder, Current
<1> QED BY <1>1, OrderCorrect, PTL

\* A step of install is progress, and no other step is.
Advance ==
    /\ Install => Progress' > Progress
    /\ ~Install => Progress' = Progress

LEMMA ProgressBounded == TypeOK => Progress \in 0..12
BY DEF TypeOK, Progress

LEMMA AdvanceStep == TypeOK /\ [Next]_vars => Advance
<1> SUFFICES ASSUME TypeOK, [Next]_vars PROVE Advance
    OBVIOUS
<1>1. next \in 0..6 /\ detour \in [Apis -> {"none", "ready", "armed"}]
    BY DEF TypeOK
<1>2. ASSUME Install PROVE Progress' > Progress
  <2>1. CASE SetShared
      BY <2>1 DEF SetShared, Progress
  <2>2. CASE InitializeHook
    <3>1. /\ next \in 1..5 /\ next' = next
          /\ detour[Order[next]] = "none" /\ detour'[Order[next]] = "ready"
        BY <1>1, <2>2, FiveHooks DEF InitializeHook, Current
    <3> QED BY <3>1 DEF Progress
  <2>3. CASE EnableHook \/ FailHook
    <3>1. next \in 1..5 /\ next' = next + 1
        BY <2>3 DEF EnableHook, FailHook
    <3> QED BY <3>1 DEF Progress
  <2> QED BY <1>2, <2>1, <2>2, <2>3 DEF Install
<1>3. ASSUME ~Install PROVE Progress' = Progress
    BY <1>3, OnlyInstall DEF Progress
<1> QED BY <1>2, <1>3 DEF Advance

\* install never goes back nor stands still: each of its steps leaves it fewer
\* of its 12, whatever the threads of the process do meanwhile.
THEOREM InstallAdvances == Spec => [](Progress \in 0..12) /\ [][Advance]_vars
<1> QED BY HookTypeInvariant, ProgressBounded, AdvanceStep, PTL DEF Spec
=============================================================================
