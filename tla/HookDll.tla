------------------------------ MODULE HookDll ------------------------------
(***************************************************************************)
(* Inside one injected process: hooks::install arms five inline detours,   *)
(* one after the other, on the bootstrap thread, while the threads of the  *)
(* process go on calling the five functions and the controller changes the *)
(* delta.                                                                  *)
(***************************************************************************)
EXTENDS FileTime, Sequences

CONSTANTS
    Threads,    \* threads of the process
    Deltas,     \* values the controller may write
    Failing,    \* functions whose export, initialize or enable may fail
    MaxClock    \* bound on the real clock, in ticks since 1601

\* In the order install takes them.
Order == <<"GetSystemTime", "GetLocalTime", "GetSystemTimeAsFileTime",
           "GetSystemTimePreciseAsFileTime", "NtQuerySystemTime">>
Apis == {Order[k] : k \in 1..5}

ASSUME HookAssumption ==
    /\ Deltas \subseteq Int64 /\ 0 \in Deltas
    /\ Failing \subseteq Apis
    /\ MaxClock \in 0..MaxTicks

\* Those that fill in a SYSTEMTIME, out of the FILETIME of the third function.
SystemTimeApis == {"GetSystemTime", "GetLocalTime"}

\* Mutant: the hooks of the SYSTEMTIME calls take the precise time.
TrampolinePrecise(a) ==
    IF a \in SystemTimeApis THEN "GetSystemTimePreciseAsFileTime" ELSE a

\* The detour whose trampoline the hook of a calls.
Trampoline(a) == IF a \in SystemTimeApis THEN "GetSystemTimeAsFileTime" ELSE a

VARIABLES
    detour,     \* detour[a]: "none", "ready" once initialized, "armed" once enabled
    next,       \* the hook install is at, 0 before it, 6 after it
    shared,     \* SHARED holds the reader
    delta,      \* DeltaTicks in the mapping
    clock,      \* the real FILETIME
    aborted,    \* the process was aborted by a panic in a hook
    call,       \* call[t]: what thread t is doing
    last,       \* last[t]: how its last call ended, and the time its buffer holds
    seen        \* history: the deltas in force since its last call began

installVars == <<detour, next, shared>>
vars == <<detour, next, shared, delta, clock, aborted, call, last, seen>>

\* at: "out" of the hooks, in the hook "before" the trampoline, "after" it.
\* real is what the trampoline returned.
Calls == [at : {"out", "before", "after"}, api : Apis, since : 0..MaxClock, real : FileTimes]

\* A call of a function that is not armed ends with the real time, one of an
\* armed function with the time its hook wrote, or with a buffer the hook left
\* as it was.
Outcomes == [how : {"real", "hooked", "unwritten"}, time : FileTimes]

TypeOK ==
    /\ detour \in [Apis -> {"none", "ready", "armed"}]
    /\ next \in 0..6
    /\ shared \in BOOLEAN
    /\ delta \in Deltas
    /\ clock \in 0..MaxClock
    /\ aborted \in BOOLEAN
    /\ call \in [Threads -> Calls]
    /\ last \in [Threads -> Outcomes]
    /\ seen \in [Threads -> SUBSET Deltas]

Init ==
    /\ detour = [a \in Apis |-> "none"]
    /\ next = 0
    /\ shared = FALSE
    /\ delta \in Deltas
    /\ clock = 0
    /\ aborted = FALSE
    /\ call = [t \in Threads |-> [at |-> "out", api |-> Order[1], since |-> 0, real |-> Halves(0)]]
    /\ last = [t \in Threads |-> [how |-> "real", time |-> Halves(0)]]
    /\ seen = [t \in Threads |-> {}]

-----------------------------------------------------------------------------
(***************************************************************************)
(* install, on the bootstrap thread.                                       *)
(***************************************************************************)

Current == Order[next]

\* Mutant: the reader is dropped.
SetSharedLost ==
    /\ next = 0
    /\ next' = 1
    /\ UNCHANGED <<detour, shared, delta, clock, aborted, call, last, seen>>

SetShared ==
    /\ next = 0
    /\ shared' = TRUE
    /\ next' = 1
    /\ UNCHANGED <<detour, delta, clock, aborted, call, last, seen>>

\* resolve and initialize: the trampoline exists from here on.
InitializeHook ==
    /\ next \in 1..5
    /\ detour[Current] = "none"
    /\ detour' = [detour EXCEPT ![Current] = "ready"]
    /\ UNCHANGED <<next, shared, delta, clock, aborted, call, last, seen>>

\* Mutant: one step too many.
EnableHookTwice ==
    /\ next \in 1..5
    /\ detour[Current] = "ready"
    /\ detour' = [detour EXCEPT ![Current] = "armed"]
    /\ next' = next + 2
    /\ UNCHANGED <<shared, delta, clock, aborted, call, last, seen>>

EnableHook ==
    /\ next \in 1..5
    /\ detour[Current] = "ready"
    /\ detour' = [detour EXCEPT ![Current] = "armed"]
    /\ next' = next + 1
    /\ UNCHANGED <<shared, delta, clock, aborted, call, last, seen>>

\* Mutant: the first failure ends install.
FailHookAbandons ==
    /\ next \in 1..5
    /\ Current \in Failing
    /\ next' = 6
    /\ UNCHANGED <<detour, shared, delta, clock, aborted, call, last, seen>>

\* A failure of resolve, initialize or enable is reported; the next hook
\* is tried all the same.
FailHook ==
    /\ next \in 1..5
    /\ Current \in Failing
    /\ next' = next + 1
    /\ UNCHANGED <<detour, shared, delta, clock, aborted, call, last, seen>>

Install == ~aborted /\ (SetShared \/ InitializeHook \/ EnableHook \/ FailHook)

-----------------------------------------------------------------------------
(***************************************************************************)
(* Calls of the five functions.                                            *)
(***************************************************************************)

Finish(t, how, time) ==
    /\ last' = [last EXCEPT ![t] = [how |-> how, time |-> time]]
    /\ call' = [call EXCEPT ![t].at = "out"]
    /\ UNCHANGED <<installVars, delta, clock, aborted>>

\* The hook returns and the caller's buffer keeps what it held.
LeaveUnwritten(t) == Finish(t, "unwritten", last[t].time)

\* A function that is not armed returns the real time.
CallReal(t, a) ==
    /\ call[t].at = "out"
    /\ detour[a] # "armed"
    /\ Finish(t, "real", Halves(clock))
    /\ seen' = [seen EXCEPT ![t] = {}]

EnterHook(t, a) ==
    /\ call[t].at = "out"
    /\ detour[a] = "armed"
    /\ call' = [call EXCEPT ![t] =
          [at |-> "before", api |-> a, since |-> clock, real |-> Halves(clock)]]
    /\ seen' = [seen EXCEPT ![t] = {delta}]
    /\ UNCHANGED <<installVars, delta, clock, aborted, last>>

\* .call() on a detour that is initialized runs the real function.
CallTrampoline(t) ==
    /\ call[t].at = "before"
    /\ detour[Trampoline(call[t].api)] # "none"
    /\ call' = [call EXCEPT ![t] = [@ EXCEPT !.at = "after", !.real = Halves(clock)]]
    /\ UNCHANGED <<installVars, delta, clock, aborted, last, seen>>

\* On one that is not, it panics, and the process aborts.
PanicInHook(t) ==
    /\ call[t].at = "before"
    /\ detour[Trampoline(call[t].api)] = "none"
    /\ aborted' = TRUE
    /\ UNCHANGED <<installVars, delta, clock, call, last, seen>>

\* NtQuerySystemTime passes a failure of the real call on, without a time.
PassStatus(t) ==
    /\ call[t].at = "before"
    /\ call[t].api = "NtQuerySystemTime"
    /\ LeaveUnwritten(t)
    /\ UNCHANGED seen

\* delta(), and the sum; NtQuerySystemTime, whose i64 is two halves in memory,
\* does the same.
FakeTime(t) == Halves(SaturatingSum(Ticks(call[t].real), IF shared THEN delta ELSE 0))

\* The hooks that fill in a SYSTEMTIME write nothing when there is none.
Unconvertible(t) == call[t].api \in SystemTimeApis /\ ~HasSystemTime(FakeTime(t))

WriteTime(t) ==
    /\ call[t].at = "after"
    /\ ~Unconvertible(t)
    /\ Finish(t, "hooked", FakeTime(t))
    /\ UNCHANGED seen

FailConversion(t) ==
    /\ call[t].at = "after"
    /\ Unconvertible(t)
    /\ LeaveUnwritten(t)
    /\ UNCHANGED seen

ThreadStep(t) ==
    /\ ~aborted
    /\ \/ \E a \in Apis : CallReal(t, a) \/ EnterHook(t, a)
       \/ CallTrampoline(t) \/ PanicInHook(t) \/ PassStatus(t)
       \/ WriteTime(t) \/ FailConversion(t)

-----------------------------------------------------------------------------

\* The controller publishes another delta.
SetDelta(d) ==
    /\ ~aborted
    /\ delta' = d
    /\ seen' = [t \in Threads |-> IF call[t].at = "out" THEN seen[t] ELSE seen[t] \cup {d}]
    /\ UNCHANGED <<installVars, clock, aborted, call, last>>

Tick ==
    /\ ~aborted
    /\ clock < MaxClock
    /\ clock' = clock + 1
    /\ UNCHANGED <<installVars, delta, aborted, call, last, seen>>

Next ==
    \/ Install
    \/ \E t \in Threads : ThreadStep(t)
    \/ \E d \in Deltas : SetDelta(d)
    \/ Tick

\* The bootstrap thread is scheduled; nothing else is promised.
Spec == Init /\ [][Next]_vars /\ WF_vars(Install)

-----------------------------------------------------------------------------
(***************************************************************************)
(* Properties.                                                             *)
(***************************************************************************)

\* A hooked call returns a real time read during the call plus a delta that
\* was in force during the call, held at the ends of i64, whatever the
\* controller, the installer and the other threads did meanwhile: no value of
\* an earlier delta survives, and no sum wraps around.
HookedTimeInForce ==
    \A t \in Threads :
        call[t].at = "out" /\ last[t].how = "hooked" =>
            \E d \in seen[t] :
                Ticks(last[t].time) \in SaturatingSum(call[t].since, d)..SaturatingSum(clock, d)

\* A hook leaves the caller's buffer unwritten only when a delta in force takes
\* the clock to before 1601, or when NtQuerySystemTime passes a status on; a
\* delta that takes it past the end of i64 still gives a time.
UnwrittenBefore1601 ==
    \A t \in Threads :
        call[t].at = "out" /\ last[t].how = "unwritten" /\ call[t].api # "NtQuerySystemTime" =>
            \E d \in seen[t] : call[t].since + d < 0

\* A hook meets a missing trampoline only as long as the third hook is not
\* initialized: from then on no call can abort the process, even when enabling
\* that hook, or any later one, fails.
AbortOnlyEarly == aborted => detour["GetSystemTimeAsFileTime"] = "none"

\* Every hooked function calls the real one and returns an adjusted time: no
\* call in the process ever panics.
NoAbort == ~aborted

\* install goes through all five hooks: those that do not fail end up armed,
\* unless a hook has aborted the process before.
BestEffort ==
    <>(aborted \/ (next = 6 /\ \A a \in Apis \ Failing : detour[a] = "armed"))
=============================================================================
