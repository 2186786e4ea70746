# TimeMocker in TLA+

TimeMocker shows other processes a fake time. A controller with a window
(`time-mocker-ui`) injects a DLL (`time-mocker-hook`) into 64-bit Windows
processes; the DLL detours five time functions and adds to the real time a
delta that it reads from a named shared-memory mapping (`time-mocker-core`).
These modules model the controller, its window's update loop, several
controllers at once, the mappings, the hook, and the way from the time picked to
the time shown. TLC checks them on small instances, and TLAPS proves what
matters most for every value of the constants.

Paths below are relative to `crates/`.

## 1. The system

### Components, their state and operations

| component | state | operations |
|---|---|---|
| shared delta mappings, `time-mocker-core/src/{lib,types,mmf}.rs` | named kernel objects `Global\TimeMocker_<pid>` and `Local\TimeMocker_<pid>`, each with one `i64`; alive while a handle is open | create a writer, or attach to the object that has the name; write; open a reader; read; drop |
| `InjectionManager`, `time-mocker-ui/src/injection_manager.rs` | `injected`: PID to process handle (`Syringe`) and writer; the log | `inject`, `disable`, `set_delta_all`, `prune_dead`, `is_injected`, `Drop` |
| hook bootstrap, `time-mocker-hook/src/entrypoint.rs` | one thread per process, started by `DllMain` | probe `Global\`, then `Local\`; `install`, or give up for ever |
| hook detours, `time-mocker-hook/src/hooks.rs` | `SHARED` (the reader), five static detours | `install`, five hooks |
| Mock Time bar, `time-mocker-ui/src/app.rs:144-257` | six fields, `current_delta_ticks`, the status line | edit, Apply, Now |
| date picker popup, `app.rs:259-493` | the month being browsed, popup open or not | previous and next month, click a day, Now, -1d, +1d, Escape |
| update loop, process tab, rules, log, `app.rs:107-142, 495-667` | process list, two timers, rules, settings | refresh when due, scan when due, check boxes, edit rules, save |
| rules, `time-mocker-ui/src/rules.rs` | compiled rules | compile, match |
| process watcher and queries, `process_watcher.rs`, `win32_process_info.rs` | the last process list | refresh, list, live PIDs, image of a PID, native x64 |
| FILETIME conversions, `time-mocker-core/src/ticks.rs`, `app.rs:669-677` | none | halves to `i64` and back, Unix time to FILETIME, saturating sum |
| test targets, entry point, build files | none | print the time; open the window |

### How they interact

The controller is one UI thread: everything it does happens inside `update()`
or, at the end, inside `Drop`. It meets the hooks, and other controllers, only
through the mappings. Its own process is in its list like any other: once it is
injected there, it reads the clock through its own hook.
The bootstrap thread of each hook, and all the threads that call time
functions, run concurrently with it in other processes. Processes start, exit
and give their PIDs away at any moment, except that Windows keeps a PID as long
as a handle on its process is open; the controller has such a handle from
`OwnedProcess::from_pid` to the end of the entry, and in none of the earlier
checks of `inject`.

### What is hard

- *Interleaving.* `inject` takes seven system calls, and processes, bootstraps
  and other threads run between any two. `set_delta_all` and `Drop` write entry
  by entry. Nothing keeps a second controller from running, on the same mappings.
- *Stale state.* PIDs come from a list up to 1.5 s old; each check opens the
  process by PID again. The clock a controller reads may be its own fake one.
- *Partial failure.* The delta is written before the steps that may still fail;
  one hook of five may fail, and two depend on a third.
- *Retry.* A scan tries every matching process again, every 1.5 s, for ever.
- *Crash and restart.* Mappings survive a controller that dies, with its last
  delta in them, through the handles of the hooks. A later controller may run
  with another elevation and use other names.
- *Liveness.* Bootstraps must end bound, exited processes must be noticed, a
  process that gets ready must be injected, closing the window must restore real
  time.
- *Limits and boundaries.* The ring of log lines; clock changes, ends of months
  and of the supported years; the ends of `i64`, and times before 1601.

`PROJECT.json` lists each hazard at its line, with the properties against it.

### What makes each component correct

| component | properties |
|---|---|
| mappings, manager, bootstrap | `EntryPublished`, `EntryLoaded`, `HookFollows`, `UntrackedReal`, `UnreachedReal`, `NoSystemHooked`, `BootstrapBinds`, `ExitedPruned`, `QuitRestores`, and `ClocksFollow`, the refinement of `FakeClock` |
| several controllers | `ShownOffered`, `PeersReach`, and `ClocksFollow`, the refinement of `FakeClock` again |
| update loop, rules, log | `WantedInjected`, `DeadPruned`, `ScanReported`, `NoneOverlooked`, `EntryListed` |
| detours | `HookedTimeInForce`, `UnwrittenBefore1601`, `AbortOnlyEarly`, `NoAbort`, `BestEffort` |
| Mock Time bar | `AppliedShown`, `NowRestores`, `NowRefusedInFold`, `AppliedAlwaysShown` |
| date picker | `DateSupported`, `ViewSupported`, `PageComplete`, `ChoiceInView`, `StepsOneDay` |
| FILETIME conversions | theorems about the halves, the sum and the conversion of Unix time |

## 2. The modules

```
FakeClock            what the tool promises about clocks
   ^ implemented by both of
Injection  EXTENDS SharedDelta      controller, bootstraps, processes
Controllers                         several controllers on one process

AppLoop                             frames, timers, scan, rules, log
HookDll    EXTENDS FileTime         inside one injected process
FileTime                            64-bit times in two halves, as i64
MockTimeBar                         from picked fields to delta to shown time
DatePicker                          the calendar popup
MC*                                 instances for TLC
*Proofs                             theorems of Injection, Controllers,
                                    AppLoop, HookDll, FileTime, MockTimeBar,
                                    DatePicker
```

### SharedDelta

A mapping is a PID and a scope. For each PID, `writer` and `reader` are the
scope the controller and the hook have open, or `None`; `payload` is the delta.
`CreateWriter` attaches or creates (`SharedDeltaWriter::create`). A name that
nobody has open holds 0, which is how a pagefile-backed section starts; dropping
the last handle brings it back to 0. One scope per end is enough: entries are
keyed by PID, and `inject` returns early on an entry; the hook's reader is in
a `OnceCell`.

### Injection

`ctl` is the point the UI thread has reached. `inject` is cut where the
environment can act: `Verify` (image and system-process checks), `CheckNative`,
`CreateMapping`, `WriteInitial`, `OpenProcess`, `LoadHook`, and `FailInject` for
every error return, which drops the writer as it stands. `ApplyFakeTime` and
`Publish` are `set_delta_all` in the order of a `HashMap`; `Quit`, `Zero` and
`FinishQuit` are `Drop`. `Disable` and `Refresh` are one step each: between
their writes nothing else reads what they change. `Start` and `Exit` are the
processes, `ProbeGlobal` and `ProbeLocal` the bootstrap; `Launch` and `Crash`
begin and end a controller. Who calls `inject`, a check box or the auto-inject
scan, is left open: any PID of the last list may be tried.

`Faults` says which faults the environment may commit, so that each property is
checked, and proved, under the weakest condition on them: death of the controller,
failure of the two last steps of `inject`, a PID reused inside `inject`, a
later controller with another elevation, failure of `CreateThread`.

### FakeClock

The promise, without mappings and hooks: each process sees an offset; it moves
to an offset on offer or back to 0, one process at a time; the offers are the
delta chosen last and, as long as it is being replaced, an earlier one; they end
when the controller does. `Injection!Clock` maps `shown[p]` to what
`hooks::delta()` returns in `p`, and `offers` to the delta on display together
with those in the mappings a loop has not reached. `ClocksFollow` says that
every step of `Injection`, under every fault, is a step of `FakeClock` or leaves
these two alone: no step moves two clocks, and none moves a clock to a delta
that is not on offer, in particular not while no controller runs.

### Controllers

One process and any number of controllers, each a UI thread of its own:
`stage[c]` is how far `c` is with this process, `writer[c]` the scope it has
open, and `inject` is cut as in `Injection`. An elevated controller gets the
`Global\` name; without elevation that name is denied, also where an elevated
controller has created it, and the fallback takes the `Local\` one. An apply is
two steps: `Choose` puts the new delta on display, and `Publish` is the turn of
`set_delta_all` that reaches this process; in between other controllers
may write, zero or leave the mapping. `disable` and `Drop` write 0 first and close the handle in a step of
its own (`DropEntry`), so that another controller may write in between. The
process is one that `inject` accepts, and `inject` fails only where the process has
exited. The refusals, crashes, failures in a running process and the reuse of a
PID inside `inject` are in `Injection`; `late_failure` is what such a failure does
with one controller already, and with several it breaks `ShownOffered`,
`ClocksFollow` and `ClosedAtRealTime` in the same way.

`Controllers!Clock` maps this to `FakeClock` with the one process: `Offers` are real
time, the deltas the controllers have on display and, while one of them is between
`Choose` and `Publish`, the delta in its mapping. `ClocksFollow` says that all of
them together promise no less than one does: the clock goes to one of these or to
real time, so a delta that its controller has left behind does not come back. An
`inject` that failed and leaked its handle would break it, since the name would
keep the delta for the next process with that PID.

### AppLoop

A frame is `Update` (refresh when due, start a scan when due), `Scan(p)` for each
listed process in any order, `EndScan`, what the user does (`Check`, `Uncheck`,
`RefreshButton`, `ToggleAuto`, the edits of rules), and `EndFrame`. Processes
start, exit and get ready between any two of these. `refreshDue` and `scanDue`
say that 1.5 s have passed; the scan's timer starts again even where the manager
is missing. A rule is a model value, `Matching[r]` the processes it matches,
`Malformed` those that `CompiledRules::compile` drops; a process of another image
that got the same PID is one that is not `open`. `inject` succeeds exactly for
the `open` processes. A process the watcher has no name for is not in the list
(`process_watcher.rs`), and counts as not running here.

The log is abstracted to what one may ask of it: `age[p]` counts the lines
pushed after the line that says `inject` failed for `p`, and stops at `LogCap`,
where that line has left the ring. `LogPush` is the code's `log_push` on the lines
themselves, and a theorem relates the two. `Inject` pushes the lines that come before
the outcome too: the fallback to `Local\`, once per session, and a mapping that
pre-existed.

### FileTime

The two halves of a FILETIME and the `i64` the code computes with, at any width
(`Sign` is the value of the top bit of a half, 2^31 in the code): `Ticks` and
`Halves` are the two directions of `ticks.rs`, `SaturatingSum` the sum of the
hooks, `UnixTicks` and `UnixConverts` the checked conversion of `app.rs`, and
`HasSystemTime` the FILETIMEs that `FileTimeToSystemTime` accepts.

### HookDll

One injected process: `install` arms five detours in order, best effort
(`InitializeHook`, `EnableHook`, `FailHook`), while threads call them. A hooked
call is entered, runs the trampoline (`CallTrampoline`, or `PanicInHook` when it
does not exist), then reads the delta and adds it, saturating. A hook that fills
in a SYSTEMTIME leaves the caller's buffer as it was when the sum has none
(`FailConversion`), and `NtQuerySystemTime` passes a failure on (`PassStatus`).
The release profile aborts on a panic. `seen[t]` is a history variable: the
deltas in force since the call of `t` began. NULL pointers, which every hook
returns on, touch no state.

### MockTimeBar

Instants are ticks of UTC. Local time is ahead by `Saving` from `Forward` to
`Back`. `ApplyFakeTime` converts the fields with `Local.from_local_datetime(..)
.single()`: no instant in the hour that is skipped, two in the hour that is
repeated, and both are refused. One `LocalTime` stands for the conversion of chrono and
for that of Windows: the model shows that both have to use the offset of the fake date,
and takes it that the two agree on when clocks change. `Shown` is what `hook_get_local_time` gives for
the fake instant. The fields hold whole seconds, so Now cuts a fraction off.
`own` is whether the controller is injected into itself: `OwnClock` is what its
`Utc::now` and `Local::now` return, through `hook_get_system_time_precise_as_filetime`.
The two outcomes of the status line are those of `apply_fake_time`; the other
messages are not modelled (overflow is out of reach for the supported years, and
`DateSupported` shows the fields are always a date).

### DatePicker

The selected date and the month being browsed are separate state; every control of
the popup changes one or both. `Page` is the 42 days of the grid. chrono's
calendar is modelled by its rules (month lengths, day numbers, weekdays).

## 3. What TLC checks

| run | shows |
|---|---|
| `injection_faults` | types; `EntryPublished`, `EntryLoaded`, `ClocksFollow` with all five faults |
| `injection_follow` | `HookFollows`, `NoSystemHooked` with crashes, late failures and lost threads |
| `injection_live` | `UntrackedReal`, `UnreachedReal`, `BootstrapBinds`, `ExitedPruned`, `QuitRestores` without crashes and late failures, with controllers of changing elevation |
| `controllers` | types; `ShownOffered`, `PeersReach`, `ClocksFollow` with three controllers of any elevation |
| `app_loop` | types; `ScanReported`, `NoneOverlooked`, `EntryListed`, `WantedInjected`, `DeadPruned` |
| `hook_calls` | types; `HookedTimeInForce`, `UnwrittenBefore1601`, `AbortOnlyEarly`, `BestEffort` |
| `mock_time` | types; `AppliedShown`, `NowRestores`, `NowRefusedInFold` over a year with both clock changes |
| `date_picker` | types; `DateSupported`, `ViewSupported`, `PageComplete`, `ChoiceInView`, `StepsOneDay` |
| `late_failure`, `quick_reuse`, `hook_abort`, `self_injection` | the findings below |

Read together, `ShownOffered` and `PeersReach` say what is left of the tool's
promise with several controllers, as long as none of them crashes and no `inject`
fails in a running process. A process runs at real time or at the delta of
a controller that will zero it, a delta that is being replaced apart, so it is back
at real time once all have closed (`ClosedAtRealTime` of `ControllersProofs`);
and controllers of one elevation all reach it. What is lost: the last one to
write decides, and the first one to disable or to close takes the process from
the others, whose lists keep showing it as injected.

### Bounds

- *Injection*: two PIDs, so that one loop can be overtaken by what happens to the
  other entry; two or three deltas, so that 0, the old and the new one differ.
  `injection_follow` has one image of each kind that a check tells apart: one that
  passes, one that is excluded, one that is not native x64 (`wow64`) and one of
  another session (`remote`). Its property against wrong targets has a mutant for each
  of the two checks. The other runs have the images their properties tell apart. PIDs are unbounded in time:
  they are reused for ever. Symmetry over the PIDs is used where only invariants
  are checked. The finding runs need one PID.
- *Controllers*: three, so that two may share a mapping while the third leaves it
  or uses the other name; every set of them may be elevated; 0 and two fake
  times, so that one controller's delta is not the other's. One process: the
  mappings of two PIDs have nothing in common. Symmetry over the controllers.
- *AppLoop*: two processes, one of which a rule can single out; a rule that never
  compiles; a ring of four lines. That is the least for which `ScanReported`
  holds, two lines for each process of a scan, and with three lines TLC
  finds a failure pushed out. The code keeps 1000 lines, enough
  for 500 processes that match and fail in one scan; a scan of more loses the
  failures of its first ones.
- *HookDll*: one thread. A thread reads what `install` and the controller
  write, and writes nothing another thread reads except `aborted`. Two of five
  hooks may fail, the third, on which two depend, and the fourth. A half has four
  values, an `i64` runs from -8 to 7: one delta takes the clock past its
  end, another to before 1601. The deltas are further apart than the clock can
  run, so a time tells which delta is in it. The theorems cover any number of
  threads, any width and any hooks that fail.
- *MockTimeBar*: a year of 24 ticks, two ticks to the second, a saving of four
  ticks; every field value, every present time. `MaxDelta` is the longest way between
  two times of the year; it matters only in a controller that adds up its own
  deltas. `Now` is left out where that controller's clock is outside the year.
  The theorems cover all other values.
- *DatePicker*: 1971 and 1972, an ordinary year and a leap year, with both ends
  of the range; weekdays of all kinds occur at the start of months. The clock shows
  a day of the supported years (`YearsAssumption`), which the code does not enforce:
  Now takes the clock as it is. A clock outside them is one that was set wrong, or
  the fake one of a self-injected controller; a leap day it showed in a page could then be
  clamped to a date that does not exist, which `apply_fake_time` reports.

### Fairness

`Injection!FairSpec` assumes: the UI thread goes on with a call it has begun
(weak fairness of the steps of `inject`, of `Publish`, `Zero`, `FinishQuit`: they
are straight-line code and loops over a finite map); a refresh happens again and
again as long as the window is open (strong fairness of `Refresh`); the scheduler
runs the bootstrap threads. The user, the processes and the faults owe nothing.

`AppLoop!Spec` says what the strong fairness of `Refresh` stands for: frames go on
(weak fairness of `Frame`: `update()` asks to be called again every 500 ms), and
1.5 s pass for each timer. Both specifications take it that `Syringe::inject`
returns; it waits for a thread in the process without a timeout, so a process
that never runs that thread stops the window for good.

`HookDll!Spec` assumes that the bootstrap thread is scheduled, nothing of the
callers. `Controllers`, `MockTimeBar` and `DatePicker` state safety only.

## 4. Findings

Each is a run in which TLC violates what the code or its documentation says.

1. `late_failure`: `inject` publishes the delta before it opens the process and
   loads the DLL. When either fails, the mapping keeps the delta, and a process
   that was hooked before is at fake time without an entry; `Drop` misses it.
2. `quick_reuse`: the checks and the load of one `inject` open the PID anew
   each time; when it is reused in between, an excluded process is injected.
3. `hook_abort`: `GetSystemTime` and `GetLocalTime` are armed before the
   trampoline they call exists; a call in between ends the process.
4. `self_injection`: injected into itself, the controller takes its own fake time
   for the real one, and the next delta it publishes, to every process, is off
   by the delta before it.

Four more things the code does, which are conditions of the properties and not
runs of their own:

- The hook decides once which name it reads. A later controller of another
  elevation publishes under the other name, and the process does not follow
  (`HookFollows` excludes `elevationChange`, `PeersReach` mixed elevations). What
  holds instead is `UnreachedReal`: such a process is at real time, unless the earlier
  controller crashed or left a delta by a late failure.
- Disabled before its bootstrap has probed, a process can never be hooked again,
  though the next `inject` reports success (`BootstrapBinds` speaks of the
  entries that stay).
- Now is refused in the hour that a clock change repeats, and the fake time
  stays (`NowRefusedInFold` says that this is the only such hour).
- Past the last supported day, +1d lands on the first day of the same year, and
  before the first one -1d lands on the last day of the same year (`app.rs:487`;
  the clamp the comment announces). `StepsOneDay` says that these are the only two
  steps that are not of one day, and where they end.

## 5. What TLAPS proves

All theorems are about the specifications TLC checks, for every value of the
constants that the `ASSUME`s allow.

### InjectionProofs

| theorem | property | faults |
|---|---|---|
| `TypeInvariant` | `TypeOK` | all |
| `EntriesPublished` | `EntryPublished` | all |
| `EntriesLoaded` | `EntryLoaded` | all |
| `ImplementsFakeClock` | `ClocksFollow` | all |
| `HooksFollow` | `HookFollows` | no `elevationChange` |
| `OnlyCheckedHooked` | `NoSystemHooked` | no `quickReuse` |
| `UntrackedAtRealTime` | `UntrackedReal` | no `crash`, no `lateFailure` |
| `UnreachedAtRealTime` | `UnreachedReal` | no `crash`, no `lateFailure` |

The conditions are needed: `quick_reuse` and `late_failure` violate the property
under the excluded fault alone, a crash leaves the deltas as they are, and
another elevation means another name. None of the properties is inductive. The
proof is built in layers, each relative to those below:

1. `Typing`: types, and the two facts they rest on: `inject` works on a
   process without an entry, and entries wait only inside the loops.
2. `PublishInv`: once created, the mapping of the target is open, once written
   it holds the current delta; so recording the entry keeps `EntryPublished`.
3. `ScopesAgree` (one elevation): every mapping ever opened has the scope of the
   token, so writer and reader of a PID have the same mapping.
4. `GoneUnhooked` and `CheckInv` (no reuse inside `inject`): what was checked of
   the target still holds of it, unless it has exited.
5. `NameInv`: whose the writers are (`WriterOwned`), that only bound hooks have
   readers (`ReaderBound`), and that a name nobody has open holds 0, and so does
   a fresh mapping that a bootstrap can still bind to (`FreshZero`).
6. `RealInv` (no crash, no late failure): a mapping the controller does not
   have open holds 0.

The refinement is proved by showing, action by action, which step of `FakeClock`
it is. `FreshZero` is what makes binding harmless: a hook that binds between
`CreateMapping` and `WriteInitial` reads 0.

Two more theorems are what can be proved of the liveness properties.
`ClosedAtRealTime` (no `crash`, no `lateFailure`): whenever no controller runs, every
process is at real time. With it, `QuitRestores` only needs that `Drop` comes to an
end. `BootstrapStaysOnTrack` (all faults): a bootstrap that has yet to find the
mapping of an entry stays able to find it, until it binds, the entry goes or the
process exits; for `BootstrapBinds` only the scheduling of the thread is left. A
bootstrap is on track from its first probe, or from its second if the mapping is
`Local`: one whose entry was disabled and made again between the two has
missed a `Global` name for good.

### ControllersProofs

`ControllersTypeInvariant`, `ProcessFollowsSomeone` (`ShownOffered`) and
`PeersReachHook` (`PeersReach`), for any deltas and any set of controllers, any of
them elevated; none of them crashes, and an `inject` of theirs fails only where the
process has exited. `ShownOffered` speaks of the mapping the hook reads, and a hook
may bind to any; the inductive `Backed` says of every mapping of a running
process that its payload is 0 or the current delta of a controller that has
written it and has yet to zero it, unless a controller is about to overwrite it.
`HomeOnly` says that controllers of one
elevation open one scope, so the hook cannot have found another.

`ControllersImplementFakeClock` (`ClocksFollow`) goes action by action: what is in
a mapping is on offer (`Backed` again), so binding moves the clock to an offer; a
controller only writes 0 or what it has on display; and a handle that closes
does not change a mapping the hook has open. `ClosedAtRealTime`: once every
controller is closed, or has no entry, the process runs at real time.

### AppLoopProofs

`LoopTypeInvariant` and `EveryFailureReported` (`ScanReported`), for any finite set
of processes, any rules, and any log of two lines or more to a process. The
inductive `Budget` counts the lines to come: for every process that has failed in
this scan, the lines after its own, plus two for each process left, plus the
fallback warning if it is still due, stay below `LogCap`.

`LogHoldsWhatAgesTell` justifies the ages: if every failure whose age is below
`LogCap` has its line in the ring, that many lines before the last, then the same
is true after one more `log_push` and one step of `Log`, whatever the lines are. `NoProcessOverlooked` (`NoneOverlooked`): once the scan is past
a process that a rule matches, it has an entry or a failure that the log still
holds. `EveryEntryListed` (`EntryListed`): a running process with an entry
has a row, since its handle keeps the PID from being given away and each of the two ways
to refresh lists all that runs.

### HookDllProofs

`HookTypeInvariant`, `AbortsOnlyEarly`, `HookedTimesInForce` and
`UnwrittenOnlyBefore1601`, for any set of threads, deltas and hooks that fail. A
thread inside a hook implies that the hook is armed (`InsideArmed`), so the hook of
the third function, and those after it, find their own trampoline; inside a call
the delta in force has been seen, the clock has not gone back, and an
initialized hook has a reader (`CallInForce`).

Of `BestEffort`, all but the scheduling is proved. `InstallArmsTheRest`: when
`install` is through, every hook that does not fail is armed, by the invariant
`InOrder` that the hooks before the current one are armed, and those after it
untouched. `InstallCanGoOn`: the current hook can be initialized or enabled.
`InstallAdvances`: every step of `install` makes it advance among its 12 steps, and
nothing else sets it back.

### FileTimeProofs

For any width: `HalvesOfTicks` and `TicksOfHalves` (the two directions are inverse
to each other, negative values included) and `SaturatingSumSound` (the sum stays
in range, is exact where the exact sum is in range, and saturates on the right side).
With `Sign` at least 10^9 (it is 2^31): `PickedTimesConvert` (no time of the years 1970 to 2200,
a day more at each end, overflows, so the overflow messages of
`apply_fake_time` are out of reach) and `PickedTimesShown` (the delta between two
such times, added to the first one, is the second, and has a SYSTEMTIME).

### MockTimeBarProofs

`BarTypeInvariant`. `AppliedTimeShown`: for any saving and any two clock changes, a
time that is applied by a controller that is not hooked is the time shown; the
conversion of the picker inverts the one of the hook. `NowRefusedOnlyInFold`: Now
can be refused only within one saving of the clock change back; it needs that
clock changes fall on whole seconds, since the fields cut the fraction off.
`NowRestoresRealTime`: where it is not refused, Now leaves a delta of less than a
second, also in a controller that reads its own fake clock; the offset of a
local time with the fraction cut off is the one with the fraction
(`OffsetOfSeconds`, `SecondsOfLocalTime`).

### DatePickerProofs

All six properties of `DatePicker`, for any range of years and any days the clock
may show: `PickerTypeInvariant`, `DatesSupported`, `ViewsSupported`,
`PagesComplete`, `ChoiceAlwaysInView`, `StepsAreOneDay`. They rest on the calendar:
no two dates have the same number (`NumbersApart`, from the tables of months and
years), so going to a number and back is the identity (`DateOfNumber`), and what a
page shows, or a step reaches, lies in the month, the one before or the one
after (`NearMonth`). A day outside the supported years is then in December or
January, which have 31 days in every year, so the clamp of the year leaves a date
that exists (`ClampSupported`). The only such steps are those over the two ends of
the supported years (`EndsOfYears`, `StepOrEnd`).

### Only model-checked

Liveness (`BestEffort`, `BootstrapBinds`, `ExitedPruned`, `QuitRestores`,
`WantedInjected`, `DeadPruned`) rests on fairness, whose meaning is in terms of
ENABLED, and is out of the prover's reach; for the first, second and fourth the
safety part is proved, as said above. The findings' counterexamples are TLC's.
Every invariant, every action property and both refinements that the passing runs
check are theorems.

## 6. Not modelled

- *Patching code.* `enable` rewrites the first bytes of a function while other
  threads may execute it. What happens then is decided below this code.
- *Kernel objects and squatters.* Names are taken by TimeMocker alone, and the
  local name of another session is not seen; creation of a mapping does not fail
  after the fallback.
- *Persistence.* `save()` hands rules and settings to the framework, which decides
  when they reach the disk; `AppLoop` starts from any settings.
- *A call of `Syringe::inject` that never returns*: see Fairness.
- *`systemtime_to_ticks`*: called by tests only. NULL pointers: the hooks return.
- *A clock before 1970.* `Utc::now` panics on it. Only a self-injected controller
  meets one, by applying the last years and then the first; the model takes the
  clock as any number and goes on.
- *Milliseconds between two readings of the clock* in Now (`Local::now`, then
  `Utc::now`) and scheduling inside one UI call that touches no other actor.
- *PE parsing* (it decides once whether there is a manager), layout, wording, the
  search filter (it leaves rows out), glob and regex matching itself.
- *Test targets and entry point*: no state.

## 7. Plan

Done: all the modules and proofs above. What could follow:

1. Composition of `Injection` and `HookDll`: the delta of one process's hook is
   the payload of the mapping it opened, so `HookDll`'s `SetDelta` is
   implemented by what `Injection` does to that mapping.
2. Crashes and failing injections in `Controllers`, under `Injection`'s `Faults`.
