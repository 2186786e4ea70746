----------------------------- MODULE Injection -----------------------------
(***************************************************************************)
(* The controller's InjectionManager, the bootstrap of the injected hook,  *)
(* and the processes they act on.                                          *)
(*                                                                         *)
(* The controller is one UI thread: ctl is the point it has reached inside *)
(* inject, set_delta_all or Drop, and "idle" between two calls.  Processes *)
(* start and exit, and the bootstrap thread of each loaded hook runs,      *)
(* between any two of its steps.                                           *)
(***************************************************************************)
EXTENDS SharedDelta

CONSTANTS
    Images,         \* executables a process may run
    SystemImages,   \* those SYSTEM_PROCESS_EXCLUDE names
    NativeImages,   \* those that run as native x64
    SessionImages,  \* those that run in the controller's own session
    Faults          \* the faults the environment may commit, see FaultKinds

FaultKinds == {
    "crash",            \* the controller dies without running Drop
    "lateFailure",      \* the process cannot be opened, or does not load the
                        \* DLL, although it runs
    "quickReuse",       \* a PID is handed out again while inject works on it
    "elevationChange",  \* a later controller runs with another elevation
    "noThread" }        \* CreateThread fails in DllMain

ASSUME ImagesAssumption ==
    /\ None \notin Images
    /\ SystemImages \subseteq Images
    /\ NativeImages \subseteq Images
    /\ SessionImages \subseteq Images
    /\ Faults \subseteq FaultKinds

VARIABLES
    image,      \* image[p]: what runs under PID p, None when nothing does
    hook,       \* hook[p]: how far the hook DLL is in process p
    ctl,        \* where the controller's UI thread is
    elevated,   \* the controller's token has SeCreateGlobalPrivilege
    listed,     \* listed[p]: the image in the last process list, None if absent
    target,     \* the PID inject works on
    injected,   \* the keys of InjectionManager::injected
    pending,    \* entries the loop over the injected processes has not written
    current     \* current_delta_ticks

osVars == <<image, hook>>
loopVars == <<pending, current>>
vars == <<mappings, image, hook, ctl, elevated, listed, target, injected,
          pending, current>>

Booting == {"probeGlobal", "probeLocal"}
HookStages == {"absent", "failed", "bound"} \cup Booting
\* Stages of inject: those before the delta is written, and those after it.
EarlyStages == {"verified", "native"}
LateStages == {"written", "opened"}
InjectStages == EarlyStages \cup {"created"} \cup LateStages
CtlStages == {"off", "idle", "publishing", "zeroing"} \cup InjectStages

TypeOK ==
    /\ MappingsOK
    /\ image \in [Pids -> Images \cup {None}]
    /\ hook \in [Pids -> HookStages]
    /\ ctl \in CtlStages
    /\ elevated \in BOOLEAN
    /\ listed \in [Pids -> Images \cup {None}]
    /\ target \in Pids \cup {None}
    /\ injected \subseteq Pids
    /\ pending \subseteq injected
    /\ current \in Deltas

NoImages == [p \in Pids |-> None]

Init ==
    /\ MappingsInit
    /\ image = NoImages
    /\ hook = [p \in Pids |-> "absent"]
    /\ ctl = "off"
    /\ elevated \in BOOLEAN
    /\ listed = NoImages
    /\ target = None
    /\ injected = {}
    /\ pending = {}
    /\ current = 0

-----------------------------------------------------------------------------
(***************************************************************************)
(* Processes.  Windows does not reuse a PID while a handle on its process  *)
(* is open; the controller holds one in the Syringe of each entry, and     *)
(* from OwnedProcess::from_pid on in an inject that is under way.          *)
(***************************************************************************)

\* Mutant: the Syringe is not kept in the entry.
PinnedByInjectOnly(p) == ctl = "opened" /\ target = p

Pinned(p) == p \in injected \/ (ctl = "opened" /\ target = p)

Start(p, i) ==
    /\ image[p] = None
    /\ ~Pinned(p)
    /\ target = p => "quickReuse" \in Faults
    /\ image' = [image EXCEPT ![p] = i]
    /\ UNCHANGED <<mappings, hook, ctl, elevated, listed, target, injected, loopVars>>

Exit(p) ==
    /\ image[p] # None
    /\ image' = [image EXCEPT ![p] = None]
    /\ hook' = [hook EXCEPT ![p] = "absent"]
    /\ DropReader(p)
    /\ UNCHANGED <<ctl, elevated, listed, target, injected, loopVars>>

-----------------------------------------------------------------------------
(***************************************************************************)
(* The bootstrap thread of the hook DLL: the Global\ name first, then the  *)
(* Local\ one, which only a process of the same session can see.  It gives *)
(* up when neither opens, and DllMain never runs again in that process.    *)
(***************************************************************************)

Bind(s, p) ==
    /\ OpenReader(s, p)
    /\ hook' = [hook EXCEPT ![p] = "bound"]

\* Mutant: the Local\ name is not tried.
ProbeGlobalOnly(p) ==
    /\ hook[p] = "probeGlobal"
    /\ \/ Exists("Global", p) /\ Bind("Global", p)
       \/ /\ ~Exists("Global", p)
          /\ hook' = [hook EXCEPT ![p] = "failed"]
          /\ UNCHANGED mappings
    /\ UNCHANGED <<image, ctl, elevated, listed, target, injected, loopVars>>

ProbeGlobal(p) ==
    /\ hook[p] = "probeGlobal"
    /\ \/ Exists("Global", p) /\ Bind("Global", p)
       \/ /\ ~Exists("Global", p)
          /\ hook' = [hook EXCEPT ![p] = "probeLocal"]
          /\ UNCHANGED mappings
    /\ UNCHANGED <<image, ctl, elevated, listed, target, injected, loopVars>>

LocalVisible(p) == Exists("Local", p) /\ image[p] \in SessionImages

ProbeLocal(p) ==
    /\ hook[p] = "probeLocal"
    /\ \/ LocalVisible(p) /\ Bind("Local", p)
       \/ /\ ~LocalVisible(p)
          /\ hook' = [hook EXCEPT ![p] = "failed"]
          /\ UNCHANGED mappings
    /\ UNCHANGED <<image, ctl, elevated, listed, target, injected, loopVars>>

-----------------------------------------------------------------------------
(***************************************************************************)
(* InjectionManager::inject.  A check that fails before the mapping is     *)
(* created leaves everything as it was: Verify is then not enabled, or     *)
(* FailInject returns.                                                     *)
(***************************************************************************)

\* Mutant: the system-process check is missing.
VerifyAnyImage(p) ==
    /\ ctl = "idle"
    /\ p \notin injected
    /\ listed[p] # None
    /\ image[p] = listed[p]
    /\ ctl' = "verified"
    /\ target' = p
    /\ UNCHANGED <<mappings, osVars, elevated, listed, injected, loopVars>>

\* The early return, and the PID-reuse and system-process checks on the image
\* the process runs now, against the one the caller took from the list.
Verify(p) ==
    /\ ctl = "idle"
    /\ p \notin injected
    /\ listed[p] # None
    /\ image[p] = listed[p]
    /\ image[p] \notin SystemImages
    /\ ctl' = "verified"
    /\ target' = p
    /\ UNCHANGED <<mappings, osVars, elevated, listed, injected, loopVars>>

\* Mutant: the check of the architecture is missing.
CheckNativeAny ==
    /\ ctl = "verified"
    /\ ctl' = "native"
    /\ UNCHANGED <<mappings, osVars, elevated, listed, target, injected, loopVars>>

\* is_native_x64 opens the process by PID once more.
CheckNative ==
    /\ ctl = "verified"
    /\ image[target] \in NativeImages
    /\ ctl' = "native"
    /\ UNCHANGED <<mappings, osVars, elevated, listed, target, injected, loopVars>>

\* create_mmf_with_fallback: without elevation the Global\ name is denied.
CreateMapping ==
    /\ ctl = "native"
    /\ CreateWriter(IF elevated THEN "Global" ELSE "Local", target)
    /\ ctl' = "created"
    /\ UNCHANGED <<osVars, elevated, listed, target, injected, loopVars>>

\* Mutant: inject trusts the zero of a fresh mapping.
WriteInitialZero ==
    /\ ctl = "created"
    /\ WriteDelta(target, 0)
    /\ ctl' = "written"
    /\ UNCHANGED <<writer, reader, osVars, elevated, listed, target, injected, loopVars>>

\* Mutant: a mapping that pre-existed is left as it is.
WriteInitialIfFresh ==
    /\ ctl = "created"
    /\ IF reader[target] = writer[target] THEN UNCHANGED payload ELSE WriteDelta(target, current)
    /\ ctl' = "written"
    /\ UNCHANGED <<writer, reader, osVars, elevated, listed, target, injected, loopVars>>

WriteInitial ==
    /\ ctl = "created"
    /\ WriteDelta(target, current)
    /\ ctl' = "written"
    /\ UNCHANGED <<writer, reader, osVars, elevated, listed, target, injected, loopVars>>

OpenProcess ==
    /\ ctl = "written"
    /\ image[target] # None
    /\ ctl' = "opened"
    /\ UNCHANGED <<mappings, osVars, elevated, listed, target, injected, loopVars>>

\* Syringe::inject runs LoadLibraryW in the process: DllMain starts the
\* bootstrap thread the first time, a loaded DLL only gains a reference.  The
\* entry is recorded when the call returns.  Whether Windows would refuse the
\* DLL in a process of another architecture is left open: the check is relied
\* on alone.
LoadHook ==
    /\ ctl = "opened"
    /\ image[target] # None
    /\ \E h \in {"probeGlobal"} \cup (IF "noThread" \in Faults THEN {"failed"} ELSE {}) :
          hook' = [hook EXCEPT ![target] = IF @ = "absent" THEN h ELSE @]
    /\ ctl' = "idle"
    /\ target' = None
    /\ injected' = injected \cup {target}
    /\ UNCHANGED <<mappings, image, elevated, listed, loopVars>>

\* An error return; the writer, if there is one, is dropped as it stands.
FailInject ==
    /\ \/ ctl \in EarlyStages
       \/ ctl \in LateStages /\ ("lateFailure" \in Faults \/ image[target] = None)
    /\ DropWriters({target})
    /\ ctl' = "idle"
    /\ target' = None
    /\ UNCHANGED <<osVars, elevated, listed, injected, loopVars>>

-----------------------------------------------------------------------------
(***************************************************************************)
(* The other operations of the manager and the calls the App makes to it.  *)
(***************************************************************************)

\* Mutant: the delta stays in the mapping.
DisableUnzeroed(p) ==
    /\ ctl = "idle"
    /\ p \in injected
    /\ injected' = injected \ {p}
    /\ DropWriters({p})
    /\ UNCHANGED <<osVars, ctl, elevated, listed, target, loopVars>>

\* Mutant: set_delta_all(0) in place of a write to the one entry.
DisableZeroingAll(p) ==
    /\ ctl = "idle"
    /\ p \in injected
    /\ injected' = injected \ {p}
    /\ writer' = [writer EXCEPT ![p] = None]
    /\ payload' = [q \in Pids |-> [s \in Scopes |->
                     IF q \in injected /\ writer[q] = s THEN 0 ELSE payload[q][s]]]
    /\ UNCHANGED <<reader, osVars, ctl, elevated, listed, target, loopVars>>

\* disable: the entry goes, its delta is zeroed and its writer dropped.
Disable(p) ==
    /\ ctl = "idle"
    /\ p \in injected
    /\ injected' = injected \ {p}
    /\ writer' = [writer EXCEPT ![p] = None]
    /\ WriteDelta(p, 0)
    /\ UNCHANGED <<reader, osVars, ctl, elevated, listed, target, loopVars>>

\* apply_fake_time: the new delta, then set_delta_all in HashMap order.
ApplyFakeTime(d) ==
    /\ ctl = "idle"
    /\ current' = d
    /\ pending' = injected
    /\ ctl' = IF injected = {} THEN "idle" ELSE "publishing"
    /\ UNCHANGED <<mappings, osVars, elevated, listed, target, injected>>

Publish(p) ==
    /\ ctl = "publishing"
    /\ p \in pending
    /\ WriteDelta(p, current)
    /\ pending' = pending \ {p}
    /\ ctl' = IF pending' = {} THEN "idle" ELSE "publishing"
    /\ UNCHANGED <<writer, reader, osVars, elevated, listed, target, injected, current>>

\* Mutant: no prune_dead.
RefreshListOnly ==
    /\ ctl = "idle"
    /\ listed' = image
    /\ UNCHANGED <<mappings, osVars, ctl, elevated, target, injected, loopVars>>

\* refresh_processes_if_due: a new list, and prune_dead of what is not in it.
Refresh ==
    LET dead == {p \in injected : image[p] = None} IN
    /\ ctl = "idle"
    /\ listed' = image
    /\ injected' = injected \ dead
    /\ DropWriters(dead)
    /\ UNCHANGED <<osVars, ctl, elevated, target, loopVars>>

\* The Refresh button of the process tab does not prune.
RefreshButton ==
    /\ ctl = "idle"
    /\ listed' = image
    /\ UNCHANGED <<mappings, osVars, ctl, elevated, target, injected, loopVars>>

-----------------------------------------------------------------------------
(***************************************************************************)
(* The life of the controller.                                             *)
(***************************************************************************)

\* TimeMockerApp::new.  Only the elevation of the last controller is kept.
Launch ==
    /\ ctl = "off"
    /\ ctl' = "idle"
    /\ elevated' \in IF "elevationChange" \in Faults THEN BOOLEAN ELSE {elevated}
    /\ listed' = image
    /\ UNCHANGED <<mappings, osVars, target, injected, loopVars>>

\* Mutant: the handles close, nothing is zeroed.
QuitUnzeroed ==
    /\ ctl = "idle"
    /\ ctl' = "zeroing"
    /\ pending' = {}
    /\ UNCHANGED <<mappings, osVars, elevated, listed, target, injected, current>>

\* Drop of the manager: every delta is zeroed, then the handles close.
Quit ==
    /\ ctl = "idle"
    /\ ctl' = "zeroing"
    /\ pending' = injected
    /\ UNCHANGED <<mappings, osVars, elevated, listed, target, injected, current>>

Zero(p) ==
    /\ ctl = "zeroing"
    /\ p \in pending
    /\ WriteDelta(p, 0)
    /\ pending' = pending \ {p}
    /\ UNCHANGED <<writer, reader, osVars, ctl, elevated, listed, target, injected, current>>

\* Mutant: the loop that was under way is not forgotten.
CloseAllInLoop ==
    /\ DropWriters(Pids)
    /\ ctl' = "off"
    /\ listed' = NoImages
    /\ target' = None
    /\ injected' = {}
    /\ current' = 0
    /\ UNCHANGED <<pending, osVars, elevated>>

CloseAll ==
    /\ DropWriters(Pids)
    /\ ctl' = "off"
    /\ listed' = NoImages
    /\ target' = None
    /\ injected' = {}
    /\ pending' = {}
    /\ current' = 0
    /\ UNCHANGED <<osVars, elevated>>

FinishQuit == ctl = "zeroing" /\ pending = {} /\ CloseAll

Crash == "crash" \in Faults /\ ctl # "off" /\ CloseAll

-----------------------------------------------------------------------------

InjectStep ==
    CheckNative \/ CreateMapping \/ WriteInitial \/ OpenProcess \/ LoadHook \/ FailInject

Next ==
    \/ \E p \in Pids :
          \/ \E i \in Images : Start(p, i)
          \/ Exit(p) \/ ProbeGlobal(p) \/ ProbeLocal(p)
          \/ Verify(p) \/ Disable(p) \/ Publish(p) \/ Zero(p)
    \/ InjectStep
    \/ \E d \in Deltas : ApplyFakeTime(d)
    \/ Refresh \/ RefreshButton
    \/ Launch \/ Quit \/ FinishQuit \/ Crash

Spec == Init /\ [][Next]_vars

\* The UI thread finishes a call it has begun, and update() refreshes again
\* and again (request_repaint_after), between the calls the user makes; the
\* scheduler runs the bootstrap threads.  The user and the processes owe
\* nothing.
Fairness ==
    /\ WF_vars(InjectStep)
    /\ \A p \in Pids : WF_vars(Publish(p)) /\ WF_vars(Zero(p))
    /\ WF_vars(FinishQuit)
    /\ SF_vars(Refresh)
    /\ \A p \in Pids : WF_vars(ProbeGlobal(p)) /\ WF_vars(ProbeLocal(p))

FairSpec == Spec /\ Fairness
-----------------------------------------------------------------------------
(***************************************************************************)
(* Properties.                                                             *)
(***************************************************************************)

\* The mapping the controller has open for an entry holds the delta on
\* display, or 0 once the loop of Drop has passed it; only an entry the loop
\* of set_delta_all or of Drop has not reached is behind.  So inject publishes
\* the delta of the moment whatever was in the mapping, and no interleaving
\* with exits, bootstraps and crashes makes an entry miss a change.
EntryPublished ==
    \A p \in injected \ pending :
        /\ writer[p] # None
        /\ payload[p][writer[p]] = IF ctl = "zeroing" THEN 0 ELSE current

\* An entry whose PID is in use stands for the very process that loaded the
\* DLL: the process handle in the entry's Syringe keeps Windows from giving
\* the PID to another process before prune_dead removes the entry.
EntryLoaded ==
    \A p \in injected : image[p] # None => hook[p] # "absent"

\* Every process that is injected and whose hook has opened a mapping sees
\* the delta on display ("The hook reads the delta on every time API call");
\* only an entry that a loop has not reached yet is behind.
HookFollows ==
    \A p \in injected \ pending :
        hook[p] = "bound" => ReadDelta(p) = IF ctl = "zeroing" THEN 0 ELSE current

\* No process SYSTEM_PROCESS_EXCLUDE names, and none that is not native x64,
\* ever has the DLL.
NoSystemHooked ==
    \A p \in Pids :
        hook[p] # "absent" => image[p] \in NativeImages \ SystemImages

\* A process without an entry runs at real time, even with the hook loaded,
\* unless inject is at work on it: disable and Drop zero what they give up.
UntrackedReal ==
    \A p \in Pids \ (injected \cup {target}) : ReadDelta(p) = 0

\* An entry whose hook has opened another mapping than the entry's, that of an
\* earlier controller with another elevation, shows the user a process that
\* does not follow; but it is at real time, and never left at the delta of that
\* controller, which zeroed what it gave up.
UnreachedReal ==
    \A p \in injected :
        hook[p] = "bound" /\ reader[p] # writer[p] => ReadDelta(p) = 0

\* The bootstrap of a process that has its entry before the first probe, and
\* keeps it, opens a mapping.
BootstrapBinds ==
    \A p \in Pids :
        hook[p] = "probeGlobal" /\ p \in injected /\ image[p] \in SessionImages
            ~> hook[p] = "bound" \/ p \notin injected \/ image[p] = None

\* The entry of a process that has exited is removed.
ExitedPruned ==
    \A p \in Pids :
        p \in injected /\ image[p] = None ~> p \notin injected

\* Closing the window brings every process back to real time.
QuitRestores == ctl = "zeroing" ~> \A p \in Pids : ReadDelta(p) = 0

\* The offsets the controller may show a process: the one chosen last, and
\* the earlier ones in mappings that a loop has not reached.
Offers == {current} \cup {payload[p][writer[p]] : p \in pending}

Clock == INSTANCE FakeClock WITH offers <- Offers, shown <- [p \in Pids |-> ReadDelta(p)]

\* Seen from the processes, the controller and the hooks, with every fault,
\* are the clocks of FakeClock: one moves at a time, to the offset the user
\* chose (or the one being replaced) or back to real time, and none moves
\* away from real time while no controller runs.
ClocksFollow == Clock!ClockSpec
=============================================================================
