------------------------------ MODULE AppLoop ------------------------------
(***************************************************************************)
(* The App's update loop: the process list and its timer, the auto-inject  *)
(* scan over the rules and its timer, the process and rules tabs, and the  *)
(* log of the InjectionManager.                                            *)
(*                                                                         *)
(* Everything here runs on the one UI thread, a frame at a time; processes *)
(* start, get ready and exit between any two of its steps.                 *)
(***************************************************************************)
EXTENDS Naturals, FiniteSets, Sequences

CONSTANTS
    Pids,
    Rules,
    Malformed,  \* the rules whose pattern does not compile
    Matching,   \* Matching[r]: the PIDs whose path or name rule r matches
    Edited,     \* bound: the rules the user edits, the others stay as loaded
    LogCap      \* LOG_CAP

ASSUME LoopAssumption ==
    /\ IsFiniteSet(Pids)
    /\ Malformed \subseteq Rules
    /\ Matching \in [Rules -> SUBSET Pids]
    /\ Edited \subseteq Rules

\* The log holds what a scan that fails for every process writes: a warning
\* and a failure each.
ASSUME LogAssumption == LogCap \in Nat /\ LogCap >= 2 * Cardinality(Pids)

VARIABLES
    alive,      \* the running processes
    open,       \* those inject would succeed for
    manager,    \* InjectionManager::new found the hook DLL fit to inject
    listed,     \* the PIDs of App::processes
    injected,   \* the keys of InjectionManager::injected
    refreshDue, \* 1.5 s have passed since last_refresh
    scanDue,    \* 1.5 s have passed since last_auto_inject_scan
    auto,       \* auto_inject_enabled
    rules,      \* rules[r]: "none" where the list has no such rule
    pc,         \* where update is: "rest" between two frames, "scan" or "ui"
    left,       \* the listed processes the scan has not come to
    failed,     \* those inject has failed for in this scan
    age,        \* age[p]: the lines in the log after the failure of p, LogCap
                \* where its line is gone or its last inject did not fail
    warned      \* local_fallback_warned, or no fallback is ever needed

processVars == <<alive, open>>
timerVars == <<refreshDue, scanDue>>
ruleVars == <<auto, rules>>
scanVars == <<pc, left, failed>>
logVars == <<age, warned>>
vars == <<alive, open, manager, listed, injected, refreshDue, scanDue, auto,
          rules, pc, left, failed, age, warned>>

TypeOK ==
    /\ alive \subseteq Pids
    /\ open \subseteq alive
    /\ manager \in BOOLEAN
    /\ listed \subseteq Pids
    /\ injected \subseteq Pids
    /\ {refreshDue, scanDue, auto, warned} \subseteq BOOLEAN
    /\ rules \in [Rules -> {"none", "on", "off"}]
    /\ pc \in {"rest", "scan", "ui"}
    /\ left \subseteq listed
    /\ failed \subseteq Pids
    /\ age \in [Pids -> 0..LogCap]

\* TimeMockerApp::new: rules and the auto-inject box as they were saved, and
\* the processes that run.
Init ==
    /\ alive \in SUBSET Pids
    /\ open \in SUBSET alive
    /\ manager \in BOOLEAN
    /\ listed = alive
    /\ injected = {}
    /\ refreshDue = FALSE
    /\ scanDue = FALSE
    /\ auto \in BOOLEAN
    /\ rules \in {f \in [Rules -> {"none", "on", "off"}] :
                    \A r \in Rules \ Edited : f[r] = "on"}
    /\ pc = "rest"
    /\ left = {}
    /\ failed = {}
    /\ age = [p \in Pids |-> LogCap]
    /\ warned \in BOOLEAN

-----------------------------------------------------------------------------
(***************************************************************************)
(* The rules.                                                              *)
(***************************************************************************)

\* Mutant: one rule that does not compile leaves none.
CompiledAllOrNone ==
    LET on == {r \in Rules : rules[r] = "on"} IN
    IF on \cap Malformed = {} THEN on ELSE {}

\* CompiledRules::compile drops the rules that do not.
Compiled == {r \in Rules : rules[r] = "on"} \ Malformed

Matches(p) == \E r \in Compiled : p \in Matching[r]

-----------------------------------------------------------------------------
(***************************************************************************)
(* InjectionManager::inject and the log.                                   *)
(***************************************************************************)

\* log_push of a line.
LogPush(log, line) ==
    LET longer == Append(log, line) IN
    IF Len(longer) > LogCap THEN Tail(longer) ELSE longer

\* Mutant: room for half the lines.
LogHalved(n) ==
    [p \in Pids |-> IF 2 * (age[p] + n) < LogCap THEN age[p] + n ELSE LogCap]

\* What log_push of n lines does to the ages.
Log(n) == [p \in Pids |-> IF age[p] + n < LogCap THEN age[p] + n ELSE LogCap]

\* The lines before the outcome: none where inject fails ahead of the mapping,
\* then the fallback once per session, and a mapping that pre-existed because
\* some handle is still open.
Warnings == {IF warned THEN n ELSE n + 1 : n \in {0, 1}}

Inject(p) ==
    \/ /\ p \in open
       /\ injected' = injected \cup {p}
       /\ \E n \in Warnings : age' = [Log(n + 1) EXCEPT ![p] = LogCap]
       /\ warned' = TRUE
    \/ /\ p \notin open
       /\ \/ /\ age' = [Log(1) EXCEPT ![p] = 0]
             /\ UNCHANGED warned
          \/ /\ \E n \in Warnings : age' = [Log(n + 1) EXCEPT ![p] = 0]
             /\ warned' = TRUE
       /\ UNCHANGED injected

-----------------------------------------------------------------------------
(***************************************************************************)
(* A frame: refresh_processes_if_due, auto_inject_scan_if_due, the tabs.   *)
(***************************************************************************)

\* Mutant: prune_dead is left to the Refresh button.
RefreshListIfDue ==
    /\ listed' = IF refreshDue THEN alive ELSE listed
    /\ UNCHANGED injected
    /\ refreshDue' = FALSE

RefreshIfDue ==
    /\ listed' = IF refreshDue THEN alive ELSE listed
    /\ injected' = IF refreshDue THEN injected \cap alive ELSE injected
    /\ refreshDue' = FALSE

\* The scan's timer starts again even where there is no manager.
ScanIfDue ==
    IF auto /\ scanDue
    THEN /\ scanDue' = FALSE
         /\ pc' = "scan"
         /\ left' = IF manager THEN listed' ELSE {}
    ELSE /\ UNCHANGED <<scanDue, left>>
         /\ pc' = "ui"

Update ==
    /\ pc = "rest"
    /\ RefreshIfDue
    /\ ScanIfDue
    /\ UNCHANGED <<processVars, manager, ruleVars, failed, logVars>>

\* Mutant: a process that has failed before is not tried again.
ScanOnce(p) ==
    /\ pc = "scan"
    /\ p \in left
    /\ left' = left \ {p}
    /\ IF p \notin injected /\ Matches(p) /\ age[p] = LogCap
       THEN /\ Inject(p)
            /\ failed' = IF p \in injected' THEN failed ELSE failed \cup {p}
       ELSE UNCHANGED <<injected, logVars, failed>>
    /\ UNCHANGED <<processVars, manager, listed, timerVars, ruleVars, pc>>

\* Mutant: a process that cannot be injected ends the scan.
ScanToFailure(p) ==
    /\ pc = "scan"
    /\ p \in left
    /\ IF p \notin injected /\ Matches(p)
       THEN /\ Inject(p)
            /\ failed' = IF p \in injected' THEN failed ELSE failed \cup {p}
            /\ left' = IF p \in injected' THEN left \ {p} ELSE {}
       ELSE left' = left \ {p} /\ UNCHANGED <<injected, logVars, failed>>
    /\ UNCHANGED <<processVars, manager, listed, timerVars, ruleVars, pc>>

\* One turn of the loop of auto_inject_scan_if_due.
Scan(p) ==
    /\ pc = "scan"
    /\ p \in left
    /\ left' = left \ {p}
    /\ IF p \notin injected /\ Matches(p)
       THEN /\ Inject(p)
            /\ failed' = IF p \in injected' THEN failed ELSE failed \cup {p}
       ELSE UNCHANGED <<injected, logVars, failed>>
    /\ UNCHANGED <<processVars, manager, listed, timerVars, ruleVars, pc>>

\* Mutant: a process that is skipped ends the scan.
EndScanEarly ==
    /\ pc = "scan"
    /\ pc' = "ui"
    /\ failed' = {}
    /\ UNCHANGED <<processVars, manager, listed, injected, timerVars, ruleVars,
                   left, logVars>>

EndScan ==
    /\ pc = "scan"
    /\ left = {}
    /\ pc' = "ui"
    /\ failed' = {}
    /\ UNCHANGED <<processVars, manager, listed, injected, timerVars, ruleVars,
                   left, logVars>>

EndFrame ==
    /\ pc = "ui"
    /\ pc' = "rest"
    /\ UNCHANGED <<processVars, manager, listed, injected, timerVars, ruleVars,
                   left, failed, logVars>>

-----------------------------------------------------------------------------
(***************************************************************************)
(* What the user does in a frame.                                          *)
(***************************************************************************)

\* The check box of a row: inject, or disable.
Check(p) ==
    /\ pc = "ui"
    /\ manager
    /\ p \in listed \ injected
    /\ Inject(p)
    /\ UNCHANGED <<processVars, manager, listed, timerVars, ruleVars, scanVars>>

Uncheck(p) ==
    /\ pc = "ui"
    /\ p \in listed \cap injected
    /\ injected' = injected \ {p}
    /\ age' = Log(1)
    /\ UNCHANGED <<processVars, manager, listed, timerVars, ruleVars, scanVars, warned>>

\* The Refresh button of the process tab does not prune.
RefreshButton ==
    /\ pc = "ui"
    /\ listed' = alive
    /\ UNCHANGED <<processVars, manager, injected, timerVars, ruleVars, scanVars, logVars>>

ToggleAuto ==
    /\ pc = "ui"
    /\ auto' = ~auto
    /\ UNCHANGED <<processVars, manager, listed, injected, timerVars, rules,
                   scanVars, logVars>>

SetRule(r, state) ==
    /\ pc = "ui"
    /\ rules' = [rules EXCEPT ![r] = state]
    /\ UNCHANGED <<processVars, manager, listed, injected, timerVars, auto,
                   scanVars, logVars>>

AddRule(r) == rules[r] = "none" /\ SetRule(r, "on")

ToggleRule(r) ==
    \/ rules[r] = "on" /\ SetRule(r, "off")
    \/ rules[r] = "off" /\ SetRule(r, "on")

RemoveRule(r) == rules[r] # "none" /\ SetRule(r, "none")

-----------------------------------------------------------------------------
(***************************************************************************)
(* The environment.  A PID is not handed out again while the Syringe of an *)
(* entry holds a handle on its process.                                    *)
(***************************************************************************)

\* Mutant: the entry keeps no handle.
StartUnpinned(p) ==
    /\ p \notin alive
    /\ alive' = alive \cup {p}
    /\ UNCHANGED <<open, manager, listed, injected, timerVars, ruleVars, scanVars, logVars>>

Start(p) ==
    /\ p \notin alive \cup injected
    /\ alive' = alive \cup {p}
    /\ UNCHANGED <<open, manager, listed, injected, timerVars, ruleVars, scanVars, logVars>>

\* Whatever made inject fail is gone, the image in the list included.
GetReady(p) ==
    /\ p \in alive \ open
    /\ open' = open \cup {p}
    /\ UNCHANGED <<alive, manager, listed, injected, timerVars, ruleVars, scanVars, logVars>>

Exit(p) ==
    /\ p \in alive
    /\ alive' = alive \ {p}
    /\ open' = open \ {p}
    /\ UNCHANGED <<manager, listed, injected, timerVars, ruleVars, scanVars, logVars>>

\* Instants that have elapsed.
RefreshElapses ==
    /\ ~refreshDue
    /\ refreshDue' = TRUE
    /\ UNCHANGED <<processVars, manager, listed, injected, scanDue, ruleVars,
                   scanVars, logVars>>

ScanElapses ==
    /\ ~scanDue
    /\ scanDue' = TRUE
    /\ UNCHANGED <<processVars, manager, listed, injected, refreshDue, ruleVars,
                   scanVars, logVars>>

-----------------------------------------------------------------------------
Frame == Update \/ EndScan \/ EndFrame \/ \E p \in Pids : Scan(p)

User ==
    \/ RefreshButton \/ ToggleAuto
    \/ \E p \in Pids : Check(p) \/ Uncheck(p)
    \/ \E r \in Edited : AddRule(r) \/ ToggleRule(r) \/ RemoveRule(r)

Environment ==
    \/ RefreshElapses \/ ScanElapses
    \/ \E p \in Pids : Start(p) \/ GetReady(p) \/ Exit(p)

Next == Frame \/ User \/ Environment

\* update asks for a repaint every 500 ms, and time passes.
Fairness == WF_vars(Frame) /\ WF_vars(RefreshElapses) /\ WF_vars(ScanElapses)

Spec == Init /\ [][Next]_vars /\ Fairness

-----------------------------------------------------------------------------
(***************************************************************************)
(* Properties.                                                             *)
(***************************************************************************)

\* At the end of a scan the log still shows every failure of it, however many
\* warnings the other processes of the scan have pushed after it.
ScanReported == \A p \in failed : age[p] < LogCap

\* No process that a rule matches is passed over in silence: once the scan is
\* past it, it has an entry or its failure is in the log.
NoneOverlooked ==
    pc = "scan" /\ manager =>
        \A p \in listed \ left : Matches(p) => p \in injected \/ age[p] < LogCap

\* Every running process with an entry has a row, whose box takes the injection
\* back, also when the Refresh button has taken the row of an earlier process
\* of its PID off the list and left the entry.
EntryListed == injected \cap alive \subseteq listed

\* What a rule asks for: p can be injected, and the scan is on.
Wanted(p) == manager /\ auto /\ Matches(p) /\ p \in open

\* A process that stays wanted is injected in the end, whatever happened to it
\* before: one failed attempt, or a rule that is malformed, does not keep the
\* scan from it.
WantedInjected == \A p \in Pids : Wanted(p) ~> p \in injected \/ ~Wanted(p)

\* The entry of a process that has exited goes, although nothing but the timer
\* prunes it, and its PID can be handed out again.
DeadPruned == \A p \in Pids : p \in injected \ alive ~> p \notin injected
=============================================================================
