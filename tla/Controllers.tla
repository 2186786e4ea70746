---------------------------- MODULE Controllers ----------------------------
(***************************************************************************)
(* Several controllers at work on one process: nothing keeps a second      *)
(* TimeMocker from running, and both attach to the mappings of the same    *)
(* PID.  The hook in the process opens one of the names, once.             *)
(*                                                                         *)
(* Every controller is one UI thread; stage[c] is how far it is with this  *)
(* process.  The process is one inject accepts, in the session of the      *)
(* controllers.  No controller crashes, a PID is not handed out again      *)
(* while an inject is at work on it, and an inject fails only where the    *)
(* process has exited.  One that fails in a running process leaves its     *)
(* delta in a mapping others may have open; Injection has that fault.      *)
(***************************************************************************)
EXTENDS Integers

CONSTANTS Controllers, Deltas, None

ASSUME DeltasAssumption == Deltas \subseteq Int /\ 0 \in Deltas

Scopes == {"Global", "Local"}

ASSUME NoneAssumption == None \notin Scopes

VARIABLES
    alive,      \* the process runs
    hook,       \* how far the hook DLL is in it
    reader,     \* the scope of the mapping the hook has open
    payload,    \* payload[s]: the delta in the mapping of scope s
    elevated,   \* the controllers that may create Global names
    stage,      \* stage[c]: "entry" when c has the process in its list
    writer,     \* writer[c]: the scope of the mapping c has open
    current     \* current[c]: its current_delta_ticks

vars == <<alive, hook, reader, payload, elevated, stage, writer, current>>

Injecting == {"created", "written", "opened"}
Leaving == {"disabling", "quitting"}
Stages == {"off", "idle", "entry", "publishing"} \cup Injecting \cup Leaving

\* An object nobody has open is gone: its payload is kept at 0.
Open(s) == s = reader \/ \E c \in Controllers : writer[c] = s

TypeOK ==
    /\ alive \in BOOLEAN
    /\ hook \in {"absent", "probeGlobal", "probeLocal", "failed", "bound"}
    /\ hook # "absent" => alive
    /\ reader \in Scopes \cup {None}
    /\ reader # None <=> hook = "bound"
    /\ payload \in [Scopes -> Deltas]
    /\ \A s \in Scopes : payload[s] # 0 => Open(s)
    /\ elevated \subseteq Controllers
    /\ stage \in [Controllers -> Stages]
    /\ writer \in [Controllers -> Scopes \cup {None}]
    /\ \A c \in Controllers : writer[c] # None <=> stage[c] \notin {"off", "idle"}
    /\ current \in [Controllers -> Deltas]

Init ==
    /\ alive = FALSE
    /\ hook = "absent"
    /\ reader = None
    /\ payload = [s \in Scopes |-> 0]
    /\ elevated \in SUBSET Controllers
    /\ stage = [c \in Controllers |-> "off"]
    /\ writer = [c \in Controllers |-> None]
    /\ current = [c \in Controllers |-> 0]

-----------------------------------------------------------------------------
(***************************************************************************)
(* The controllers.                                                        *)
(***************************************************************************)

Goto(c, s) == stage' = [stage EXCEPT ![c] = s]

\* write_delta through the mapping c has open.
Write(c, d) == payload' = [payload EXCEPT ![writer[c]] = d]

\* The writer of c closes; an object nobody else has open goes away.
CloseWriter(c) ==
    /\ writer' = [writer EXCEPT ![c] = None]
    /\ payload' = [s \in Scopes |->
                     IF s = reader \/ \E o \in Controllers \ {c} : writer[o] = s
                     THEN payload[s] ELSE 0]
    /\ UNCHANGED <<alive, hook, reader, elevated>>

Launch(c) ==
    /\ stage[c] = "off"
    /\ Goto(c, "idle")
    /\ UNCHANGED <<alive, hook, reader, payload, elevated, writer, current>>

\* Mutant: a Global name that is taken sends the controller to Local.
CreateUntaken(c) ==
    /\ stage[c] = "idle"
    /\ alive
    /\ Goto(c, "created")
    /\ writer' = [writer EXCEPT ![c] =
                    IF c \in elevated /\ ~Open("Global") THEN "Global" ELSE "Local"]
    /\ UNCHANGED <<alive, hook, reader, payload, elevated, current>>

\* create_mmf_with_fallback.  Without elevation the Global name is denied,
\* also one that an elevated controller has created.
Create(c) ==
    /\ stage[c] = "idle"
    /\ alive
    /\ Goto(c, "created")
    /\ writer' = [writer EXCEPT ![c] = IF c \in elevated THEN "Global" ELSE "Local"]
    /\ UNCHANGED <<alive, hook, reader, payload, elevated, current>>

WriteInitial(c) ==
    /\ stage[c] = "created"
    /\ Goto(c, "written")
    /\ Write(c, current[c])
    /\ UNCHANGED <<alive, hook, reader, elevated, writer, current>>

OpenProcess(c) ==
    /\ stage[c] = "written"
    /\ alive
    /\ Goto(c, "opened")
    /\ UNCHANGED <<alive, hook, reader, payload, elevated, writer, current>>

\* LoadLibraryW in the process: DllMain runs for the first controller only.
LoadHook(c) ==
    /\ stage[c] = "opened"
    /\ alive
    /\ Goto(c, "entry")
    /\ hook' = IF hook = "absent" THEN "probeGlobal" ELSE hook
    /\ UNCHANGED <<alive, reader, payload, elevated, writer, current>>

\* Mutant: the writer of an inject that fails is leaked.
FailLeaking(c) ==
    /\ stage[c] \in {"written", "opened"}
    /\ ~alive
    /\ Goto(c, "idle")
    /\ UNCHANGED <<alive, hook, reader, payload, elevated, writer, current>>

\* The process is gone when it is to be opened or to load the DLL: the error
\* return drops the writer as it stands.
FailInject(c) ==
    /\ stage[c] \in {"written", "opened"}
    /\ ~alive
    /\ Goto(c, "idle")
    /\ CloseWriter(c)
    /\ UNCHANGED current

\* apply_fake_time: the new delta is on display before it is in any mapping.
Choose(c, d) ==
    /\ \/ stage[c] = "idle" /\ UNCHANGED stage
       \/ stage[c] = "entry" /\ Goto(c, "publishing")
    /\ current' = [current EXCEPT ![c] = d]
    /\ UNCHANGED <<alive, hook, reader, payload, elevated, writer>>

\* set_delta_all reaches this process.
Publish(c) ==
    /\ stage[c] = "publishing"
    /\ Goto(c, "entry")
    /\ Write(c, current[c])
    /\ UNCHANGED <<alive, hook, reader, elevated, writer, current>>

\* Mutant: disable drops the handle as it is.
DisableUnzeroed(c) ==
    /\ stage[c] = "entry"
    /\ Goto(c, "disabling")
    /\ UNCHANGED <<alive, hook, reader, payload, elevated, writer, current>>

\* disable zeroes the delta, then drops the entry with its handle.
Disable(c) ==
    /\ stage[c] = "entry"
    /\ Goto(c, "disabling")
    /\ Write(c, 0)
    /\ UNCHANGED <<alive, hook, reader, elevated, writer, current>>

\* The window closes: Drop of the manager zeroes, then the handle goes.
Quit(c) ==
    /\ stage[c] = "entry"
    /\ Goto(c, "quitting")
    /\ Write(c, 0)
    /\ UNCHANGED <<alive, hook, reader, elevated, writer, current>>

QuitIdle(c) ==
    /\ stage[c] = "idle"
    /\ Goto(c, "off")
    /\ current' = [current EXCEPT ![c] = 0]
    /\ UNCHANGED <<alive, hook, reader, payload, elevated, writer>>

\* The handles of the entry close.
DropEntry(c) ==
    /\ \/ /\ stage[c] = "disabling"
          /\ Goto(c, "idle")
          /\ UNCHANGED current
       \/ /\ stage[c] = "quitting"
          /\ Goto(c, "off")
          /\ current' = [current EXCEPT ![c] = 0]
    /\ CloseWriter(c)

\* prune_dead.
Prune(c) ==
    /\ stage[c] = "entry"
    /\ ~alive
    /\ Goto(c, "idle")
    /\ CloseWriter(c)
    /\ UNCHANGED current

-----------------------------------------------------------------------------
(***************************************************************************)
(* The process and the bootstrap thread of its hook.                       *)
(***************************************************************************)

\* The PID is handed out again once no controller has the process open.
Start ==
    /\ ~alive
    /\ \A c \in Controllers : stage[c] \in {"off", "idle"}
    /\ alive' = TRUE
    /\ UNCHANGED <<hook, reader, payload, elevated, stage, writer, current>>

Exit ==
    /\ alive
    /\ alive' = FALSE
    /\ hook' = "absent"
    /\ reader' = None
    /\ payload' = [s \in Scopes |->
                     IF \E c \in Controllers : writer[c] = s THEN payload[s] ELSE 0]
    /\ UNCHANGED <<elevated, stage, writer, current>>

Bind(s) == reader' = s /\ hook' = "bound"

ProbeGlobal ==
    /\ hook = "probeGlobal"
    /\ \/ Open("Global") /\ Bind("Global")
       \/ ~Open("Global") /\ hook' = "probeLocal" /\ UNCHANGED reader
    /\ UNCHANGED <<alive, payload, elevated, stage, writer, current>>

ProbeLocal ==
    /\ hook = "probeLocal"
    /\ \/ Open("Local") /\ Bind("Local")
       \/ ~Open("Local") /\ hook' = "failed" /\ UNCHANGED reader
    /\ UNCHANGED <<alive, payload, elevated, stage, writer, current>>

-----------------------------------------------------------------------------
Next ==
    \/ Start \/ Exit \/ ProbeGlobal \/ ProbeLocal
    \/ \E c \in Controllers :
          \/ Launch(c) \/ Create(c) \/ WriteInitial(c) \/ OpenProcess(c)
          \/ LoadHook(c) \/ FailInject(c) \/ Disable(c) \/ Quit(c) \/ QuitIdle(c)
          \/ DropEntry(c) \/ Prune(c) \/ Publish(c)
          \/ \E d \in Deltas : Choose(c, d)

Spec == Init /\ [][Next]_vars

-----------------------------------------------------------------------------
(***************************************************************************)
(* Properties.                                                             *)
(***************************************************************************)

\* What hooks::delta() returns.
Shown == IF reader = None THEN 0 ELSE payload[reader]

\* The controllers that stand behind the payload of scope s: theirs is the
\* delta in it, and theirs the zero it will get.
Offering(s) == {c \in Controllers : writer[c] = s /\ stage[c] \in {"written", "opened", "entry"}}

\* The controllers about to overwrite it with another.
Replacing(s) == {c \in Controllers : writer[c] = s /\ stage[c] = "publishing"}

\* As long as no inject fails in a running process, and no controller crashes:
\* however the controllers overwrite, disable and leave one another's
\* mappings, the process runs at real time, at the delta one of them has on
\* display that will zero it again, or at one that is about to be replaced.
ShownOffered ==
    \/ Shown = 0
    \/ \E c \in Offering(reader) : current[c] = Shown
    \/ Replacing(reader) # {}

\* Controllers of the same elevation all reach the hook, whichever of them
\* loaded it, and whichever have left since.
PeersReach ==
    elevated \in {{}, Controllers} =>
        \A c \in Controllers :
            stage[c] \in {"entry", "publishing"} /\ hook = "bound" => reader = writer[c]

\* What the clock of the process may be moved to: real time, what a controller
\* has on display, and what one of them is replacing in the running process.
Offers ==
    {0} \cup {current[c] : c \in Controllers}
        \cup {payload[writer[c]] : c \in {o \in Controllers : alive /\ stage[o] = "publishing"}}

Clock == INSTANCE FakeClock WITH
    Pids <- {"process"}, offers <- Offers, shown <- [p \in {"process"} |-> Shown]

\* Under the same two conditions the controllers together promise what one of
\* them does: whatever they do to each other's mappings, in whatever order, the
\* clock only ever moves to real time or to a delta one of them has on display
\* or is replacing; none that a controller left behind comes back.
ClocksFollow == Clock!ClockSpec
=============================================================================
