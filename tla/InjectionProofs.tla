-------------------------- MODULE InjectionProofs --------------------------
(***************************************************************************)
(* Theorems about Injection, for any number of processes, images and       *)
(* deltas.  The invariants come in layers: type correctness, then what     *)
(* holds under every fault, then what holds when some faults do not occur. *)
(***************************************************************************)
EXTENDS Injection, TLAPS

USE NoneAssumption, DeltasAssumption, ImagesAssumption

-----------------------------------------------------------------------------
(***************************************************************************)
(* Type correctness.                                                       *)
(***************************************************************************)

\* The operations on mappings keep their types.
LEMMA MappingTypes ==
    ASSUME MappingsOK
    PROVE  /\ \A p \in Pids, s \in Scopes : CreateWriter(s, p) => MappingsOK'
           /\ \A p \in Pids, s \in Scopes : OpenReader(s, p) => MappingsOK'
           /\ \A P \in SUBSET Pids : DropWriters(P) => MappingsOK'
           /\ \A p \in Pids : DropReader(p) => MappingsOK'
           /\ \A p \in Pids, d \in Deltas :
                 WriteDelta(p, d) /\ writer' \in [Pids -> Scopes \cup {None}] /\ UNCHANGED reader
                    => MappingsOK'
<1>1. \A p \in Pids, s \in Scopes : CreateWriter(s, p) => MappingsOK'
    BY DEF MappingsOK, CreateWriter
<1>2. \A p \in Pids, s \in Scopes : OpenReader(s, p) => MappingsOK'
    BY DEF MappingsOK, OpenReader
<1>3. \A P \in SUBSET Pids : DropWriters(P) => MappingsOK'
    BY DEF MappingsOK, DropWriters
<1>4. \A p \in Pids : DropReader(p) => MappingsOK'
    BY DEF MappingsOK, DropReader
<1>5. ASSUME NEW p \in Pids, NEW d \in Deltas,
             WriteDelta(p, d), writer' \in [Pids -> Scopes \cup {None}], UNCHANGED reader
      PROVE  MappingsOK'
    BY <1>5 DEF MappingsOK, WriteDelta
<1> QED BY <1>1, <1>2, <1>3, <1>4, <1>5

\* What the types of the actions rest on: inject works on a process that has
\* no entry, and entries wait for a write only inside the two loops.
StagesOK ==
    /\ ctl \in InjectStages => target \in Pids \ injected
    /\ ctl \notin {"publishing", "zeroing"} => pending = {}

Typing == TypeOK /\ StagesOK

LEMMA TypingInit == Init => Typing
BY DEF Init, MappingsInit, Typing, TypeOK, StagesOK, MappingsOK, NoImages,
       HookStages, CtlStages, InjectStages, EarlyStages, LateStages

LEMMA TypingStep == Typing /\ [Next]_vars => Typing'
<1> SUFFICES ASSUME Typing, [Next]_vars PROVE Typing'
    OBVIOUS
<1> USE DEF Typing, TypeOK, StagesOK, InjectStages, EarlyStages, LateStages, CtlStages,
            HookStages, Booting, osVars, loopVars, mappings
<1>0. MappingsOK' \/ ~UNCHANGED mappings
    BY DEF MappingsOK
<1>1. ASSUME NEW p \in Pids, NEW i \in Images, Start(p, i) PROVE Typing'
    BY <1>0, <1>1 DEF Start
<1>2. ASSUME NEW p \in Pids, Exit(p) PROVE Typing'
    BY <1>2, MappingTypes DEF Exit
<1>3. ASSUME NEW p \in Pids, ProbeGlobal(p) PROVE Typing'
    BY <1>0, <1>3, MappingTypes DEF ProbeGlobal, Bind, Scopes
<1>4. ASSUME NEW p \in Pids, ProbeLocal(p) PROVE Typing'
    BY <1>0, <1>4, MappingTypes DEF ProbeLocal, Bind, Scopes
<1>5. ASSUME NEW p \in Pids, Verify(p) PROVE Typing'
    BY <1>0, <1>5 DEF Verify
<1>6. ASSUME NEW p \in Pids, Disable(p) PROVE Typing'
    <2>1. MappingsOK'
        BY <1>6 DEF Disable, WriteDelta, MappingsOK
    <2> QED BY <2>1, <1>6 DEF Disable
<1>7. ASSUME NEW p \in Pids, Publish(p) PROVE Typing'
    <2>1. MappingsOK'
        BY <1>7 DEF Publish, WriteDelta, MappingsOK
    <2> QED BY <2>1, <1>7 DEF Publish
<1>8. ASSUME NEW p \in Pids, Zero(p) PROVE Typing'
    <2>1. MappingsOK'
        BY <1>8 DEF Zero, WriteDelta, MappingsOK
    <2> QED BY <2>1, <1>8 DEF Zero
<1>9. CASE CheckNative \/ OpenProcess
    BY <1>0, <1>9 DEF CheckNative, OpenProcess
<1>10. CASE CreateMapping
    BY <1>10, MappingTypes DEF CreateMapping, Scopes
<1>11. CASE WriteInitial
    <2>1. MappingsOK'
        BY <1>11 DEF WriteInitial, WriteDelta, MappingsOK
    <2> QED BY <2>1, <1>11 DEF WriteInitial
<1>12. CASE LoadHook
    BY <1>0, <1>12 DEF LoadHook
<1>13. CASE FailInject
    <2>1. {target} \in SUBSET Pids
        BY <1>13 DEF FailInject
    <2> QED BY <2>1, <1>13, MappingTypes DEF FailInject
<1>14. ASSUME NEW d \in Deltas, ApplyFakeTime(d) PROVE Typing'
    BY <1>0, <1>14 DEF ApplyFakeTime
<1>15. CASE Refresh
    BY <1>15, MappingTypes DEF Refresh
<1>16. CASE RefreshButton \/ Launch \/ Quit
    BY <1>0, <1>16 DEF RefreshButton, Launch, Quit
<1>17. CASE FinishQuit \/ Crash
    BY <1>17, MappingTypes DEF FinishQuit, Crash, CloseAll, NoImages
<1>18. CASE UNCHANGED vars
    BY <1>0, <1>18 DEF vars
<1> QED
    BY <1>1, <1>2, <1>3, <1>4, <1>5, <1>6, <1>7, <1>8, <1>9, <1>10, <1>11, <1>12, <1>13,
       <1>14, <1>15, <1>16, <1>17, <1>18 DEF Next, InjectStep

\* Every variable keeps its type, and inject never works on an entry.
THEOREM TypeCorrect == Spec => []Typing
<1>1. Spec => []Typing
    BY TypingInit, TypingStep, PTL DEF Spec
<1> QED BY <1>1

\* TypeOK, the type invariant of the model, holds in every state.
THEOREM TypeInvariant == Spec => []TypeOK
BY TypeCorrect, PTL DEF Typing

-----------------------------------------------------------------------------
(***************************************************************************)
(* Under every fault: what an entry's mapping holds, and which process the *)
(* entry stands for.                                                       *)
(***************************************************************************)

Created == {"created"} \cup LateStages

\* inject has its mapping open, and has published, before it records an entry.
LateWritten ==
    /\ ctl \in Created => writer[target] # None
    /\ ctl \in LateStages => payload[target][writer[target]] = current

PublishInv == LateWritten /\ EntryPublished

LEMMA PublishStep == Typing /\ Typing' /\ PublishInv /\ [Next]_vars => PublishInv'
<1> SUFFICES ASSUME Typing, Typing', PublishInv, [Next]_vars PROVE PublishInv'
    OBVIOUS
<1> USE DEF Typing, TypeOK, StagesOK, MappingsOK, PublishInv, LateWritten, EntryPublished,
            Created, InjectStages, EarlyStages, LateStages, osVars, loopVars, mappings
<1>1. ASSUME NEW p \in Pids, NEW i \in Images, Start(p, i) PROVE PublishInv'
    BY <1>1 DEF Start
<1>2. ASSUME NEW p \in Pids, Exit(p) PROVE PublishInv'
    BY <1>2 DEF Exit, DropReader
<1>3. ASSUME NEW p \in Pids, ProbeGlobal(p) \/ ProbeLocal(p) PROVE PublishInv'
    BY <1>3 DEF ProbeGlobal, ProbeLocal, Bind, OpenReader
<1>4. ASSUME NEW p \in Pids, Verify(p) PROVE PublishInv'
    BY <1>4 DEF Verify
<1>5. ASSUME NEW p \in Pids, Disable(p) PROVE PublishInv'
    BY <1>5 DEF Disable, WriteDelta
<1>6. ASSUME NEW p \in Pids, Publish(p) PROVE PublishInv'
    BY <1>6 DEF Publish, WriteDelta
<1>7. ASSUME NEW p \in Pids, Zero(p) PROVE PublishInv'
    BY <1>7 DEF Zero, WriteDelta
<1>8. CASE CheckNative \/ OpenProcess
    BY <1>8 DEF CheckNative, OpenProcess
<1>9. CASE CreateMapping
    BY <1>9 DEF CreateMapping, CreateWriter, Scopes
<1>10. CASE WriteInitial
    BY <1>10 DEF WriteInitial, WriteDelta
<1>11. CASE LoadHook
    BY <1>11 DEF LoadHook
<1>12. CASE FailInject
    BY <1>12 DEF FailInject, DropWriters
<1>13. ASSUME NEW d \in Deltas, ApplyFakeTime(d) PROVE PublishInv'
    BY <1>13 DEF ApplyFakeTime
<1>14. CASE Refresh
    BY <1>14 DEF Refresh, DropWriters
<1>15. CASE RefreshButton \/ Launch \/ Quit
    BY <1>15 DEF RefreshButton, Launch, Quit
<1>16. CASE FinishQuit \/ Crash
    BY <1>16 DEF FinishQuit, Crash, CloseAll
<1>17. CASE UNCHANGED vars
    BY <1>17 DEF vars
<1> QED
    BY <1>1, <1>2, <1>3, <1>4, <1>5, <1>6, <1>7, <1>8, <1>9, <1>10, <1>11, <1>12, <1>13,
       <1>14, <1>15, <1>16, <1>17 DEF Next, InjectStep

LEMMA PublishCorrect == Spec => []PublishInv
<1>1. Init => PublishInv
    BY DEF Init, PublishInv, LateWritten, EntryPublished, Created, LateStages
<1> QED BY <1>1, TypeCorrect, PublishStep, PTL DEF Spec

\* Whatever faults occur, the mapping of an entry holds the delta on display
\* (0 once Drop has passed it) unless a loop has yet to reach the entry.
THEOREM EntriesPublished == Spec => []EntryPublished
BY PublishCorrect, PTL DEF PublishInv

\* Whatever faults occur, an entry whose PID is in use stands for the process
\* that loaded the DLL.
THEOREM EntriesLoaded == Spec => []EntryLoaded
<1>1. Init => EntryLoaded
    BY DEF Init, EntryLoaded
<1>2. Typing /\ EntryLoaded /\ [Next]_vars => EntryLoaded'
  <2> SUFFICES ASSUME Typing, EntryLoaded, [Next]_vars PROVE EntryLoaded'
      OBVIOUS
  <2> USE DEF Typing, TypeOK, StagesOK, EntryLoaded, InjectStages, EarlyStages, LateStages,
              osVars
  <2>1. ASSUME NEW p \in Pids, NEW i \in Images, Start(p, i) PROVE EntryLoaded'
      BY <2>1 DEF Start, Pinned
  <2>2. ASSUME NEW p \in Pids, Exit(p) PROVE EntryLoaded'
      BY <2>2 DEF Exit
  <2>3. ASSUME NEW p \in Pids, ProbeGlobal(p) \/ ProbeLocal(p) PROVE EntryLoaded'
      BY <2>3 DEF ProbeGlobal, ProbeLocal, Bind
  <2>4. CASE LoadHook
      BY <2>4 DEF LoadHook
  <2>5. CASE injected' \subseteq injected /\ UNCHANGED osVars
      BY <2>5
  <2> QED
      BY <2>1, <2>2, <2>3, <2>4, <2>5
      DEF Next, InjectStep, Verify, Disable, Publish, Zero, CheckNative, CreateMapping,
          WriteInitial, OpenProcess, FailInject, ApplyFakeTime, Refresh, RefreshButton,
          Launch, Quit, FinishQuit, Crash, CloseAll, vars
<1> QED BY <1>1, <1>2, TypeCorrect, PTL DEF Spec

-----------------------------------------------------------------------------
(***************************************************************************)
(* Controllers of one elevation: hooks follow the delta.                   *)
(***************************************************************************)

TokenScope == IF elevated THEN "Global" ELSE "Local"

\* All mappings ever opened are in the scope of the controller's token.
ScopesAgree ==
    \A p \in Pids :
        /\ {writer[p], reader[p]} \subseteq {None, TokenScope}
        /\ hook[p] = "bound" => reader[p] # None

LEMMA ScopesStep ==
    ASSUME "elevationChange" \notin Faults
    PROVE  Typing /\ ScopesAgree /\ [Next]_vars => ScopesAgree'
<1> SUFFICES ASSUME Typing, ScopesAgree, [Next]_vars PROVE ScopesAgree'
    OBVIOUS
<1> USE DEF Typing, TypeOK, StagesOK, MappingsOK, ScopesAgree, TokenScope, Scopes,
            InjectStages, EarlyStages, LateStages, osVars, loopVars, mappings
<1>1. ASSUME NEW p \in Pids, Exit(p) PROVE ScopesAgree'
    BY <1>1 DEF Exit, DropReader
<1>2. ASSUME NEW p \in Pids, ProbeGlobal(p) \/ ProbeLocal(p) PROVE ScopesAgree'
    BY <1>2 DEF ProbeGlobal, ProbeLocal, LocalVisible, Exists, Bind, OpenReader
<1>3. ASSUME NEW p \in Pids, Disable(p) PROVE ScopesAgree'
    BY <1>3 DEF Disable
<1>4. CASE CreateMapping
    BY <1>4 DEF CreateMapping, CreateWriter
<1>5. CASE LoadHook
    BY <1>5 DEF LoadHook
<1>6. CASE FailInject \/ Refresh \/ FinishQuit \/ Crash
    BY <1>6 DEF FailInject, Refresh, FinishQuit, Crash, CloseAll, DropWriters
<1>7. CASE Launch
    BY <1>7 DEF Launch
<1>8. CASE UNCHANGED <<writer, reader, hook, elevated>>
    BY <1>8
<1> QED
    BY <1>1, <1>2, <1>3, <1>4, <1>5, <1>6, <1>7, <1>8
    DEF Next, InjectStep, Start, Verify, Publish, Zero, CheckNative, WriteInitial,
        OpenProcess, ApplyFakeTime, RefreshButton, Quit, vars

\* When no later controller has another elevation, every injected process
\* whose hook has opened its mapping sees the delta on display, also after
\* crashes and failed injections.
THEOREM HooksFollow ==
    ASSUME "elevationChange" \notin Faults
    PROVE  Spec => []HookFollows
<1>1. Init => ScopesAgree
    BY DEF Init, MappingsInit, ScopesAgree
<1>2. Typing /\ ScopesAgree /\ [Next]_vars => ScopesAgree'
    BY ScopesStep
<1>3. Typing /\ ScopesAgree /\ EntryPublished => HookFollows
    BY DEF Typing, TypeOK, ScopesAgree, EntryPublished, HookFollows, ReadDelta
<1> QED BY <1>1, <1>2, <1>3, TypeCorrect, EntriesPublished, PTL DEF Spec

-----------------------------------------------------------------------------
(***************************************************************************)
(* No PID reused inside inject: only checked processes are hooked.         *)
(***************************************************************************)

\* Nothing of a hook outlives its process.
GoneUnhooked ==
    \A p \in Pids : image[p] = None => hook[p] = "absent" /\ reader[p] = None

LEMMA GoneStep == Typing /\ GoneUnhooked /\ [Next]_vars => GoneUnhooked'
<1> SUFFICES ASSUME Typing, GoneUnhooked, [Next]_vars PROVE GoneUnhooked'
    OBVIOUS
<1> USE DEF Typing, TypeOK, MappingsOK, GoneUnhooked, osVars, mappings
<1>1. ASSUME NEW p \in Pids, NEW i \in Images, Start(p, i) PROVE GoneUnhooked'
    BY <1>1 DEF Start
<1>2. ASSUME NEW p \in Pids, Exit(p) PROVE GoneUnhooked'
    BY <1>2 DEF Exit, DropReader
<1>3. ASSUME NEW p \in Pids, ProbeGlobal(p) \/ ProbeLocal(p) PROVE GoneUnhooked'
    BY <1>3 DEF ProbeGlobal, ProbeLocal, Bind, OpenReader
<1>4. CASE LoadHook
    BY <1>4 DEF LoadHook
<1>5. CASE UNCHANGED <<image, hook, reader>>
    BY <1>5
<1> QED
    BY <1>1, <1>2, <1>3, <1>4, <1>5
    DEF Next, InjectStep, Verify, Disable, Publish, Zero, CheckNative, CreateMapping,
        CreateWriter, WriteInitial, OpenProcess, FailInject, ApplyFakeTime, Refresh,
        RefreshButton, Launch, Quit, FinishQuit, Crash, CloseAll, DropWriters, vars

LEMMA GoneCorrect == Spec => []GoneUnhooked
<1>1. Init => GoneUnhooked
    BY DEF Init, MappingsInit, GoneUnhooked
<1> QED BY <1>1, TypeCorrect, GoneStep, PTL DEF Spec

\* What inject has checked of its target still holds, or the target has exited.
TargetChecked ==
    ctl \in InjectStages =>
        \/ image[target] = None
        \/ /\ image[target] \notin SystemImages
           /\ ctl # "verified" => image[target] \in NativeImages

CheckInv == TargetChecked /\ NoSystemHooked

LEMMA CheckStep ==
    ASSUME "quickReuse" \notin Faults
    PROVE  Typing /\ GoneUnhooked /\ CheckInv /\ [Next]_vars => CheckInv'
<1> SUFFICES ASSUME Typing, GoneUnhooked, CheckInv, [Next]_vars PROVE CheckInv'
    OBVIOUS
<1> USE DEF Typing, TypeOK, StagesOK, GoneUnhooked, CheckInv, TargetChecked, NoSystemHooked,
            InjectStages, EarlyStages, LateStages, osVars
<1>1. ASSUME NEW p \in Pids, NEW i \in Images, Start(p, i) PROVE CheckInv'
    BY <1>1 DEF Start
<1>2. ASSUME NEW p \in Pids, Exit(p) PROVE CheckInv'
    BY <1>2 DEF Exit
<1>3. ASSUME NEW p \in Pids, ProbeGlobal(p) \/ ProbeLocal(p) PROVE CheckInv'
    BY <1>3 DEF ProbeGlobal, ProbeLocal, Bind
<1>4. ASSUME NEW p \in Pids, Verify(p) PROVE CheckInv'
    BY <1>4 DEF Verify
<1>5. CASE CheckNative
    BY <1>5 DEF CheckNative
<1>6. CASE CreateMapping \/ WriteInitial \/ OpenProcess
    BY <1>6 DEF CreateMapping, WriteInitial, OpenProcess
<1>7. CASE LoadHook
    BY <1>7 DEF LoadHook
<1>8. CASE UNCHANGED osVars /\ ctl' \notin InjectStages
    BY <1>8
<1>9. CASE UNCHANGED <<osVars, ctl, target>>
    BY <1>9
<1> QED
    BY <1>1, <1>2, <1>3, <1>4, <1>5, <1>6, <1>7, <1>8, <1>9
    DEF Next, InjectStep, Disable, Publish, Zero, FailInject, ApplyFakeTime, Refresh,
        RefreshButton, Launch, Quit, FinishQuit, Crash, CloseAll, vars

\* When no PID is reused while inject works on it, no excluded and no foreign
\* process is ever hooked.
THEOREM OnlyCheckedHooked ==
    ASSUME "quickReuse" \notin Faults
    PROVE  Spec => []NoSystemHooked
<1>1. Init => CheckInv
    BY DEF Init, CheckInv, TargetChecked, NoSystemHooked, InjectStages, EarlyStages, LateStages
<1>2. Typing /\ GoneUnhooked /\ CheckInv /\ [Next]_vars => CheckInv'
    BY CheckStep
<1> QED BY <1>1, <1>2, TypeCorrect, GoneCorrect, PTL DEF Spec, CheckInv

-----------------------------------------------------------------------------
(***************************************************************************)
(* Under every fault: which names are in use, and what unused ones hold.   *)
(***************************************************************************)

\* The writers are those of the entries and of the inject that is under way.
WriterOwned ==
    \A p \in Pids : writer[p] # None <=> p \in injected \/ (ctl \in Created /\ p = target)

\* Only a hook that is bound has a mapping open.
ReaderBound == \A p \in Pids : hook[p] # "bound" => reader[p] = None

\* A name nobody has open holds 0, and so does the mapping inject has created,
\* before it is written, when a bootstrap may still bind to it.
FreshZero ==
    /\ \A p \in Pids, s \in Scopes : ~Exists(s, p) => payload[p][s] = 0
    /\ ctl = "created" /\ hook[target] \in Booting => payload[target][writer[target]] = 0

NameInv == WriterOwned /\ ReaderBound /\ FreshZero

LEMMA NameStep == Typing /\ PublishInv /\ NameInv /\ [Next]_vars => NameInv'
<1> SUFFICES ASSUME Typing, PublishInv, NameInv, [Next]_vars PROVE NameInv'
    OBVIOUS
<1> USE DEF Typing, TypeOK, StagesOK, MappingsOK, PublishInv, LateWritten, NameInv,
            WriterOwned, ReaderBound, FreshZero, Exists, Created, Booting, Scopes,
            InjectStages, EarlyStages, LateStages, osVars, loopVars, mappings
<1>1. ASSUME NEW p \in Pids, Exit(p) PROVE NameInv'
    BY <1>1 DEF Exit, DropReader
<1>2. ASSUME NEW p \in Pids, ProbeGlobal(p) \/ ProbeLocal(p) PROVE NameInv'
    BY <1>2 DEF ProbeGlobal, ProbeLocal, LocalVisible, Bind, OpenReader
<1>3. ASSUME NEW p \in Pids, Verify(p) PROVE NameInv'
    BY <1>3 DEF Verify
<1>4. ASSUME NEW p \in Pids, Disable(p) PROVE NameInv'
    BY <1>4 DEF Disable, WriteDelta
<1>5. ASSUME NEW p \in Pids, Publish(p) \/ Zero(p) PROVE NameInv'
    BY <1>5 DEF Publish, Zero, WriteDelta, EntryPublished
<1>6. CASE CheckNative \/ OpenProcess
    BY <1>6 DEF CheckNative, OpenProcess
<1>7. CASE CreateMapping
    BY <1>7 DEF CreateMapping, CreateWriter
<1>8. CASE WriteInitial
    BY <1>8 DEF WriteInitial, WriteDelta
<1>9. CASE LoadHook
    BY <1>9 DEF LoadHook
<1>10. CASE FailInject
    BY <1>10 DEF FailInject, DropWriters
<1>11. ASSUME NEW d \in Deltas, ApplyFakeTime(d) PROVE NameInv'
    BY <1>11 DEF ApplyFakeTime
<1>12. CASE Refresh
    BY <1>12 DEF Refresh, DropWriters
<1>13. CASE FinishQuit \/ Crash
    BY <1>13 DEF FinishQuit, Crash, CloseAll, DropWriters
<1>14. ASSUME NEW p \in Pids, NEW i \in Images, Start(p, i) PROVE NameInv'
    BY <1>14 DEF Start
<1>15. CASE UNCHANGED <<mappings, hook, injected>> /\ ctl \notin Created /\ ctl' \notin Created
    BY <1>15
<1>16. CASE UNCHANGED <<mappings, hook, injected, ctl, target>>
    BY <1>16
<1> QED
    BY <1>1, <1>2, <1>3, <1>4, <1>5, <1>6, <1>7, <1>8, <1>9, <1>10, <1>11, <1>12, <1>13,
       <1>14, <1>15, <1>16
    DEF Next, InjectStep, RefreshButton, Launch, Quit, vars

LEMMA NameCorrect == Spec => []NameInv
<1>1. Init => NameInv
    BY DEF Init, MappingsInit, NameInv, WriterOwned, ReaderBound, FreshZero, Created,
           LateStages
<1> QED BY <1>1, TypeCorrect, PublishCorrect, NameStep, PTL DEF Spec

-----------------------------------------------------------------------------
(***************************************************************************)
(* No crash and no late failure: what has no entry is at real time.        *)
(***************************************************************************)

\* A mapping the controller does not have open holds 0.
RealInv == \A p \in Pids, s \in Scopes : s # writer[p] => payload[p][s] = 0

LEMMA RealStep ==
    ASSUME Faults \cap {"crash", "lateFailure"} = {}
    PROVE  Typing /\ GoneUnhooked /\ PublishInv /\ NameInv /\ RealInv /\ [Next]_vars => RealInv'
<1> SUFFICES ASSUME Typing, GoneUnhooked, PublishInv, NameInv, RealInv, [Next]_vars
             PROVE  RealInv'
    OBVIOUS
<1> USE DEF Typing, TypeOK, StagesOK, MappingsOK, GoneUnhooked, RealInv, NameInv,
            WriterOwned, Created, Scopes, InjectStages, EarlyStages, LateStages, osVars, loopVars, mappings
<1>1. ASSUME NEW p \in Pids, Exit(p) PROVE RealInv'
    BY <1>1 DEF Exit, DropReader
<1>2. ASSUME NEW p \in Pids, ProbeGlobal(p) \/ ProbeLocal(p) PROVE RealInv'
    BY <1>2 DEF ProbeGlobal, ProbeLocal, Bind, OpenReader
<1>3. ASSUME NEW p \in Pids, Verify(p) PROVE RealInv'
    BY <1>3 DEF Verify
<1>4. ASSUME NEW p \in Pids, Disable(p) PROVE RealInv'
    BY <1>4 DEF Disable, WriteDelta
<1>5. ASSUME NEW p \in Pids, Publish(p) \/ Zero(p) PROVE RealInv'
  <2>1. \A q \in Pids, s \in Scopes : s # writer[q] => payload'[q][s] = payload[q][s]
      BY <1>5 DEF Publish, Zero, WriteDelta
  <2> QED BY <1>5, <2>1 DEF Publish, Zero
<1>6. CASE CheckNative \/ OpenProcess
    BY <1>6 DEF CheckNative, OpenProcess
<1>7. CASE CreateMapping
    BY <1>7 DEF CreateMapping, CreateWriter
<1>8. CASE WriteInitial
    BY <1>8 DEF WriteInitial, WriteDelta
<1>9. CASE LoadHook
    BY <1>9 DEF LoadHook
<1>10. CASE FailInject
    BY <1>10 DEF FailInject, DropWriters
<1>11. ASSUME NEW d \in Deltas, ApplyFakeTime(d) PROVE RealInv'
    BY <1>11 DEF ApplyFakeTime
<1>12. CASE Refresh
    BY <1>12 DEF Refresh, DropWriters
<1>13. CASE FinishQuit
    BY <1>13 DEF FinishQuit, CloseAll, DropWriters, PublishInv, EntryPublished
<1>14. CASE UNCHANGED <<writer, payload, injected>> /\ ctl \notin Created
    BY <1>14
<1>15. CASE UNCHANGED <<writer, payload, injected, ctl, target>>
    BY <1>15
<1> QED
    BY <1>1, <1>2, <1>3, <1>4, <1>5, <1>6, <1>7, <1>8, <1>9, <1>10, <1>11, <1>12, <1>13,
       <1>14, <1>15
    DEF Next, InjectStep, Start, RefreshButton, Launch, Quit, Crash, vars

LEMMA RealCorrect ==
    ASSUME Faults \cap {"crash", "lateFailure"} = {}
    PROVE  Spec => []RealInv
<1>1. Init => RealInv
    BY DEF Init, MappingsInit, RealInv
<1>2. Typing /\ GoneUnhooked /\ PublishInv /\ NameInv /\ RealInv /\ [Next]_vars => RealInv'
    BY RealStep
<1> QED BY <1>1, <1>2, TypeCorrect, GoneCorrect, PublishCorrect, NameCorrect, PTL DEF Spec

\* Without crashes and late failures, disable, prune_dead and Drop leave a
\* process at real time: none without an entry sees a fake one.
THEOREM UntrackedAtRealTime ==
    ASSUME Faults \cap {"crash", "lateFailure"} = {}
    PROVE  Spec => []UntrackedReal
<1>1. Typing /\ NameInv /\ RealInv => UntrackedReal
    BY DEF Typing, TypeOK, MappingsOK, NameInv, WriterOwned, RealInv, UntrackedReal, ReadDelta
<1> QED BY <1>1, TypeCorrect, NameCorrect, RealCorrect, PTL

\* Under the same faults, and whatever elevations the controllers have had, an
\* entry that does not reach its hook leaves the process at real time.
THEOREM UnreachedAtRealTime ==
    ASSUME Faults \cap {"crash", "lateFailure"} = {}
    PROVE  Spec => []UnreachedReal
<1>1. Typing /\ NameInv /\ RealInv => UnreachedReal
    BY DEF Typing, TypeOK, MappingsOK, NameInv, ReaderBound, RealInv, UnreachedReal, ReadDelta
<1> QED BY <1>1, TypeCorrect, NameCorrect, RealCorrect, PTL

-----------------------------------------------------------------------------
(***************************************************************************)
(* Under every fault: Injection implements the clocks of FakeClock.        *)
(***************************************************************************)

\* The offset of every process, as FakeClock sees it.
Shown == [p \in Pids |-> ReadDelta(p)]

\* Outside the loops no entry is pending and only the delta on display is
\* on offer.
LEMMA OffersAtRest ==
    /\ current \in Offers
    /\ pending = {} => Offers = {current}
BY DEF Offers

\* The steps of FakeClock, on the offers and offsets of Injection.
LEMMA ClockSteps ==
    ASSUME Offers' \in (SUBSET Offers) \ {{}}
    PROVE  /\ Shown' = Shown => Clock!ClockNext
           /\ \A p \in Pids : Shown' = [Shown EXCEPT ![p] = 0] => Clock!ClockNext
           /\ \A p \in Pids, o \in Offers :
                 Shown' = [Shown EXCEPT ![p] = o] => Clock!ClockNext
<1>0. Offers' \in Clock!Fewer
    BY DEF Clock!Fewer
<1>1. Shown' = Shown => Clock!Lapse
    BY <1>0 DEF Shown, Clock!Lapse
<1>2. \A p \in Pids : Shown' = [Shown EXCEPT ![p] = 0] => Clock!Revert(p)
    BY <1>0 DEF Shown, Clock!Revert
<1>3. \A p \in Pids, o \in Offers : Shown' = [Shown EXCEPT ![p] = o] => Clock!Follow(p)
    BY <1>0 DEF Shown, Clock!Follow
<1> QED BY <1>1, <1>2, <1>3 DEF Clock!ClockNext

\* A write to the mapping of one process moves its clock or none.
LEMMA WriteShown ==
    ASSUME Typing, NEW p \in Pids, NEW d, WriteDelta(p, d), UNCHANGED reader
    PROVE  Shown' = Shown \/ Shown' = [Shown EXCEPT ![p] = d]
<1>1. CASE writer[p] # None /\ reader[p] = writer[p]
  <2>1. \A q \in Pids : ReadDelta(q)' = IF q = p THEN d ELSE ReadDelta(q)
      BY <1>1 DEF Typing, TypeOK, MappingsOK, Scopes, ReadDelta, WriteDelta
  <2> QED BY <2>1 DEF Shown
<1>2. CASE ~(writer[p] # None /\ reader[p] = writer[p])
  <2>1. \A q \in Pids : ReadDelta(q)' = ReadDelta(q)
      BY <1>2 DEF Typing, TypeOK, MappingsOK, Scopes, ReadDelta, WriteDelta
  <2> QED BY <2>1 DEF Shown
<1> QED BY <1>1, <1>2

\* No clock moves when writers are dropped.
LEMMA DropShown ==
    ASSUME Typing, NEW P \in SUBSET Pids, DropWriters(P)
    PROVE  Shown' = Shown
BY DEF Typing, TypeOK, MappingsOK, Scopes, ReadDelta, DropWriters, Shown

\* Under every fault, a step of Injection is a step of FakeClock or moves
\* neither the offers nor a clock.
LEMMA ClockStep ==
    Typing /\ PublishInv /\ NameInv /\ [Next]_vars =>
        [Clock!ClockNext]_<<Offers, Shown>>
<1> SUFFICES ASSUME Typing, PublishInv, NameInv, [Next]_vars
             PROVE  Clock!ClockNext \/ (Offers' = Offers /\ Shown' = Shown)
    OBVIOUS
<1> USE DEF Typing, TypeOK, StagesOK, InjectStages, EarlyStages, LateStages, osVars, loopVars
<1>0. Offers' \in (SUBSET Offers) \ {{}} /\ Shown' = Shown => Clock!ClockNext
    BY ClockSteps
<1>1. ASSUME NEW p \in Pids, Exit(p) PROVE Clock!ClockNext
  <2>1. Offers' = Offers
    <3>1. \A q \in pending : payload'[q][writer'[q]] = payload[q][writer[q]]
        BY <1>1 DEF Exit, DropReader, NameInv, WriterOwned, MappingsOK
    <3> QED BY <1>1, <3>1 DEF Exit, Offers
  <2>2. Shown' = [Shown EXCEPT ![p] = 0]
      BY <1>1 DEF Exit, DropReader, Shown, ReadDelta, MappingsOK, Scopes
  <2> QED BY <2>1, <2>2, ClockSteps, OffersAtRest
<1>2. ASSUME NEW p \in Pids, ProbeGlobal(p) \/ ProbeLocal(p)
      PROVE  Clock!ClockNext \/ (Offers' = Offers /\ Shown' = Shown)
  <2>1. CASE UNCHANGED mappings
      BY <1>2, <2>1 DEF ProbeGlobal, ProbeLocal, Bind, mappings, Offers, Shown, ReadDelta
  <2>2. ASSUME NEW s \in Scopes, Exists(s, p), OpenReader(s, p), hook[p] \in Booting
        PROVE  Clock!ClockNext
    <3>1. Offers' = Offers
        BY <1>2, <2>2 DEF ProbeGlobal, ProbeLocal, OpenReader, Offers
    <3>2. \A q \in Pids : ReadDelta(q)' = IF q = p THEN payload[p][s] ELSE ReadDelta(q)
        BY <2>2 DEF OpenReader, ReadDelta, MappingsOK, Scopes
    <3>3. Shown' = [Shown EXCEPT ![p] = payload[p][s]]
        BY <3>2 DEF Shown
    <3>4. payload[p][s] = 0 \/ payload[p][s] \in Offers
        BY <2>2 DEF Exists, Offers, Booting, Created, NameInv, WriterOwned, ReaderBound,
                    FreshZero, PublishInv, LateWritten, EntryPublished, Scopes
    <3> QED BY <3>1, <3>3, <3>4, ClockSteps, OffersAtRest
  <2> QED BY <1>2, <2>1, <2>2 DEF ProbeGlobal, ProbeLocal, LocalVisible, Bind, Booting, Scopes
<1>3. ASSUME NEW p \in Pids, Disable(p) \/ Zero(p) PROVE Clock!ClockNext
  <2>1. Offers' \in (SUBSET Offers) \ {{}}
    <3>1. current' = current /\ \A q \in pending' : q \in pending /\ q # p
        BY <1>3 DEF Disable, Zero
    <3>2. \A q \in pending' : payload'[q][writer'[q]] = payload[q][writer[q]]
        BY <1>3, <3>1 DEF Disable, Zero, WriteDelta, MappingsOK
    <3> QED BY <3>1, <3>2 DEF Offers
  <2> QED BY <1>3, <2>1, WriteShown, ClockSteps DEF Disable, Zero, Typing
<1>4. ASSUME NEW p \in Pids, Publish(p) PROVE Clock!ClockNext
  <2>1. Offers' \in (SUBSET Offers) \ {{}}
    <3>1. current' = current /\ \A q \in pending' : q \in pending /\ q # p
        BY <1>4 DEF Publish
    <3>2. \A q \in pending' : payload'[q][writer'[q]] = payload[q][writer[q]]
        BY <1>4, <3>1 DEF Publish, WriteDelta, MappingsOK
    <3> QED BY <3>1, <3>2 DEF Offers
  <2> QED BY <1>4, <2>1, WriteShown, ClockSteps, OffersAtRest DEF Publish
<1>5. CASE CreateMapping
  <2>1. Offers' = Offers
      BY <1>5, OffersAtRest DEF CreateMapping, CreateWriter, Offers
  <2>2. Shown' = Shown
      BY <1>5 DEF CreateMapping, CreateWriter, Shown, ReadDelta
  <2> QED BY <2>1, <2>2
<1>6. CASE WriteInitial
  <2>1. Offers' = Offers
      BY <1>6 DEF WriteInitial, Offers
  <2> QED BY <1>6, <2>1, WriteShown, ClockSteps, OffersAtRest DEF WriteInitial
<1>7. CASE FailInject \/ Refresh
  <2>1. Offers' = Offers
      BY <1>7 DEF FailInject, Refresh, Offers
  <2>2. {target} \in SUBSET Pids \/ Refresh
      BY <1>7 DEF FailInject
  <2>3. Shown' = Shown
      BY <1>7, <2>2, DropShown DEF FailInject, Refresh
  <2> QED BY <2>1, <2>3
<1>8. ASSUME NEW d \in Deltas, ApplyFakeTime(d) PROVE Clock!ClockNext
  <2>1. Offers = {current}
      BY <1>8, OffersAtRest DEF ApplyFakeTime
  <2>2. \A q \in pending' : payload'[q][writer'[q]] = current
      BY <1>8 DEF ApplyFakeTime, mappings, PublishInv, EntryPublished
  <2>3. Offers' \in {{d}, {current} \cup {d}}
      BY <1>8, <2>2 DEF ApplyFakeTime, Offers
  <2>4. Shown' = Shown
      BY <1>8 DEF ApplyFakeTime, mappings, Shown, ReadDelta
  <2>5. \E kept \in SUBSET Offers : Offers' = kept \cup {d}
    <3>1. CASE Offers' = {d}
      <4>1. Offers' = {} \cup {d} /\ {} \in SUBSET Offers
          BY <3>1
      <4> QED BY <4>1
    <3>2. CASE Offers' = {current} \cup {d}
      <4>1. {current} \in SUBSET Offers
          BY <2>1
      <4> QED BY <3>2, <4>1
    <3> QED BY <2>3, <3>1, <3>2
  <2> QED BY <2>4, <2>5 DEF Shown, Clock!ClockNext, Clock!Choose
<1>9. CASE Quit
  <2>1. \A q \in pending' : payload'[q][writer'[q]] = current
      BY <1>9 DEF Quit, mappings, PublishInv, EntryPublished
  <2>2. Offers' = Offers
      BY <1>9, <2>1, OffersAtRest DEF Quit, Offers
  <2>3. Shown' = Shown
      BY <1>9 DEF Quit, mappings, Shown, ReadDelta
  <2> QED BY <2>2, <2>3
<1>10. CASE FinishQuit \/ Crash
  <2>1. Offers' = {0}
      BY <1>10 DEF FinishQuit, Crash, CloseAll, Offers
  <2>2. Shown' = Shown
      BY <1>10, DropShown DEF FinishQuit, Crash, CloseAll
  <2> QED BY <2>1, <2>2 DEF Shown, Clock!ClockNext, Clock!Lapse
<1>11. CASE UNCHANGED <<mappings, pending, current>>
    BY <1>11 DEF mappings, Offers, Shown, ReadDelta
<1> QED
    BY <1>1, <1>2, <1>3, <1>4, <1>5, <1>6, <1>7, <1>8, <1>9, <1>10, <1>11
    DEF Next, InjectStep, Start, Verify, CheckNative, OpenProcess, LoadHook, RefreshButton,
        Launch, vars

LEMMA ClockInitially == Init => Clock!ClockInit
BY DEF Init, MappingsInit, Offers, ReadDelta, Clock!ClockInit

\* Whatever faults occur, what the processes see are the clocks of FakeClock.
THEOREM ImplementsFakeClock == Spec => ClocksFollow
<1>1. Typing /\ PublishInv /\ NameInv /\ [Next]_vars => [Clock!ClockNext]_Clock!clockVars
    BY ClockStep DEF Shown, Clock!clockVars
<1> QED
    BY <1>1, ClockInitially, TypeCorrect, PublishCorrect, NameCorrect, PTL
    DEF Spec, ClocksFollow, Clock!ClockSpec


-----------------------------------------------------------------------------
(***************************************************************************)
(* The safety part of two liveness properties: what the steps that         *)
(* fairness brings about lead to, for any number of processes.             *)
(***************************************************************************)

\* A closed controller has forgotten its entries.
OffEmpty == ctl = "off" => injected = {} /\ target = None

LEMMA OffStep == Typing /\ OffEmpty /\ [Next]_vars => OffEmpty'
<1> SUFFICES ASSUME Typing, OffEmpty, [Next]_vars, ctl' = "off"
             PROVE  injected' = {} /\ target' = None
    BY DEF OffEmpty
<1> USE DEF OffEmpty, osVars, loopVars, mappings
<1>1. CASE FinishQuit \/ Crash
    BY <1>1 DEF FinishQuit, Crash, CloseAll
<1>2. CASE UNCHANGED <<ctl, injected, target>>
    BY <1>2
<1> QED
    BY <1>1, <1>2
    DEF Next, InjectStep, Start, Exit, ProbeGlobal, ProbeLocal, Verify, CheckNative,
        CreateMapping, WriteInitial, OpenProcess, LoadHook, FailInject, Disable,
        ApplyFakeTime, Publish, Zero, Refresh, RefreshButton, Launch, Quit, vars,
        EarlyStages, LateStages

\* Without crashes and late failures, while no controller runs every process
\* is at real time: once Drop is through its loop, whatever was injected,
\* disabled, pruned or still bootstrapping before.
THEOREM ClosedAtRealTime ==
    ASSUME Faults \cap {"crash", "lateFailure"} = {}
    PROVE  Spec => [](ctl = "off" => \A p \in Pids : ReadDelta(p) = 0)
<1>1. Init => OffEmpty
    BY DEF Init, OffEmpty
<1>2. OffEmpty /\ UntrackedReal => (ctl = "off" => \A p \in Pids : ReadDelta(p) = 0)
    BY DEF OffEmpty, UntrackedReal
<1> QED BY <1>1, <1>2, OffStep, TypeCorrect, UntrackedAtRealTime, PTL DEF Spec

\* The bootstrap of p has its entry, and has not missed its mapping.
OnTrack(p) ==
    /\ p \in injected
    /\ image[p] \in SessionImages
    /\ \/ hook[p] = "probeGlobal"
       \/ hook[p] = "probeLocal" /\ writer[p] = "Local"

LEMMA TrackStep ==
    ASSUME Typing, NameInv, [Next]_vars, NEW p \in Pids, OnTrack(p)
    PROVE  \/ OnTrack(p)'
           \/ hook'[p] = "bound"
           \/ p \notin injected'
           \/ image'[p] = None
<1> USE DEF OnTrack, Typing, TypeOK, StagesOK, MappingsOK, osVars, loopVars, mappings
<1>1. ASSUME NEW q \in Pids, NEW i \in Images, Start(q, i) PROVE OnTrack(p)'
    BY <1>1 DEF Start
<1>2. ASSUME NEW q \in Pids, Exit(q) PROVE OnTrack(p)' \/ image'[p] = None
    BY <1>2 DEF Exit, DropReader
<1>3. ASSUME NEW q \in Pids, q # p, ProbeGlobal(q) \/ ProbeLocal(q) PROVE OnTrack(p)'
    BY <1>3 DEF ProbeGlobal, ProbeLocal, Bind, OpenReader
<1>4. CASE ProbeGlobal(p)
  <2>1. writer[p] \in {"Global", "Local"}
      BY DEF NameInv, WriterOwned, Scopes
  <2>2. CASE writer[p] = "Global"
      BY <1>4, <2>2 DEF ProbeGlobal, Exists, Bind
  <2>3. CASE writer[p] = "Local"
      BY <1>4, <2>3 DEF ProbeGlobal, Bind
  <2> QED BY <2>1, <2>2, <2>3
<1>5. CASE ProbeLocal(p)
    BY <1>5 DEF ProbeLocal, LocalVisible, Exists, Bind
<1>6. CASE CreateMapping
    BY <1>6 DEF CreateMapping, CreateWriter, InjectStages, EarlyStages
<1>7. CASE LoadHook
    BY <1>7 DEF LoadHook
<1>8. ASSUME NEW q \in Pids, Disable(q) PROVE OnTrack(p)' \/ p \notin injected'
    BY <1>8 DEF Disable
<1>9. CASE FailInject
    BY <1>9 DEF FailInject, DropWriters, InjectStages, EarlyStages, LateStages
<1>10. CASE Refresh
    BY <1>10 DEF Refresh, DropWriters
<1>11. CASE FinishQuit \/ Crash
    BY <1>11 DEF FinishQuit, Crash, CloseAll
<1>12. CASE UNCHANGED <<injected, image, hook, writer>>
    BY <1>12
<1> QED
    BY <1>1, <1>2, <1>3, <1>4, <1>5, <1>6, <1>7, <1>8, <1>9, <1>10, <1>11, <1>12
    DEF Next, InjectStep, Verify, CheckNative, WriteInitial, OpenProcess, ApplyFakeTime,
        Publish, Zero, RefreshButton, Launch, Quit, vars

\* Under every fault, a bootstrap that begins with its entry in place does not
\* give up: it probes on until it is bound, unless the entry goes (with a crash
\* of the controller, too) or its process exits.  It is the safety part of
\* BootstrapBinds: no other step leads it past its mapping.
THEOREM BootstrapStaysOnTrack ==
    Spec => [][\A p \in Pids : OnTrack(p) =>
                  \/ OnTrack(p)'
                  \/ hook'[p] = "bound"
                  \/ p \notin injected'
                  \/ image'[p] = None]_vars
<1>1. Typing /\ NameInv /\ [Next]_vars =>
          [\A p \in Pids : OnTrack(p) =>
              \/ OnTrack(p)'
              \/ hook'[p] = "bound"
              \/ p \notin injected'
              \/ image'[p] = None]_vars
    BY TrackStep
<1> QED BY <1>1, TypeCorrect, NameCorrect, PTL DEF Spec
=============================================================================
