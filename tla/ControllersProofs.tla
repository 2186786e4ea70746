------------------------- MODULE ControllersProofs -------------------------
(***************************************************************************)
(* Theorems about Controllers, for any set of controllers, of any          *)
(* elevation, and any offsets.                                             *)
(***************************************************************************)
EXTENDS Controllers, TLAPS

\* Behind the delta in the mapping of scope s stands a controller.
Behind(s) ==
    \/ payload[s] = 0
    \/ \E c \in Offering(s) : current[c] = payload[s]
    \/ Replacing(s) # {}

Backed == alive => \A s \in Scopes : Behind(s)

\* The one scope controllers of the same elevation use.
Home == IF elevated = {} THEN "Local" ELSE "Global"

HomeOnly ==
    elevated \in {{}, Controllers} => \A s \in Scopes : Open(s) => s = Home

Inv == TypeOK /\ Backed /\ HomeOnly

\* A controller past the creation of its mapping has it open.
LEMMA HasWriter ==
    ASSUME TypeOK, NEW c \in Controllers, stage[c] \notin {"off", "idle"}
    PROVE  writer[c] \in Scopes
BY DEF TypeOK

\* What write_delta through the mapping of c does to the payloads.
LEMMA WriteEffect ==
    ASSUME TypeOK, NEW c \in Controllers, stage[c] \notin {"off", "idle"},
           NEW d \in Deltas, Write(c, d)
    PROVE  /\ payload' \in [Scopes -> Deltas]
           /\ payload'[writer[c]] = d
           /\ \A s \in Scopes : s # writer[c] => payload'[s] = payload[s]
           /\ Open(writer[c])
BY HasWriter DEF TypeOK, Write, Open

LEMMA InitInv == Init => Inv
<1> SUFFICES ASSUME Init PROVE Inv
    OBVIOUS
<1>1. TypeOK
    BY DeltasAssumption, NoneAssumption DEF Init, TypeOK, Stages
<1>2. Backed
    BY DEF Init, Backed
<1>3. HomeOnly
    BY NoneAssumption DEF Init, HomeOnly, Open
<1> QED BY <1>1, <1>2, <1>3 DEF Inv

-----------------------------------------------------------------------------

\* A payload that nobody writes keeps the controllers behind it.
LEMMA StillBehind ==
    ASSUME NEW s \in Scopes, Behind(s), payload'[s] = payload[s],
           \A o \in Offering(s) : o \in Offering(s)' /\ current'[o] = current[o],
           Replacing(s) \subseteq Replacing(s)'
    PROVE  Behind(s)'
BY DEF Behind

\* The steps of an inject that write nothing.
LEMMA InjectStep ==
    ASSUME Inv, NEW c \in Controllers, Launch(c) \/ OpenProcess(c) \/ LoadHook(c)
    PROVE  Inv'
<1>1. /\ UNCHANGED <<alive, reader, payload, elevated, writer, current>>
      /\ hook' \in {"absent", "probeGlobal", "probeLocal", "failed", "bound"}
      /\ hook' # "absent" => alive
      /\ hook' = "bound" <=> hook = "bound"
    BY DEF Inv, TypeOK, Launch, OpenProcess, LoadHook
<1>2. \E s \in Stages :
          /\ stage' = [stage EXCEPT ![c] = s]
          /\ s \in {"off", "idle"} <=> stage[c] \in {"off", "idle"}
          /\ stage[c] \in {"written", "opened", "entry"} => s \in {"written", "opened", "entry"}
          /\ stage[c] # "publishing"
    BY DEF Launch, OpenProcess, LoadHook, Goto, Stages, Injecting, Leaving
<1>3. TypeOK'
    BY <1>1, <1>2 DEF Inv, TypeOK, Open
<1>4. \A s \in Scopes : Offering(s) \subseteq Offering(s)' /\ Replacing(s) \subseteq Replacing(s)'
    BY <1>1, <1>2 DEF Inv, TypeOK, Offering, Replacing
<1>5. Backed'
    BY <1>1, <1>4, StillBehind DEF Inv, Backed
<1>6. HomeOnly'
    BY <1>1 DEF Inv, HomeOnly, Home, Open
<1> QED BY <1>3, <1>5, <1>6 DEF Inv

LEMMA CreateStep == ASSUME Inv, NEW c \in Controllers, Create(c) PROVE Inv'
<1>1. /\ UNCHANGED <<alive, hook, reader, payload, elevated, current>>
      /\ stage[c] = "idle" /\ stage' = [stage EXCEPT ![c] = "created"]
    BY DEF Create, Goto
<1>2. PICK w \in Scopes : /\ w = IF c \in elevated THEN "Global" ELSE "Local"
                          /\ writer' = [writer EXCEPT ![c] = w]
    BY DEF Create, Scopes
<1>3. writer[c] = None /\ w # None
    BY <1>1, <1>2, NoneAssumption DEF Inv, TypeOK
<1>4. \A s \in Scopes : Open(s)' <=> Open(s) \/ s = w
    BY <1>1, <1>2, <1>3, NoneAssumption DEF Inv, TypeOK, Open
<1>5. TypeOK'
  <2>1. writer' \in [Controllers -> Scopes \cup {None}] /\ stage' \in [Controllers -> Stages]
      BY <1>1, <1>2 DEF Inv, TypeOK, Stages, Injecting
  <2>2. \A o \in Controllers : writer'[o] # None <=> stage'[o] \notin {"off", "idle"}
      BY <1>1, <1>2, <1>3 DEF Inv, TypeOK
  <2> QED BY <1>1, <1>4, <2>1, <2>2 DEF Inv, TypeOK
<1>6. \A s \in Scopes : Offering(s) \subseteq Offering(s)' /\ Replacing(s) \subseteq Replacing(s)'
    BY <1>1, <1>2 DEF Inv, TypeOK, Offering, Replacing
<1>7. Backed'
    BY <1>1, <1>6, StillBehind DEF Inv, Backed
<1>8. HomeOnly'
    BY <1>1, <1>2, <1>4 DEF Inv, HomeOnly, Home
<1> QED BY <1>5, <1>7, <1>8 DEF Inv

\* A controller puts its current delta into its mapping and stands behind it.
LEMMA OfferStep == ASSUME Inv, NEW c \in Controllers, WriteInitial(c) \/ Publish(c) PROVE Inv'
<1> DEFINE d == current[c]
<1>0. /\ d \in Deltas /\ Write(c, d)
      /\ stage[c] \in {"created", "publishing"}
      /\ \E s \in {"written", "entry"} : stage' = [stage EXCEPT ![c] = s]
      /\ UNCHANGED <<alive, hook, reader, elevated, writer, current>>
    BY DEF WriteInitial, Publish, Goto, Inv, TypeOK
<1> HIDE DEF d
<1>1. /\ payload' \in [Scopes -> Deltas]
      /\ payload'[writer[c]] = d
      /\ \A s \in Scopes : s # writer[c] => payload'[s] = payload[s]
      /\ Open(writer[c]) /\ writer[c] \in Scopes
    BY <1>0, WriteEffect, HasWriter DEF Inv
<1>2. \A s : Open(s)' <=> Open(s)
    BY <1>0 DEF Open
<1>3. /\ stage' \in [Controllers -> Stages] /\ stage'[c] \in {"written", "entry"}
      /\ \A o \in Controllers : o # c => stage'[o] = stage[o]
    BY <1>0 DEF Inv, TypeOK, Stages, Injecting
<1>5. TypeOK'
  <2>1. \A o \in Controllers : writer'[o] # None <=> stage'[o] \notin {"off", "idle"}
    <3>1. writer'[c] # None /\ stage'[c] \notin {"off", "idle"}
        BY <1>0, <1>1, <1>3, NoneAssumption
    <3> QED BY <1>0, <1>3, <3>1 DEF Inv, TypeOK
  <2>2. \A s \in Scopes : payload'[s] # 0 => Open(s)'
      BY <1>1, <1>2 DEF Inv, TypeOK
  <2> QED BY <1>0, <1>1, <1>3, <2>1, <2>2 DEF Inv, TypeOK
<1>6. ASSUME NEW s \in Scopes, Behind(s) PROVE Behind(s)'
  <2>1. CASE s = writer[c]
    <3>1. c \in Offering(s)' /\ current'[c] = d
        BY <1>0, <1>3, <2>1 DEF Offering, d
    <3> QED BY <1>1, <2>1, <3>1 DEF Behind
  <2>2. CASE s # writer[c]
    <3>1. /\ \A o \in Offering(s) : o \in Offering(s)' /\ current'[o] = current[o]
          /\ Replacing(s) \subseteq Replacing(s)'
        BY <1>0, <1>3, <2>2 DEF Offering, Replacing
    <3> QED BY <1>1, <1>6, <2>2, <3>1, StillBehind
  <2> QED BY <2>1, <2>2
<1>7. Backed'
    BY <1>0, <1>6 DEF Inv, Backed
<1>8. HomeOnly'
    BY <1>0, <1>2 DEF Inv, HomeOnly, Home
<1> QED BY <1>5, <1>7, <1>8 DEF Inv

\* A controller chooses a delta that is not in its mapping yet.
LEMMA ChooseStep ==
    ASSUME Inv, NEW c \in Controllers, NEW d \in Deltas, stage[c] = "entry", Choose(c, d)
    PROVE  Inv'
<1>1. /\ stage' = [stage EXCEPT ![c] = "publishing"]
      /\ current' = [current EXCEPT ![c] = d]
      /\ UNCHANGED <<alive, hook, reader, payload, elevated, writer>>
    BY DEF Choose, Goto
<1>2. /\ current' \in [Controllers -> Deltas] /\ stage' \in [Controllers -> Stages]
      /\ stage'[c] = "publishing"
      /\ \A o \in Controllers : o # c => stage'[o] = stage[o] /\ current'[o] = current[o]
    BY <1>1 DEF Inv, TypeOK, Stages
<1>3. \A s : Open(s)' <=> Open(s)
    BY <1>1 DEF Open
<1>4. TypeOK'
    BY <1>1, <1>2, <1>3 DEF Inv, TypeOK
<1>5. ASSUME NEW s \in Scopes, Behind(s) PROVE Behind(s)'
  <2>1. CASE s = writer[c]
    <3>1. c \in Replacing(s)'
        BY <1>1, <1>2, <2>1 DEF Replacing
    <3> QED BY <3>1 DEF Behind
  <2>2. CASE s # writer[c]
    <3>1. /\ \A o \in Offering(s) : o \in Offering(s)' /\ current'[o] = current[o]
          /\ Replacing(s) \subseteq Replacing(s)'
        BY <1>1, <1>2, <2>2 DEF Offering, Replacing
    <3> QED BY <1>1, <1>5, <3>1, StillBehind
  <2> QED BY <2>1, <2>2
<1>6. Backed'
    BY <1>1, <1>5 DEF Inv, Backed
<1>7. HomeOnly'
    BY <1>1, <1>3 DEF Inv, HomeOnly, Home
<1> QED BY <1>4, <1>6, <1>7 DEF Inv

\* A controller zeroes the mapping it is about to close.
LEMMA ZeroStep == ASSUME Inv, NEW c \in Controllers, Disable(c) \/ Quit(c) PROVE Inv'
<1>1. /\ stage[c] = "entry" /\ Write(c, 0)
      /\ UNCHANGED <<alive, hook, reader, elevated, writer, current>>
    BY DEF Disable, Quit
<1>2. PICK s \in Leaving : stage' = [stage EXCEPT ![c] = s]
    BY DEF Disable, Quit, Goto, Leaving
<1>3. /\ payload' \in [Scopes -> Deltas]
      /\ payload'[writer[c]] = 0
      /\ \A n \in Scopes : n # writer[c] => payload'[n] = payload[n]
      /\ writer[c] \in Scopes
    BY <1>1, WriteEffect, HasWriter, DeltasAssumption DEF Inv
<1>4. \A n : Open(n)' <=> Open(n)
    BY <1>1 DEF Open
<1>5. stage' \in [Controllers -> Stages] /\ stage'[c] = s
      /\ \A o \in Controllers : o # c => stage'[o] = stage[o]
    BY <1>2 DEF Inv, TypeOK, Stages
<1>6. TypeOK'
  <2>1. \A o \in Controllers : writer'[o] # None <=> stage'[o] \notin {"off", "idle"}
    <3>1. writer'[c] # None /\ stage'[c] \notin {"off", "idle"}
        BY <1>1, <1>3, <1>5, NoneAssumption DEF Leaving
    <3> QED BY <1>1, <1>5, <3>1 DEF Inv, TypeOK
  <2>2. \A n \in Scopes : payload'[n] # 0 => Open(n)'
      BY <1>3, <1>4 DEF Inv, TypeOK
  <2> QED BY <1>1, <1>3, <1>5, <2>1, <2>2 DEF Inv, TypeOK
<1>7. ASSUME NEW n \in Scopes, Behind(n) PROVE Behind(n)'
  <2>1. CASE n # writer[c]
    <3>1. Offering(n) \subseteq Offering(n)' /\ Replacing(n) \subseteq Replacing(n)'
        BY <1>1, <1>5, <2>1 DEF Offering, Replacing
    <3> QED BY <1>1, <1>3, <1>7, <2>1, <3>1, StillBehind
  <2> QED BY <1>3, <2>1 DEF Behind
<1>8. Backed'
    BY <1>1, <1>7 DEF Inv, Backed
<1>9. HomeOnly'
    BY <1>1, <1>4 DEF Inv, HomeOnly, Home
<1> QED BY <1>6, <1>8, <1>9 DEF Inv

\* A delta changes that is in no mapping.
LEMMA IdleStep ==
    ASSUME Inv, NEW c \in Controllers, NEW d \in Deltas, stage[c] = "idle",
           current' = [current EXCEPT ![c] = d],
           \E s \in {"idle", "off"} : stage' = [stage EXCEPT ![c] = s],
           UNCHANGED <<alive, hook, reader, payload, elevated, writer>>
    PROVE  Inv'
<1>1. /\ current' \in [Controllers -> Deltas] /\ stage' \in [Controllers -> Stages]
      /\ stage'[c] \in {"off", "idle"}
      /\ \A o \in Controllers : o # c => stage'[o] = stage[o] /\ current'[o] = current[o]
    BY DEF Inv, TypeOK, Stages
<1>2. \A s : Open(s)' <=> Open(s)
    BY DEF Open
<1>3. TypeOK'
    BY <1>1, <1>2 DEF Inv, TypeOK
<1>4. ASSUME NEW s \in Scopes, Behind(s) PROVE Behind(s)'
  <2>1. payload'[s] = payload[s]
      OBVIOUS
  <2>2. /\ \A o \in Offering(s) : o \in Offering(s)' /\ current'[o] = current[o]
        /\ Replacing(s) \subseteq Replacing(s)'
      BY <1>1 DEF Offering, Replacing
  <2> QED BY <1>4, <2>1, <2>2, StillBehind
<1>5. Backed'
    BY <1>4 DEF Inv, Backed
<1>6. HomeOnly'
    BY <1>2 DEF Inv, HomeOnly, Home
<1> QED BY <1>3, <1>5, <1>6 DEF Inv

\* A writer closes that stands behind nothing any more, or whose process has
\* exited.
LEMMA CloseStep ==
    ASSUME Inv, NEW c \in Controllers, CloseWriter(c),
           ~alive \/ stage[c] \in Leaving,
           stage[c] \notin {"off", "idle"},
           \E s \in {"idle", "off"} : stage' = [stage EXCEPT ![c] = s],
           current' \in [Controllers -> Deltas],
           \A o \in Controllers \ {c} : current'[o] = current[o]
    PROVE  Inv'
<1>1. /\ writer' = [writer EXCEPT ![c] = None]
      /\ UNCHANGED <<alive, hook, reader, elevated>>
    BY DEF CloseWriter
<1>2. /\ writer' \in [Controllers -> Scopes \cup {None}]
      /\ writer'[c] = None
      /\ \A o \in Controllers : o # c => writer'[o] = writer[o]
    BY <1>1 DEF Inv, TypeOK
<1>3. /\ stage' \in [Controllers -> Stages]
      /\ stage'[c] \in {"off", "idle"}
      /\ \A o \in Controllers : o # c => stage'[o] = stage[o]
    BY DEF Inv, TypeOK, Stages
<1>4. \A s \in Scopes : Open(s)' <=> s = reader \/ \E o \in Controllers \ {c} : writer[o] = s
    BY <1>1, <1>2, NoneAssumption DEF Open
<1>5. /\ payload' \in [Scopes -> Deltas]
      /\ \A s \in Scopes : payload'[s] = IF Open(s)' THEN payload[s] ELSE 0
  <2>1. \A s \in Scopes : payload'[s] = IF Open(s)' THEN payload[s] ELSE 0
      BY <1>4 DEF CloseWriter
  <2>2. payload' \in [Scopes -> Deltas]
      BY DeltasAssumption DEF CloseWriter, Inv, TypeOK
  <2> QED BY <2>1, <2>2
<1>6. TypeOK'
    BY <1>1, <1>2, <1>3, <1>5 DEF Inv, TypeOK
<1>7. ASSUME NEW s \in Scopes, alive, Behind(s) PROVE Behind(s)'
  <2>1. /\ \A o \in Offering(s) : o \in Offering(s)' /\ current'[o] = current[o]
        /\ Replacing(s) \subseteq Replacing(s)'
      BY <1>2, <1>3, <1>7 DEF Offering, Replacing, Leaving
  <2>2. CASE payload'[s] = payload[s]
      BY <1>7, <2>1, <2>2, StillBehind
  <2>3. CASE payload'[s] # payload[s]
      BY <1>5, <2>3 DEF Behind
  <2> QED BY <2>2, <2>3
<1>8. Backed'
    BY <1>1, <1>7 DEF Inv, Backed
<1>9. HomeOnly'
    BY <1>1, <1>4 DEF Inv, HomeOnly, Home, Open
<1> QED BY <1>6, <1>8, <1>9 DEF Inv

LEMMA StartStep == ASSUME Inv, Start PROVE Inv'
<1>1. /\ ~alive /\ alive'
      /\ \A c \in Controllers : stage[c] \in {"off", "idle"}
      /\ UNCHANGED <<hook, reader, payload, elevated, stage, writer, current>>
    BY DEF Start
<1>2. \A s : Open(s)' <=> Open(s)
    BY <1>1 DEF Open
<1>3. \A s \in Scopes : ~Open(s)
    BY <1>1, NoneAssumption DEF Inv, TypeOK, Open
<1>4. \A s \in Scopes : payload'[s] = 0
    BY <1>1, <1>3 DEF Inv, TypeOK
<1>5. TypeOK' /\ Backed'
    BY <1>1, <1>2, <1>4 DEF Inv, TypeOK, Backed, Behind
<1>6. HomeOnly'
    BY <1>1, <1>2 DEF Inv, HomeOnly, Home
<1> QED BY <1>5, <1>6 DEF Inv

LEMMA ExitStep == ASSUME Inv, Exit PROVE Inv'
<1>1. /\ alive' = FALSE /\ hook' = "absent" /\ reader' = None
      /\ UNCHANGED <<elevated, stage, writer, current>>
    BY DEF Exit
<1>2. \A s \in Scopes : Open(s)' <=> \E c \in Controllers : writer[c] = s
    BY <1>1, NoneAssumption DEF Open
<1>3. /\ payload' \in [Scopes -> Deltas]
      /\ \A s \in Scopes : payload'[s] # 0 => Open(s)'
    BY <1>2, DeltasAssumption DEF Exit, Inv, TypeOK
<1>4. TypeOK'
    BY <1>1, <1>3, NoneAssumption DEF Inv, TypeOK
<1>5. Backed'
    BY <1>1 DEF Backed
<1>6. HomeOnly'
    BY <1>1, <1>2 DEF Inv, HomeOnly, Home, Open
<1> QED BY <1>4, <1>5, <1>6 DEF Inv

\* The hook opens a mapping that has a name, so one a controller has open.
LEMMA ProbeStep == ASSUME Inv, ProbeGlobal \/ ProbeLocal PROVE Inv'
<1>1. /\ UNCHANGED <<alive, payload, elevated, stage, writer, current>>
      /\ hook # "absent" /\ hook # "bound" /\ hook' # "absent"
      /\ hook' \in {"probeLocal", "failed", "bound"}
    BY DEF ProbeGlobal, ProbeLocal, Bind
<1>2. /\ reader' \in {reader} \cup Scopes
      /\ reader' # reader <=> hook' = "bound"
      /\ reader' # reader => Open(reader')
  <2>1. reader = None
      BY <1>1 DEF Inv, TypeOK
  <2> QED BY <2>1, NoneAssumption DEF ProbeGlobal, ProbeLocal, Bind, Scopes
<1>3. reader = None
    BY <1>1 DEF Inv, TypeOK
<1>4. \A s \in Scopes : Open(s)' <=> Open(s)
    BY <1>1, <1>2, <1>3, NoneAssumption DEF Open
<1>5. TypeOK'
    BY <1>1, <1>2, <1>3, <1>4, NoneAssumption DEF Inv, TypeOK
<1>6. Backed'
    BY <1>1 DEF Inv, Backed, Behind, Offering, Replacing
<1>7. HomeOnly'
    BY <1>1, <1>4 DEF Inv, HomeOnly, Home
<1> QED BY <1>5, <1>6, <1>7 DEF Inv

LEMMA InvStep == Inv /\ [Next]_vars => Inv'
<1> SUFFICES ASSUME Inv, [Next]_vars PROVE Inv'
    OBVIOUS
<1>1. CASE Start \/ Exit \/ ProbeGlobal \/ ProbeLocal
    BY <1>1, StartStep, ExitStep, ProbeStep
<1>2. ASSUME NEW c \in Controllers, Launch(c) \/ OpenProcess(c) \/ LoadHook(c) \/ Create(c)
      PROVE  Inv'
    BY <1>2, InjectStep, CreateStep
<1>3. ASSUME NEW c \in Controllers, WriteInitial(c) \/ Publish(c) PROVE Inv'
    BY <1>3, OfferStep
<1>4. ASSUME NEW c \in Controllers, NEW d \in Deltas, Choose(c, d) PROVE Inv'
  <2>1. CASE stage[c] = "idle"
    <3>1. stage' = [stage EXCEPT ![c] = "idle"]
        BY <1>4, <2>1 DEF Choose, Inv, TypeOK
    <3> QED BY <1>4, <2>1, <3>1, IdleStep DEF Choose
  <2> QED BY <1>4, <2>1, ChooseStep DEF Choose
<1>5. ASSUME NEW c \in Controllers, Disable(c) \/ Quit(c) PROVE Inv'
    BY <1>5, ZeroStep
<1>6. ASSUME NEW c \in Controllers, QuitIdle(c) PROVE Inv'
    BY <1>6, IdleStep, DeltasAssumption DEF QuitIdle, Goto
<1>7. ASSUME NEW c \in Controllers, FailInject(c) \/ Prune(c) \/ DropEntry(c) PROVE Inv'
  <2>1. CloseWriter(c) /\ stage[c] \notin {"off", "idle"} /\ (~alive \/ stage[c] \in Leaving)
      BY <1>7 DEF FailInject, Prune, DropEntry, Leaving
  <2>2. \E s \in {"idle", "off"} : stage' = [stage EXCEPT ![c] = s]
      BY <1>7 DEF FailInject, Prune, DropEntry, Goto
  <2>3. /\ current' \in [Controllers -> Deltas]
        /\ \A o \in Controllers \ {c} : current'[o] = current[o]
      BY <1>7, DeltasAssumption DEF FailInject, Prune, DropEntry, Inv, TypeOK
  <2> QED BY <2>1, <2>2, <2>3, CloseStep
<1>8. CASE UNCHANGED vars
    BY <1>8 DEF vars, Inv, TypeOK, Backed, Behind, HomeOnly, Home, Open, Offering, Replacing
<1> QED BY <1>1, <1>2, <1>3, <1>4, <1>5, <1>6, <1>7, <1>8 DEF Next

LEMMA InvCorrect == Spec => []Inv
BY InitInv, InvStep, PTL DEF Spec

\* Handles, names and stages stay consistent, for any number of controllers.
THEOREM ControllersTypeInvariant == Spec => []TypeOK
BY InvCorrect, PTL DEF Inv

\* However many controllers work on a process, it runs at real time, at the
\* delta of one of them that will zero it again, or at one about to be replaced.
\* This rests on what the module assumes: no inject that fails in a running
\* process, no crash.
THEOREM ProcessFollowsSomeone == Spec => []ShownOffered
<1>1. Inv => ShownOffered
    BY DEF Inv, TypeOK, Backed, Behind, ShownOffered, Shown
<1> QED BY <1>1, InvCorrect, PTL

\* Controllers of the same elevation all reach the hook.
THEOREM PeersReachHook == Spec => []PeersReach
<1>1. Inv => PeersReach
  <2> SUFFICES ASSUME Inv, elevated \in {{}, Controllers}, NEW c \in Controllers,
                      stage[c] \in {"entry", "publishing"}, hook = "bound"
               PROVE  reader = writer[c]
      BY DEF PeersReach
  <2>1. reader \in Scopes /\ writer[c] \in Scopes
      BY HasWriter DEF Inv, TypeOK
  <2>2. Open(reader) /\ Open(writer[c])
      BY DEF Open
  <2> QED BY <2>1, <2>2 DEF Inv, HomeOnly
<1> QED BY <1>1, InvCorrect, PTL

-----------------------------------------------------------------------------
(***************************************************************************)
(* The refinement.  No controller step but Choose adds an offer.  A step   *)
(* that writes into the mapping the hook reads, and one that binds the     *)
(* hook to a mapping, moves the clock: by Backed to an offer.              *)
(***************************************************************************)

\* A delta in a mapping of the running process is on offer.
LEMMA PayloadOffered ==
    ASSUME Inv, alive, NEW s \in Scopes
    PROVE  payload[s] \in Offers
<1>1. Behind(s)
    BY DEF Inv, Backed
<1>2. ASSUME NEW c \in Replacing(s) PROVE payload[s] \in Offers
    BY <1>2 DEF Replacing, Offers
<1> QED BY <1>1, <1>2 DEF Behind, Offering, Offers

\* The clock that a step may move.
LEMMA ClockMoves ==
    ASSUME Offers' \subseteq Offers, Shown' \in Offers \cup {Shown}
    PROVE  Clock!ClockNext
<1> DEFINE shown == [p \in {"process"} |-> Shown]
<1>0. Offers' \in Clock!Fewer
    BY DEF Clock!Fewer, Offers
<1>1. CASE Shown' = Shown
  <2>1. Clock!Lapse
      BY <1>0, <1>1 DEF Clock!Lapse
  <2> QED BY <2>1 DEF Clock!ClockNext
<1>2. CASE Shown' \in Offers
  <2>1. shown' = [shown EXCEPT !["process"] = Shown']
      OBVIOUS
  <2>2. Clock!Follow("process")
      BY <1>0, <1>2, <2>1 DEF Clock!Follow
  <2> QED BY <2>2 DEF Clock!ClockNext
<1> QED BY <1>1, <1>2

\* Fewer payloads that wait for their replacement, fewer offers.
LEMMA OffersShrink ==
    ASSUME \A c \in Controllers : current'[c] \in Offers,
           \A c \in Controllers : alive' /\ stage'[c] = "publishing" =>
               payload'[writer'[c]] \in Offers
    PROVE  Offers' \subseteq Offers
<1> SUFFICES ASSUME NEW o \in Offers' PROVE o \in Offers
    OBVIOUS
<1>1. \/ o = 0
      \/ \E c \in Controllers : o = current'[c]
      \/ \E c \in Controllers : alive' /\ stage'[c] = "publishing" /\ o = payload'[writer'[c]]
    BY DEF Offers
<1>2. 0 \in Offers
    BY DEF Offers
<1> QED BY <1>1, <1>2

\* Of the steps that leave the payloads alone, only the probes move the clock.
LEMMA QuietClock ==
    ASSUME Inv, UNCHANGED payload,
           \A c \in Controllers : current'[c] \in {0, current[c]},
           \A c \in Controllers : alive' /\ stage'[c] = "publishing" =>
               alive /\ stage[c] = "publishing" /\ writer'[c] = writer[c],
           reader' = reader \/ (alive /\ reader' \in Scopes)
    PROVE  Clock!ClockNext
<1>1. Offers' \subseteq Offers
  <2>1. \A c \in Controllers : current'[c] \in Offers
      BY DEF Offers
  <2>2. \A c \in Controllers : alive' /\ stage'[c] = "publishing" =>
            payload'[writer'[c]] \in Offers
      BY DEF Offers
  <2> QED BY <2>1, <2>2, OffersShrink
<1>2. Shown' \in Offers \cup {Shown}
  <2>1. CASE reader' = reader
      BY <2>1 DEF Shown
  <2>2. CASE alive /\ reader' \in Scopes
      BY <2>2, NoneAssumption, PayloadOffered DEF Shown
  <2> QED BY <2>1, <2>2
<1> QED BY <1>1, <1>2, ClockMoves

LEMMA QuietStep ==
    ASSUME Inv,
           \/ Start \/ ProbeGlobal \/ ProbeLocal
           \/ \E c \in Controllers :
                  Launch(c) \/ Create(c) \/ OpenProcess(c) \/ LoadHook(c) \/ QuitIdle(c)
    PROVE  Clock!ClockNext
<1>1. CASE Start
  <2>1. /\ UNCHANGED <<payload, reader, current>>
        /\ \A c \in Controllers : stage'[c] # "publishing"
      BY <1>1 DEF Start
  <2>2. \A c \in Controllers : current'[c] \in {0, current[c]}
      BY <2>1
  <2> QED BY <2>1, <2>2, QuietClock
<1>2. CASE ProbeGlobal \/ ProbeLocal
  <2>1. /\ UNCHANGED <<alive, payload, stage, writer, current>>
        /\ hook # "absent"
        /\ \/ reader' = reader
           \/ reader' \in Scopes
      BY <1>2 DEF ProbeGlobal, ProbeLocal, Bind, Scopes
  <2>2. alive
      BY <2>1 DEF Inv, TypeOK
  <2> QED BY <2>1, <2>2, QuietClock
<1>3. ASSUME NEW c \in Controllers,
             Launch(c) \/ Create(c) \/ OpenProcess(c) \/ LoadHook(c) \/ QuitIdle(c)
      PROVE  Clock!ClockNext
  <2>1. UNCHANGED <<alive, payload, reader>>
      BY <1>3 DEF Launch, Create, OpenProcess, LoadHook, QuitIdle
  <2>2. /\ current' = current \/ current' = [current EXCEPT ![c] = 0]
        /\ writer' = writer \/ \E w \in Scopes : writer' = [writer EXCEPT ![c] = w]
        /\ \E t \in Stages \ {"publishing"} : stage' = [stage EXCEPT ![c] = t]
      BY <1>3 DEF Launch, Create, OpenProcess, LoadHook, QuitIdle, Goto, Stages, Injecting, Scopes
  <2>3. \A o \in Controllers : current'[o] \in {0, current[o]}
      BY <2>2 DEF Inv, TypeOK
  <2>4. \A o \in Controllers : alive' /\ stage'[o] = "publishing" =>
            alive /\ stage[o] = "publishing" /\ writer'[o] = writer[o]
      BY <2>1, <2>2 DEF Inv, TypeOK
  <2> QED BY <2>1, <2>3, <2>4, QuietClock
<1> QED BY <1>1, <1>2, <1>3

\* A controller writes what is on offer: its current delta, or zero.
LEMMA WriteClock ==
    ASSUME Inv, NEW c \in Controllers, WriteInitial(c) \/ Publish(c) \/ Disable(c) \/ Quit(c)
    PROVE  Clock!ClockNext
<1>1. PICK d \in {0, current[c]} : Write(c, d)
    BY DEF WriteInitial, Publish, Disable, Quit
<1>2. /\ stage[c] \notin {"off", "idle"}
      /\ UNCHANGED <<alive, reader, writer, current>>
      /\ \E t \in Stages \ {"publishing"} : stage' = [stage EXCEPT ![c] = t]
    BY DEF WriteInitial, Publish, Disable, Quit, Goto, Stages, Injecting, Leaving
<1>3. d \in Offers /\ d \in Deltas
    BY DeltasAssumption DEF Offers, Inv, TypeOK
<1>4. /\ payload'[writer[c]] = d
      /\ \A s \in Scopes : s # writer[c] => payload'[s] = payload[s]
    BY <1>1, <1>2, <1>3, WriteEffect DEF Inv
<1>5. Offers' \subseteq Offers
  <2>1. \A o \in Controllers : current'[o] \in Offers
      BY <1>2 DEF Offers
  <2>2. ASSUME NEW o \in Controllers, alive', stage'[o] = "publishing"
        PROVE  payload'[writer'[o]] \in Offers
    <3>1. alive /\ stage[o] = "publishing" /\ writer'[o] = writer[o]
        BY <1>2, <2>2 DEF Inv, TypeOK
    <3>2. writer[o] \in Scopes /\ payload[writer[o]] \in Offers
        BY <3>1, HasWriter, PayloadOffered DEF Inv
    <3> QED BY <1>3, <1>4, <3>1, <3>2
  <2> QED BY <2>1, <2>2, OffersShrink
<1>6. Shown' \in Offers \cup {Shown}
  <2>1. reader # None => reader \in Scopes
      BY DEF Inv, TypeOK
  <2> QED BY <1>2, <1>3, <1>4, <2>1 DEF Shown
<1> QED BY <1>5, <1>6, ClockMoves

\* A writer closes, or the process exits with its hook: what nobody has open
\* is gone.
LEMMA CloseClock ==
    ASSUME Inv,
           \/ Exit
           \/ \E c \in Controllers : FailInject(c) \/ Prune(c) \/ DropEntry(c)
    PROVE  Clock!ClockNext
<1>1. /\ payload' \in [Scopes -> Deltas]
      /\ \A s \in Scopes : payload'[s] \in {0, payload[s]}
    BY DeltasAssumption DEF Exit, FailInject, Prune, DropEntry, CloseWriter, Inv, TypeOK
<1>2. /\ alive' => alive
      /\ reader' \in {None, reader}
    BY DEF Exit, FailInject, Prune, DropEntry, CloseWriter
<1>3. \A o \in Controllers : current'[o] \in {0, current[o]}
    BY DEF Exit, FailInject, Prune, DropEntry, Inv, TypeOK
<1>4. \A o \in Controllers : stage'[o] = "publishing" =>
          stage[o] = "publishing" /\ writer'[o] = writer[o]
    BY DEF Exit, FailInject, Prune, DropEntry, CloseWriter, Goto, Inv, TypeOK
<1>5. 0 \in Offers
    BY DEF Offers
<1>6. Offers' \subseteq Offers
  <2>1. \A o \in Controllers : current'[o] \in Offers
      BY <1>3 DEF Offers
  <2>2. ASSUME NEW o \in Controllers, alive', stage'[o] = "publishing"
        PROVE  payload'[writer'[o]] \in Offers
    <3>1. writer[o] \in Scopes /\ writer'[o] = writer[o] /\ alive
        BY <1>2, <1>4, <2>2, HasWriter DEF Inv
    <3> QED BY <1>1, <1>5, <3>1, PayloadOffered
  <2> QED BY <2>1, <2>2, OffersShrink
<1>7. Shown' \in Offers \cup {Shown}
  <2>1. reader # None => reader \in Scopes
      BY DEF Inv, TypeOK
  <2> QED BY <1>1, <1>2, <1>5, <2>1 DEF Shown
<1> QED BY <1>6, <1>7, ClockMoves

\* The one step that adds an offer.
LEMMA ChooseClock ==
    ASSUME Inv, NEW c \in Controllers, NEW d \in Deltas, Choose(c, d)
    PROVE  Clock!ClockNext
<1>1. /\ current' = [current EXCEPT ![c] = d]
      /\ UNCHANGED <<alive, reader, payload, writer>>
      /\ \/ stage' = stage
         \/ /\ stage[c] = "entry"
            /\ stage' = [stage EXCEPT ![c] = "publishing"]
    BY DEF Choose, Goto
<1>2. current'[c] = d /\ \A o \in Controllers : o # c => current'[o] = current[o]
    BY <1>1 DEF Inv, TypeOK
<1>3. d \in Offers'
    BY <1>2 DEF Offers
<1>4. ASSUME NEW o \in Offers' PROVE o \in Offers \cup {d}
  <2>1. CASE o = 0
      BY <2>1 DEF Offers
  <2>2. ASSUME NEW e \in Controllers, o = current'[e] PROVE o \in Offers \cup {d}
      BY <1>2, <2>2 DEF Offers
  <2>3. ASSUME NEW e \in Controllers, alive', stage'[e] = "publishing", o = payload'[writer'[e]]
        PROVE  o \in Offers
    <3>1. stage[e] \in {"publishing", "entry"}
        BY <1>1, <2>3 DEF Inv, TypeOK
    <3>2. writer[e] \in Scopes
        BY <3>1, HasWriter DEF Inv
    <3> QED BY <1>1, <2>3, <3>2, PayloadOffered
  <2> QED BY <1>4, <2>1, <2>2, <2>3 DEF Offers
<1>5. Offers' = (Offers \cap Offers') \cup {d}
    BY <1>3, <1>4
<1>6. Shown' = Shown
    BY <1>1 DEF Shown
<1>7. Clock!Choose(d)
  <2>1. Offers \cap Offers' \in SUBSET Offers
      OBVIOUS
  <2> QED BY <1>5, <1>6, <2>1 DEF Clock!Choose
<1> QED BY <1>7 DEF Clock!ClockNext

\* Together, in any number and of any elevation, the controllers implement the
\* clock that one of them promises, as long as none crashes and no inject fails
\* in a running process.
THEOREM ControllersImplementFakeClock == Spec => ClocksFollow
<1>1. Init => Clock!ClockInit
  <2> SUFFICES ASSUME Init PROVE Clock!ClockInit
      OBVIOUS
  <2>1. Offers = {0}
      BY DEF Init, Offers
  <2>2. Shown = 0
      BY DEF Init, Shown
  <2> QED BY <2>1, <2>2 DEF Clock!ClockInit
<1>2. Inv /\ [Next]_vars => [Clock!ClockNext]_Clock!clockVars
  <2> SUFFICES ASSUME Inv, [Next]_vars
               PROVE  Clock!ClockNext \/ UNCHANGED Clock!clockVars
      OBVIOUS
  <2>1. CASE UNCHANGED vars
      BY <2>1 DEF vars, Clock!clockVars, Offers, Shown
  <2>2. CASE Next
      BY <2>2, QuietStep, WriteClock, CloseClock, ChooseClock DEF Next
  <2> QED BY <2>1, <2>2
<1> QED BY <1>1, <1>2, InvCorrect, PTL DEF Spec, ClocksFollow, Clock!ClockSpec

\* Once every controller has closed, or has nothing to do with the process, it is
\* at real time.  A delta that an inject left behind when it failed in a running
\* process, or that a controller left when it crashed, would stay: neither is a
\* step of this specification.
THEOREM ClosedAtRealTime ==
    Spec => []((\A c \in Controllers : stage[c] \in {"off", "idle"}) => Shown = 0)
<1>1. Inv => ((\A c \in Controllers : stage[c] \in {"off", "idle"}) => Shown = 0)
    BY DEF Inv, TypeOK, Backed, Behind, Offering, Replacing, Shown
<1> QED BY <1>1, InvCorrect, PTL
=============================================================================
