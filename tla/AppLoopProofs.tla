--------------------------- MODULE AppLoopProofs ---------------------------
(***************************************************************************)
(* Theorems about AppLoop, for any finite set of processes, any rules and  *)
(* any log of two lines or more to a process.                              *)
(***************************************************************************)
EXTENDS AppLoop, FiniteSetTheorems, TLAPS

\* The scan's own variables are empty outside it.
AtRest == pc # "scan" => left = {} /\ failed = {}

Room == IF warned THEN 0 ELSE 1

\* The lines that may still be pushed in this scan do not push out the failure
\* of a process the scan is done with.
Budget ==
    /\ failed \cap left = {}
    /\ \A p \in failed : age[p] + 2 * Cardinality(left) + Room < LogCap

LoopInv == TypeOK /\ AtRest /\ Budget

LEMMA ProcessCount ==
    ASSUME NEW S, S \subseteq Pids
    PROVE  /\ IsFiniteSet(S)
           /\ Cardinality(S) \in Nat
           /\ Cardinality(S) <= Cardinality(Pids)
BY LoopAssumption, FS_Subset, FS_CardinalityType

LEMMA LogSize == LogCap \in Nat /\ Cardinality(Pids) \in Nat /\ LogCap >= 2 * Cardinality(Pids)
BY LogAssumption, LoopAssumption, FS_CardinalityType

\* What log_push does to the lines that are in the log.
LEMMA LogPushes ==
    ASSUME TypeOK, NEW n \in Nat
    PROVE  /\ Log(n) \in [Pids -> 0..LogCap]
           /\ \A q \in Pids : age[q] + n < LogCap => Log(n)[q] = age[q] + n
<1>1. \A q \in Pids : age[q] \in 0..LogCap
    BY DEF TypeOK
<1> QED BY <1>1, LogSize DEF Log

\* inject pushes at most two lines, and the fallback warning once.
LEMMA InjectLogs ==
    ASSUME TypeOK, NEW p \in Pids, Inject(p)
    PROVE  /\ injected' \in {injected, injected \cup {p}}
           /\ warned' \in BOOLEAN
           /\ age' \in [Pids -> 0..LogCap]
           /\ p \notin injected' => age'[p] = 0
           /\ \E n \in Nat : /\ n + Room' <= 2 + Room
                             /\ \A q \in Pids \ {p} : age'[q] = Log(n)[q]
<1>1. \A n \in Nat : Log(n) \in [Pids -> 0..LogCap]
    BY LogPushes
<1>2. LogCap \in Nat /\ warned \in BOOLEAN
    BY LogSize DEF TypeOK
<1>3. CASE p \in open
  <2>1. PICK n \in Warnings : age' = [Log(n + 1) EXCEPT ![p] = LogCap]
      BY <1>3 DEF Inject
  <2>2. n \in Nat /\ n + 1 \in Nat /\ n + 1 <= 2 + Room
      BY <1>2 DEF Warnings, Room
  <2>3. warned' = TRUE /\ Room' = 0 /\ injected' = injected \cup {p}
      BY <1>3 DEF Inject, Room
  <2>4. age' \in [Pids -> 0..LogCap] /\ \A q \in Pids \ {p} : age'[q] = Log(n + 1)[q]
      BY <1>1, <1>2, <2>1, <2>2
  <2> QED BY <2>2, <2>3, <2>4
<1>4. CASE p \notin open /\ age' = [Log(1) EXCEPT ![p] = 0] /\ UNCHANGED warned
  <2>1. injected' = injected /\ Room' = Room /\ Room \in Nat
      BY <1>4 DEF Inject, Room
  <2>2. age' \in [Pids -> 0..LogCap] /\ \A q \in Pids \ {p} : age'[q] = Log(1)[q]
      BY <1>1, <1>2, <1>4
  <2>3. age'[p] = 0
      BY <1>1, <1>4
  <2>4. 1 + Room' <= 2 + Room
      BY <2>1
  <2> QED BY <1>2, <1>4, <2>1, <2>2, <2>3, <2>4
<1>5. CASE /\ p \notin open
           /\ \E n \in Warnings : age' = [Log(n + 1) EXCEPT ![p] = 0]
           /\ warned' = TRUE
  <2>1. PICK n \in Warnings : age' = [Log(n + 1) EXCEPT ![p] = 0]
      BY <1>5
  <2>2. n \in Nat /\ n + 1 \in Nat /\ n + 1 <= 2 + Room
      BY <1>2 DEF Warnings, Room
  <2>3. warned' = TRUE /\ Room' = 0 /\ injected' = injected
      BY <1>5 DEF Inject, Room
  <2>4. age' \in [Pids -> 0..LogCap] /\ \A q \in Pids \ {p} : age'[q] = Log(n + 1)[q]
      BY <1>1, <1>2, <2>1, <2>2
  <2>5. age'[p] = 0
      BY <1>1, <2>1, <2>2
  <2> QED BY <2>2, <2>3, <2>4, <2>5
<1> QED BY <1>3, <1>4, <1>5 DEF Inject

-----------------------------------------------------------------------------
(***************************************************************************)
(* The model keeps ages in place of the lines of the log.  log is the      *)
(* VecDeque, and fail[p] the line that reports the last failure of p.      *)
(***************************************************************************)

Shows(log, ages, fail) ==
    \A p \in Pids : ages[p] < LogCap =>
        ages[p] < Len(log) /\ log[Len(log) - ages[p]] = fail[p]

\* The ages tell what the log holds: a push takes them all one further, and a
\* failure it reports to 0.
THEOREM LogHoldsWhatAgesTell ==
    ASSUME TypeOK, NEW Line, NEW log \in Seq(Line), Len(log) <= LogCap,
           NEW fail \in [Pids -> Line], NEW n \in Nat, Shows(log, Log(n), fail),
           NEW line \in Line
    PROVE  /\ Shows(LogPush(log, line), Log(n + 1), fail)
           /\ \A p \in Pids : fail[p] = line =>
                  Shows(LogPush(log, line), [Log(n + 1) EXCEPT ![p] = 0], fail)
<1> DEFINE pushed == LogPush(log, line)
           longer == Append(log, line)
<1>1. PICK size \in Nat : size = Len(log) /\ size <= LogCap
    OBVIOUS
<1>2. /\ longer \in Seq(Line) /\ Len(longer) = size + 1 /\ longer[size + 1] = line
      /\ \A i \in 1..size : longer[i] = log[i]
    BY <1>1
\* log_push drops d lines at the front, and keeps the others in their order.
<1>3. ASSUME LogCap > 0
      PROVE  \E d \in {0, 1}, new \in Nat :
                 /\ new = Len(pushed) /\ new = size + 1 - d /\ new <= LogCap
                 /\ d = 1 => new = LogCap
                 /\ pushed[new] = line
                 /\ \A i \in 1..(new - 1) : pushed[i] = log[i + d]
  <2>1. CASE size + 1 > LogCap
    <3>1. size = LogCap /\ pushed = Tail(longer) /\ size > 0
        BY <1>1, <1>2, <1>3, <2>1, LogSize DEF LogPush
    <3>2. Len(Tail(longer)) = size /\ \A i \in 1..size : Tail(longer)[i] = longer[i + 1]
        BY <1>2
    <3> HIDE DEF longer, pushed
    <3>3. pushed[size] = line
        BY <1>2, <3>1, <3>2
    <3>4. ASSUME NEW i \in 1..(size - 1) PROVE pushed[i] = log[i + 1]
      <4>1. i \in 1..size /\ i + 1 \in 1..size
          OBVIOUS
      <4> QED BY <1>2, <3>1, <3>2, <4>1
    <3>5. Len(pushed) = size /\ size = size + 1 - 1
        BY <3>1, <3>2
    <3> QED BY <1>1, <3>1, <3>3, <3>4, <3>5
  <2>2. CASE size + 1 <= LogCap
    <3>1. pushed = longer
        BY <1>2, <2>2, LogSize DEF LogPush
    <3> HIDE DEF longer, pushed
    <3>2. ASSUME NEW i \in 1..(size + 1 - 1) PROVE pushed[i] = log[i + 0]
      <4>1. i \in 1..size /\ i + 0 = i
          OBVIOUS
      <4> QED BY <1>2, <3>1, <4>1
    <3>3. Len(pushed) = size + 1 /\ pushed[size + 1] = line /\ size + 1 = size + 1 - 0
        BY <1>2, <3>1
    <3> QED BY <2>2, <3>2, <3>3
  <2> QED BY <2>1, <2>2, LogSize
<1> HIDE DEF longer, pushed
<1>4. ASSUME LogCap > 0
      PROVE  /\ Len(pushed) \in 1..LogCap /\ pushed[Len(pushed)] = line
             /\ \A m \in Nat : m < Len(log) /\ m + 1 < LogCap =>
                    m + 1 < Len(pushed) /\ pushed[Len(pushed) - (m + 1)] = log[Len(log) - m]
  <2>1. PICK d \in {0, 1}, new \in Nat :
            /\ new = Len(pushed) /\ new = size + 1 - d /\ new <= LogCap
            /\ d = 1 => new = LogCap
            /\ pushed[new] = line
            /\ \A i \in 1..(new - 1) : pushed[i] = log[i + d]
      BY <1>4, <1>3
  <2>2. new \in 1..LogCap
      BY <1>4, <2>1, LogSize
  <2>3. ASSUME NEW m \in Nat, m < size, m + 1 < LogCap
        PROVE  m + 1 < new /\ pushed[new - (m + 1)] = log[size - m]
    <3>1. m + 1 < new
        BY <2>1, <2>3
    <3>2. new - (m + 1) \in 1..(new - 1) /\ new - (m + 1) + d = size - m
        BY <2>1, <3>1
    <3>3. pushed[new - (m + 1)] = log[new - (m + 1) + d]
        BY <2>1, <3>2
    <3> QED BY <3>1, <3>2, <3>3
  <2> QED BY <1>1, <2>1, <2>2, <2>3
<1>5. ASSUME NEW q \in Pids, Log(n + 1)[q] < LogCap
      PROVE  Log(n + 1)[q] < Len(pushed) /\ pushed[Len(pushed) - Log(n + 1)[q]] = fail[q]
  <2>1. age[q] \in Nat
      BY DEF TypeOK
  <2> DEFINE k == age[q] + n
  <2>2. Log(n + 1)[q] = k + 1 /\ Log(n)[q] = k /\ k + 1 < LogCap /\ k \in Nat
    <3>1. age[q] + (n + 1) < LogCap
        BY <1>5, <2>1, LogSize DEF Log
    <3>2. age[q] + n < LogCap /\ age[q] + (n + 1) = k + 1 /\ k \in Nat
        BY <2>1, <3>1, LogSize
    <3> QED BY <3>1, <3>2 DEF Log
  <2> HIDE DEF k
  <2>3. k < LogCap /\ LogCap > 0
      BY <2>2, LogSize
  <2>4. k < Len(log) /\ log[Len(log) - k] = fail[q]
      BY <2>2, <2>3 DEF Shows
  <2>5. k + 1 < Len(pushed) /\ pushed[Len(pushed) - (k + 1)] = log[Len(log) - k]
      BY <1>4, <2>2, <2>3, <2>4
  <2> QED BY <2>2, <2>4, <2>5
<1>6. Shows(pushed, Log(n + 1), fail)
    BY <1>5 DEF Shows
<1>7. ASSUME NEW p \in Pids, fail[p] = line
      PROVE  Shows(pushed, [Log(n + 1) EXCEPT ![p] = 0], fail)
  <2>1. LogCap > 0
      BY LogSize, LoopAssumption, FS_EmptySet, FS_CardinalityType
  <2>2. Len(pushed) \in 1..LogCap /\ pushed[Len(pushed)] = fail[p]
      BY <1>4, <1>7, <2>1
  <2> DEFINE ages == [Log(n + 1) EXCEPT ![p] = 0]
  <2>3. ages[p] = 0 /\ \A q \in Pids : q # p => ages[q] = Log(n + 1)[q]
      BY DEF Log
  <2>4. ages[p] < Len(pushed) /\ pushed[Len(pushed) - ages[p]] = fail[p]
      BY <2>2, <2>3, LogSize
  <2>5. ASSUME NEW q \in Pids, ages[q] < LogCap
        PROVE  ages[q] < Len(pushed) /\ pushed[Len(pushed) - ages[q]] = fail[q]
      BY <1>5, <2>3, <2>4, <2>5
  <2> HIDE DEF ages
  <2>6. Shows(pushed, ages, fail)
      BY <2>5 DEF Shows
  <2> QED BY <2>6 DEF ages
<1> QED BY <1>6, <1>7 DEF pushed

-----------------------------------------------------------------------------

LEMMA LoopInit == Init => LoopInv
<1> SUFFICES ASSUME Init PROVE LoopInv
    OBVIOUS
<1>1. age \in [Pids -> 0..LogCap]
    BY LogSize DEF Init
<1>2. rules \in [Rules -> {"none", "on", "off"}]
    BY DEF Init
<1>3. TypeOK
    BY <1>1, <1>2 DEF Init, TypeOK
<1> QED BY <1>3 DEF Init, LoopInv, AtRest, Budget

\* The lines of one inject, and the warning if it pushed it, come out of what
\* was set aside for them.
LEMMA LinesLeft ==
    ASSUME NEW a \in Nat, NEW n \in Nat, NEW c \in Nat, NEW r \in Nat, NEW s \in Nat,
           n + s <= 2 + r
    PROVE  a + n + 2 * (c - 1) + s <= a + 2 * c + r
OBVIOUS

\* The scan injects into the next process of its list.
LEMMA ScanInjects ==
    ASSUME LoopInv, NEW p \in Pids, Scan(p), p \notin injected, Matches(p)
    PROVE  LoopInv'
<1> USE DEF LoopInv
<1>1. /\ pc = "scan" /\ pc' = "scan"
      /\ p \in left /\ left' = left \ {p}
      /\ Inject(p)
      /\ failed' = IF p \in injected' THEN failed ELSE failed \cup {p}
      /\ UNCHANGED <<processVars, manager, listed, timerVars, ruleVars>>
    BY DEF Scan
<1>2. /\ injected' \in {injected, injected \cup {p}}
      /\ warned' \in BOOLEAN
      /\ age' \in [Pids -> 0..LogCap]
      /\ p \notin injected' => age'[p] = 0
    BY <1>1, InjectLogs
<1>3. PICK n \in Nat : /\ n + Room' <= 2 + Room
                       /\ \A q \in Pids \ {p} : age'[q] = Log(n)[q]
    BY <1>1, InjectLogs
<1>4. TypeOK'
    BY <1>1, <1>2 DEF TypeOK, processVars, timerVars, ruleVars
<1>5. left \subseteq Pids /\ failed \subseteq Pids
    BY DEF TypeOK
<1>6. PICK c \in Nat : c = Cardinality(left) /\ c <= Cardinality(Pids) /\ c > 0
  <2>1. IsFiniteSet(left) /\ Cardinality(left) \in Nat /\ Cardinality(left) <= Cardinality(Pids)
      BY <1>5, ProcessCount
  <2>2. Cardinality(left) # 0
      BY <1>1, <2>1, FS_EmptySet
  <2> QED BY <2>1, <2>2
<1>7. Cardinality(left') = c - 1
    BY <1>1, <1>5, <1>6, ProcessCount, FS_RemoveElement
<1>8. Room \in 0..1 /\ Room' \in 0..1
    BY DEF Room
<1>9. ASSUME NEW q \in failed' PROVE age'[q] + 2 * Cardinality(left') + Room' < LogCap
  <2>1. CASE q \in failed
    <3>1. q \in Pids \ {p} /\ age[q] \in Nat
        BY <1>1, <1>5, <2>1 DEF Budget, TypeOK
    <3>2. age[q] + 2 * c + Room < LogCap
        BY <1>6, <2>1 DEF Budget
    <3>3. age[q] + n < LogCap
        BY <1>3, <1>6, <1>8, <3>1, <3>2, LogSize
    <3>4. age'[q] = age[q] + n
        BY <1>3, <3>1, <3>3, LogPushes
    <3>5. age'[q] + 2 * Cardinality(left') + Room' = age[q] + n + 2 * (c - 1) + Room'
        BY <1>7, <3>4
    <3>6. n + Room' <= 2 + Room
        BY <1>3
    <3>7. Room \in Nat /\ Room' \in Nat
        BY <1>8
    <3>8. age[q] + n + 2 * (c - 1) + Room' <= age[q] + 2 * c + Room
        BY <3>1, <3>6, <3>7, LinesLeft
    <3> QED BY <1>6, <1>8, <3>1, <3>2, <3>5, <3>8, LogSize
  <2>2. CASE q \notin failed
    <3>1. q = p /\ age'[p] = 0
        BY <1>1, <1>2, <1>9, <2>2
    <3> QED BY <1>6, <1>7, <1>8, <3>1, LogSize
  <2> QED BY <2>1, <2>2
<1>10. failed' \cap left' = {}
    BY <1>1 DEF Budget
<1> QED BY <1>1, <1>4, <1>9, <1>10 DEF AtRest, Budget

\* The box of a row injects or disables, outside the scan.
LEMMA BoxKeeps ==
    ASSUME LoopInv, NEW p \in Pids, Check(p) \/ Uncheck(p)
    PROVE  LoopInv'
<1> USE DEF LoopInv
<1>1. /\ pc = "ui"
      /\ UNCHANGED <<processVars, manager, listed, timerVars, ruleVars, scanVars>>
    BY DEF Check, Uncheck
<1>2. injected' \subseteq Pids /\ age' \in [Pids -> 0..LogCap] /\ warned' \in BOOLEAN
  <2>1. CASE Check(p)
    <3>1. Inject(p)
        BY <2>1 DEF Check
    <3>2. injected' \in {injected, injected \cup {p}}
        BY <3>1, InjectLogs
    <3> QED BY <3>1, <3>2, InjectLogs DEF TypeOK
  <2>2. CASE Uncheck(p)
    <3>1. Log(1) \in [Pids -> 0..LogCap]
        BY LogPushes
    <3> QED BY <2>2, <3>1 DEF Uncheck, TypeOK
  <2> QED BY <2>1, <2>2
<1>3. TypeOK'
    BY <1>1, <1>2 DEF TypeOK, processVars, timerVars, ruleVars, scanVars
<1> QED BY <1>1, <1>3 DEF AtRest, Budget, scanVars

LEMMA RulesKeep ==
    ASSUME LoopInv, NEW r \in Rules, AddRule(r) \/ ToggleRule(r) \/ RemoveRule(r)
    PROVE  LoopInv'
<1> USE DEF LoopInv
<1>1. PICK s \in {"none", "on", "off"} : SetRule(r, s)
    BY DEF AddRule, ToggleRule, RemoveRule
<1>2. rules' \in [Rules -> {"none", "on", "off"}]
    BY <1>1 DEF SetRule, TypeOK
<1>3. pc = "ui" /\ UNCHANGED <<processVars, manager, listed, injected, timerVars,
                               auto, scanVars, logVars>>
    BY <1>1 DEF SetRule
<1> QED BY <1>2, <1>3 DEF TypeOK, AtRest, Budget, processVars, timerVars, scanVars, logVars

LEMMA LoopStep == LoopInv /\ [Next]_vars => LoopInv'
<1> SUFFICES ASSUME LoopInv, [Next]_vars PROVE LoopInv'
    OBVIOUS
<1> USE DEF LoopInv, processVars, timerVars, ruleVars, scanVars, logVars
<1>1. CASE Update
  <2>1. pc = "rest" /\ left = {} /\ failed' = {}
      BY <1>1 DEF Update, AtRest
  <2>2. listed' \subseteq Pids /\ injected' \subseteq Pids /\ refreshDue' \in BOOLEAN
      BY <1>1 DEF Update, RefreshIfDue, TypeOK
  <2>3. /\ scanDue' \in BOOLEAN /\ pc' \in {"scan", "ui"} /\ left' \subseteq listed'
        /\ pc' # "scan" => left' = {}
      BY <1>1, <2>1 DEF Update, ScanIfDue, TypeOK
  <2>4. TypeOK'
      BY <1>1, <2>1, <2>2, <2>3 DEF Update, TypeOK
  <2> QED BY <2>1, <2>3, <2>4 DEF AtRest, Budget
<1>2. ASSUME NEW p \in Pids, Scan(p) PROVE LoopInv'
  <2>1. CASE p \notin injected /\ Matches(p)
      BY <1>2, <2>1, ScanInjects
  <2>2. CASE ~(p \notin injected /\ Matches(p))
    <3>1. /\ pc = "scan" /\ p \in left /\ left' = left \ {p}
          /\ UNCHANGED <<alive, open, manager, listed, injected, refreshDue,
                         scanDue, auto, rules, pc, failed, age, warned>>
        BY <1>2, <2>2 DEF Scan
    <3>2. TypeOK'
        BY <3>1 DEF TypeOK
    <3>3. /\ Cardinality(left') \in Nat /\ Cardinality(left) \in Nat
          /\ Cardinality(left') <= Cardinality(left)
        BY <3>1, ProcessCount, FS_Subset DEF TypeOK
    <3>4. ASSUME NEW q \in failed' PROVE age'[q] + 2 * Cardinality(left') + Room' < LogCap
      <4>1. age'[q] = age[q] /\ age[q] \in Nat /\ Room' = Room /\ Room \in 0..1
          BY <3>1, <3>4 DEF Room, TypeOK
      <4>2. age[q] + 2 * Cardinality(left) + Room < LogCap
          BY <3>1, <3>4 DEF Budget
      <4> QED BY <3>3, <4>1, <4>2, LogSize
    <3>5. failed' \cap left' = {}
        BY <3>1 DEF Budget
    <3> QED BY <3>1, <3>2, <3>4, <3>5 DEF AtRest, Budget
  <2> QED BY <2>1, <2>2
<1>3. CASE EndScan
    BY <1>3 DEF EndScan, TypeOK, AtRest, Budget
<1>4. CASE EndFrame
    BY <1>4 DEF EndFrame, TypeOK, AtRest, Budget
<1>5. CASE RefreshButton
    BY <1>5 DEF RefreshButton, TypeOK, AtRest, Budget
<1>6. CASE ToggleAuto
    BY <1>6 DEF ToggleAuto, TypeOK, AtRest, Budget
<1>7. ASSUME NEW p \in Pids, Check(p) \/ Uncheck(p) PROVE LoopInv'
    BY <1>7, BoxKeeps
<1>8. ASSUME NEW r \in Edited, AddRule(r) \/ ToggleRule(r) \/ RemoveRule(r) PROVE LoopInv'
    BY <1>8, RulesKeep, LoopAssumption
<1>9. CASE Environment
  <2>1. /\ alive' \subseteq Pids /\ open' \subseteq alive'
        /\ refreshDue' \in BOOLEAN /\ scanDue' \in BOOLEAN
      BY <1>9 DEF Environment, RefreshElapses, ScanElapses, Start, GetReady, Exit, TypeOK
  <2>2. UNCHANGED <<manager, listed, injected, auto, rules, pc, left, failed, age, warned>>
      BY <1>9 DEF Environment, RefreshElapses, ScanElapses, Start, GetReady, Exit
  <2> HIDE DEF LoopInv
  <2>3. TypeOK'
      BY <2>1, <2>2 DEF TypeOK, LoopInv
  <2>4. (AtRest /\ Budget)'
      BY <2>2 DEF AtRest, Budget, Room, LoopInv
  <2> QED BY <2>3, <2>4 DEF LoopInv
<1>10. CASE UNCHANGED vars
    BY <1>10 DEF vars, TypeOK, AtRest, Budget, Room
<1> QED BY <1>1, <1>2, <1>3, <1>4, <1>5, <1>6, <1>7, <1>8, <1>9, <1>10 DEF Next, Frame, User

LEMMA LoopCorrect == Spec => []LoopInv
BY LoopInit, LoopStep, PTL DEF Spec

\* The state of the App and its log is well-formed.
THEOREM LoopTypeInvariant == Spec => []TypeOK
BY LoopCorrect, PTL DEF LoopInv

\* A scan reports each of its failures where the user can read it, for any
\* number of processes the log has two lines for.
THEOREM EveryFailureReported == Spec => []ScanReported
<1>1. LoopInv => ScanReported
  <2> SUFFICES ASSUME LoopInv, NEW p \in failed PROVE age[p] < LogCap
      BY DEF ScanReported
  <2>1. age[p] \in Nat /\ Cardinality(left) \in Nat /\ Room \in 0..1
      BY ProcessCount DEF LoopInv, TypeOK, Room
  <2>2. age[p] + 2 * Cardinality(left) + Room < LogCap
      BY DEF LoopInv, Budget
  <2> QED BY <2>1, <2>2, LogSize
<1> QED BY <1>1, LoopCorrect, PTL

-----------------------------------------------------------------------------
(***************************************************************************)
(* The rows of the process tab, and what a scan has been past.             *)
(***************************************************************************)

\* Every process that a rule matches and the scan is past has an entry or has
\* failed.
Accounted ==
    pc = "scan" /\ manager =>
        \A p \in listed \ left : Matches(p) => p \in injected \cup failed

RowInv == EntryListed /\ Accounted

LEMMA RowInit == Init => RowInv
BY DEF Init, RowInv, EntryListed, Accounted

\* Whatever inject does, an entry it makes is the one of its process.
LEMMA InjectAdds ==
    ASSUME NEW p \in Pids, Inject(p)
    PROVE  injected' = injected \/ injected' = injected \cup {p}
BY DEF Inject

LEMMA ScanRows == ASSUME TypeOK, RowInv, NEW p \in Pids, Scan(p) PROVE RowInv'
<1>1. /\ p \in left /\ left' = left \ {p} /\ left \subseteq listed
      /\ UNCHANGED <<alive, manager, listed, rules, pc>>
    BY DEF Scan, TypeOK, processVars, ruleVars
<1>2. /\ injected' = injected \/ injected' = injected \cup {p}
      /\ failed \subseteq failed'
      /\ Matches(p) => p \in injected' \cup failed'
  <2>1. CASE p \notin injected /\ Matches(p)
      BY <2>1, InjectAdds DEF Scan
  <2>2. CASE ~(p \notin injected /\ Matches(p))
      BY <2>2 DEF Scan
  <2> QED BY <2>1, <2>2
<1>3. EntryListed'
    BY <1>1, <1>2 DEF RowInv, EntryListed
<1>4. ASSUME pc = "scan", manager, NEW q \in listed \ left', Matches(q)
      PROVE  q \in injected' \cup failed'
    BY <1>1, <1>2, <1>4 DEF RowInv, Accounted
<1>5. Accounted'
    BY <1>1, <1>4 DEF Accounted, Matches, Compiled
<1> QED BY <1>3, <1>5 DEF RowInv

LEMMA RowStep == TypeOK /\ RowInv /\ [Next]_vars => RowInv'
<1> SUFFICES ASSUME TypeOK, RowInv, [Next]_vars PROVE RowInv'
    OBVIOUS
<1> USE DEF processVars, timerVars, ruleVars, scanVars, logVars
<1>1. CASE Update
  <2>1. injected' \cap alive' \subseteq listed'
      BY <1>1 DEF Update, RefreshIfDue, RowInv, EntryListed
  <2>2. pc' = "scan" /\ manager' => left' = listed'
      BY <1>1 DEF Update, ScanIfDue
  <2> QED BY <2>1, <2>2 DEF RowInv, EntryListed, Accounted
<1>2. ASSUME NEW p \in Pids, Scan(p) PROVE RowInv'
    BY <1>2, ScanRows
<1>3. CASE EndScan \/ EndFrame \/ ToggleAuto
    BY <1>3 DEF EndScan, EndFrame, ToggleAuto, RowInv, EntryListed, Accounted
<1>4. CASE RefreshButton
    BY <1>4 DEF RefreshButton, RowInv, EntryListed, Accounted
<1>5. ASSUME NEW p \in Pids, Check(p) \/ Uncheck(p) PROVE RowInv'
  <2>1. /\ pc' = "ui" /\ p \in listed
        /\ UNCHANGED <<alive, listed>>
        /\ injected' \subseteq injected \cup {p}
      BY <1>5, InjectAdds DEF Check, Uncheck
  <2> QED BY <2>1 DEF RowInv, EntryListed, Accounted
<1>6. ASSUME NEW r \in Edited, AddRule(r) \/ ToggleRule(r) \/ RemoveRule(r) PROVE RowInv'
  <2>1. pc' = "ui" /\ UNCHANGED <<alive, listed, injected>>
      BY <1>6 DEF AddRule, ToggleRule, RemoveRule, SetRule
  <2> QED BY <2>1 DEF RowInv, EntryListed, Accounted
<1>7. CASE Environment
  <2>1. UNCHANGED <<manager, listed, injected, rules, pc, left, failed>>
      BY <1>7 DEF Environment, RefreshElapses, ScanElapses, Start, GetReady, Exit
  <2>2. injected \cap alive' \subseteq alive
      BY <1>7 DEF Environment, RefreshElapses, ScanElapses, Start, GetReady, Exit
  <2> QED BY <2>1, <2>2 DEF RowInv, EntryListed, Accounted, Matches, Compiled
<1>8. CASE UNCHANGED vars
    BY <1>8 DEF vars, RowInv, EntryListed, Accounted, Matches, Compiled
<1> QED BY <1>1, <1>2, <1>3, <1>4, <1>5, <1>6, <1>7, <1>8 DEF Next, Frame, User

LEMMA RowCorrect == Spec => []RowInv
BY RowInit, RowStep, LoopTypeInvariant, PTL DEF Spec

\* Every running process with an entry has a row, whatever comes, goes and is
\* refreshed when.
THEOREM EveryEntryListed == Spec => []EntryListed
BY RowCorrect, PTL DEF RowInv

\* A scan injects every process a rule matches, or leaves its failure in the
\* log, for any number of processes the log has two lines for.
THEOREM NoProcessOverlooked == Spec => []NoneOverlooked
<1>1. RowInv /\ ScanReported => NoneOverlooked
    BY DEF RowInv, Accounted, ScanReported, NoneOverlooked
<1> QED BY <1>1, RowCorrect, EveryFailureReported, PTL
=============================================================================
