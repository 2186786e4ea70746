---------------------------- MODULE SharedDelta ----------------------------
(***************************************************************************)
(* The named memory-mapped files through which the controller publishes a  *)
(* delta and the injected hook reads it (crates/time-mocker-core).         *)
(*                                                                         *)
(* A mapping is named by a scope and a PID: Global\TimeMocker_<pid> or     *)
(* Local\TimeMocker_<pid>.  The kernel keeps the object, and its name, as  *)
(* long as one handle is open on it.  For a PID the controller holds at    *)
(* most one SharedDeltaWriter (its entries are keyed by PID) and the hook  *)
(* inside the process at most one SharedDeltaReader (a OnceCell), so the   *)
(* open handles are one scope, or None, for each end.                      *)
(***************************************************************************)
EXTENDS Integers

CONSTANTS
    Pids,       \* the process identifiers
    Deltas,     \* the i64 offsets in FILETIME ticks the user may choose
    None        \* no scope, no process, no image

ASSUME DeltasAssumption == Deltas \subseteq Int /\ 0 \in Deltas

Scopes == {"Global", "Local"}

ASSUME NoneAssumption == None \notin Pids \cup Scopes

VARIABLES
    writer,     \* writer[p]: scope of the mapping the controller has open for p
    reader,     \* reader[p]: scope of the mapping the hook in process p has open
    payload     \* payload[p][s]: DeltaTicks held by the mapping named s, p

mappings == <<writer, reader, payload>>

MappingsOK ==
    /\ writer \in [Pids -> Scopes \cup {None}]
    /\ reader \in [Pids -> Scopes \cup {None}]
    /\ payload \in [Pids -> [Scopes -> Deltas]]

\* A pagefile-backed mapping is zero-filled when it is created; the payload of
\* a name that no object has is kept at that 0.
MappingsInit ==
    /\ writer = [p \in Pids |-> None]
    /\ reader = [p \in Pids |-> None]
    /\ payload = [p \in Pids |-> [s \in Scopes |-> 0]]

-----------------------------------------------------------------------------

Exists(s, p) == s \in {writer[p], reader[p]}

\* SharedDeltaWriter::create: a fresh object or the one that has the name.
CreateWriter(s, p) ==
    /\ writer' = [writer EXCEPT ![p] = s]
    /\ UNCHANGED <<reader, payload>>

\* SharedDeltaWriter::write_delta, one relaxed atomic store.
WriteDelta(p, d) == payload' = [payload EXCEPT ![p][writer[p]] = d]

\* SharedDeltaReader::open succeeds when the name exists.
OpenReader(s, p) ==
    /\ reader' = [reader EXCEPT ![p] = s]
    /\ UNCHANGED <<writer, payload>>

\* What hooks::delta() returns in process p: the payload of the mapping the
\* hook opened, and 0 when there is none.
ReadDelta(p) == IF reader[p] = None THEN 0 ELSE payload[p][reader[p]]

\* Drop of the writers of P: an object nobody else has open goes away.
DropWriters(P) ==
    /\ writer' = [p \in Pids |-> IF p \in P THEN None ELSE writer[p]]
    /\ payload' = [p \in Pids |-> [s \in Scopes |->
                     IF p \in P /\ reader[p] # s THEN 0 ELSE payload[p][s]]]
    /\ UNCHANGED reader

\* The end of process p closes the handle of its hook.
DropReader(p) ==
    /\ reader' = [reader EXCEPT ![p] = None]
    /\ payload' = [payload EXCEPT ![p] = [s \in Scopes |->
                     IF writer[p] # s THEN 0 ELSE payload[p][s]]]
    /\ UNCHANGED writer

=============================================================================
