---------------------------- MODULE MCInjection ----------------------------
(***************************************************************************)
(* Instances of Injection for TLC.                                         *)
(***************************************************************************)
EXTENDS Injection, TLC

\* The images differ in one check each: app passes all, system is excluded,
\* wow64 is not native, and remote runs in another session.
CONSTANTS p1, p2, app, system, remote, wow64

\* The processes under test are interchangeable to an invariant.
PidSymmetry == Permutations(Pids)

AllFaults == FaultKinds
EveryDelta == {0, 1, 2}
OneDelta == {0, 1}
=============================================================================
