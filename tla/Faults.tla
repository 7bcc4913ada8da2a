------------------------------- MODULE Faults -------------------------------
(***************************************************************************)
(* A budget of failures shared by every component: a command that errors,  *)
(* a database call that errors, a crash of the process.                    *)
(***************************************************************************)
EXTENDS Integers

CONSTANT MaxFaults   \* bound: how many failures a behaviour may have

ASSUME FaultsAssumption == MaxFaults \in Nat

VARIABLE faults

FaultsTypeOK == faults \in 0..MaxFaults

FaultsInit == faults = 0

Fault == faults < MaxFaults /\ faults' = faults + 1
=============================================================================
