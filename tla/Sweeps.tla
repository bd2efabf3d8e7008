------------------------------- MODULE Sweeps -------------------------------
(***************************************************************************)
(* What the sweepers of sweepers.go and the commands beside them share:    *)
(* the clock that deadlines are compared with, calls that fail, and the    *)
(* LIMITed query by which each sweeper reads the rows it is going to       *)
(* handle.                                                                 *)
(*                                                                         *)
(* Bounds: MaxTime, MaxFaults (failing calls).                             *)
(***************************************************************************)
EXTENDS Naturals, FiniteSets

CONSTANTS MaxTime, MaxFaults

ASSUME SweepsAssumption == MaxTime \in Nat /\ MaxFaults \in Nat

VARIABLES
    now,    \* the clock
    faults  \* failing calls so far

Time == 0..MaxTime

(* A call to Discord or to SQLite that returns an error.                     *)
Fault == faults < MaxFaults /\ faults' = faults + 1

(* The rows of S that ORDER BY deadline ASC LIMIT k may return.              *)
Earliest(S, k, deadline) ==
    {B \in SUBSET S :
        /\ Cardinality(B) = IF Cardinality(S) < k THEN Cardinality(S) ELSE k
        /\ \A n \in B, m \in S \ B : deadline[n] <= deadline[m]}

(* The row of batch B the loop over the result comes to first.               *)
First(B, deadline) == {n \in B : \A m \in B : deadline[n] <= deadline[m]}
=============================================================================
