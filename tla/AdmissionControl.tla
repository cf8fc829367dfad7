-------------------------- MODULE AdmissionControl --------------------------
(***************************************************************************)
(* What a limiter of concurrent work promises: at most Limit of the items  *)
(* are active, an item becomes active one at a time and only while there   *)
(* is room, and any number of active items may leave at once.              *)
(* ExecutionManager is shown to implement it.                              *)
(***************************************************************************)
EXTENDS Naturals, FiniteSets

CONSTANTS Items, Limit

VARIABLE active

ACInit == active = {}

Enter(i) == /\ i \in Items \ active
            /\ Cardinality(active) < Limit
            /\ active' = active \union {i}

Leave == \E S \in SUBSET active : active' = active \ S

ACNext == Leave \/ \E i \in Items : Enter(i)

ACSpec == ACInit /\ [][ACNext]_active
=============================================================================
