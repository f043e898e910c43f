---------------------------- MODULE MCInventory ----------------------------
(***************************************************************************)
(* Instance of Inventory for TLC: water, which is rationed and runs out,   *)
(* and wood, which a worker brings and requests take away.                 *)
(***************************************************************************)
EXTENDS Inventory, TLC

MCMakes   == [w1 |-> "wood"]
MCOpening == [water |-> 0, wood |-> 1]
MCMinimum == [water |-> 0, wood |-> 1]

Symmetric == Permutations(Runs)

\* Once the handlers have overlapped nothing is decided on the books any more: states
\* that differ in them alone, and in who can be named in them, are taken for one.
View ==
    IF disturbed
    THEN <<stock, collections, record, alerts, day, [h \in Runs |-> [run[h] EXCEPT !.recorder = TRUE]],
           owed, clerk, cycles, requests, faults>>
    ELSE <<tables, day, handlers, drift, cycles, requests, faults>>

=============================================================================
