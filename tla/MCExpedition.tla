---------------------------- MODULE MCExpedition ----------------------------
(***************************************************************************)
(* Instances of Expedition for TLC: an expedition that may be delayed by a *)
(* day before it is lost, and one that leaves later and may not.           *)
(***************************************************************************)
EXTENDS Expedition

MCPlans   == {"soon", "later"}
MCDeparts == [soon |-> 1, later |-> 2]
MCReturns == [soon |-> 2, later |-> 3]
MCExtra   == [soon |-> 1, later |-> 0]

MCPlansFor == [e1 |-> {"soon"}, e2 |-> {"later"}]

\* The hourly job, and requests one of which may be the advance of the clock
\* that starts a run of its own.
MCJobs == [hour |-> {"hourly"}, request |-> Jobs]

=============================================================================
