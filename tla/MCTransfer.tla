---------------------------- MODULE MCTransfer ----------------------------
(***************************************************************************)
(* Instances of Transfer for TLC: half a day and a day and a half of trip, *)
(* which need the rations of one day and of two.                           *)
(***************************************************************************)
EXTENDS Transfer

MCPlans   == {"short", "long"}
MCDeparts == [short |-> 1, long |-> 1]
MCArrives == [short |-> 2, long |-> 4]

\* One handler of each kind.
MCEach == [put |-> "put", cron |-> "cron", roster |-> "roster", staff |-> "staff"]

\* A request and a scheduled run.
MCRace == [put |-> "put", cron |-> "cron"]

=============================================================================
