---------------------------- MODULE MCWorkforce ----------------------------
(* An instance of Workforce for TLC. *)
EXTENDS Workforce

CONSTANTS p1, p2, p3, o1, o2

MCMinimum   == [o \in Occupations |-> IF o = o1 THEN 0 ELSE 2]
MCThreshold == [o \in Occupations |-> 60]

\* Every start but for the names of the people.
MCStart ==
    LET Rank(w) == (IF w.occ = o1 THEN 0 ELSE 2) + (IF w.status = "ACTIVE" THEN 0 ELSE 1)
    IN  {f \in [People -> [occ : Occupations, status : {"ACTIVE", "UNFIT"}]] :
             Rank(f[p1]) <= Rank(f[p2]) /\ Rank(f[p2]) <= Rank(f[p3])}

============================================================================
