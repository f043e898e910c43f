----------------------------- MODULE MCAccess -----------------------------
(* An instance of Access for TLC. *)
EXTENDS Access, TLC

\* Nothing tells the requests, the camps, the handlers or the sessions apart.
Symmetric ==
    Permutations(Requests) \cup Permutations(Camps) \cup Permutations(Handlers)
        \cup Permutations(Sessions)

===========================================================================
