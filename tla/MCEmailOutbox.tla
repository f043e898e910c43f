--------------------------- MODULE MCEmailOutbox ---------------------------
(***************************************************************************)
(* An instance of EmailOutbox for TLC: one email may fail once, the other  *)
(* one is given up at its first failure.                                   *)
(***************************************************************************)
EXTENDS EmailOutbox

MCEmails == {"report", "code"}

MCMaxAttempts == [report |-> 2, code |-> 1]

MCDelays == <<1>>

=============================================================================
