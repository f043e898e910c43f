------------------------- MODULE TransferLifecycle -------------------------
(***************************************************************************)
(* What a transfer promises to the two camps, as one atomic step for each  *)
(* change of status.  Transfer implements it while its handlers do not     *)
(* overlap and nothing fails (ImplementsLifecycle in module Transfer).     *)
(***************************************************************************)
VARIABLES status,    \* the status both camps see
          place,     \* where the requested people are
          debited,   \* the supplier camp has paid rations and goods
          credited   \* the recipient camp has got the goods

vars == <<status, place, debited, credited>>

Open == {"PENDING_DEPARTURE", "IN_TRANSIT"}

Init == /\ status = "PENDING_DEPARTURE" /\ place = "supplier"
        /\ debited = FALSE /\ credited = FALSE

Depart == /\ status = "PENDING_DEPARTURE"
          /\ status' = "IN_TRANSIT" /\ place' = "away" /\ debited' = TRUE
          /\ UNCHANGED credited

\* From PENDING_DEPARTURE the departure is made up for.
Complete == /\ status \in Open
            /\ status' = "COMPLETED" /\ place' = "recipient"
            /\ debited' = TRUE /\ credited' = TRUE

\* Nothing is paid back when the transfer was on its way.
Cancel == /\ status \in Open
          /\ status' = "CANCELED" /\ place' = "supplier"
          /\ UNCHANGED <<debited, credited>>

\* A request may put a transfer back; the people stay where they are.
PutBack == /\ status = "IN_TRANSIT"
           /\ status' = "PENDING_DEPARTURE"
           /\ UNCHANGED <<place, debited, credited>>

Next == Depart \/ Complete \/ Cancel \/ PutBack

Spec == Init /\ [][Next]_vars

=============================================================================
