-------------------------- MODULE RequestLifecycle --------------------------
(***************************************************************************)
(* What an inter-camp request promises to the two camps: an approval is    *)
(* one step, which happens with its transfer prepared or not at all, and   *)
(* an answer is not taken back but by the camp that gave it.               *)
(* IntercampRequest implements it while the server works on one request at *)
(* a time and does not stop half-way (ImplementsLifecycle).                *)
(***************************************************************************)
CONSTANT Requests
VARIABLES status,     \* the status both camps see
          prepared    \* requests whose transfer has been staffed and has its people

vars == <<status, prepared>>

Init == /\ status = [r \in Requests |-> "NEW"]
        /\ prepared = {}

Moves(r, from, to) == status[r] = from /\ status' = [status EXCEPT ![r] = to]

Drafted(r)   == Moves(r, "NEW", "DRAFT") /\ UNCHANGED prepared
Submitted(r) == Moves(r, "DRAFT", "PENDING") /\ UNCHANGED prepared

Approved(r)  == Moves(r, "PENDING", "APPROVED") /\ prepared' = prepared \cup {r}

Refused(r)   == Moves(r, "PENDING", "REJECTED") /\ UNCHANGED prepared

Withdrawn(r) == /\ Moves(r, "APPROVED", "REJECTED") \/ Moves(r, "APPROVED", "CANCELED")
                /\ prepared' = prepared \ {r}

Next == \E r \in Requests : \/ Drafted(r) \/ Submitted(r) \/ Approved(r)
                            \/ Refused(r) \/ Withdrawn(r)

Spec == Init /\ [][Next]_vars

=============================================================================
