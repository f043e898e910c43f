------------------------------- MODULE Access -------------------------------
(***************************************************************************)
(* Admission and authentication together: reviews make and rewrite the     *)
(* accounts whose sessions authentication keeps.                           *)
(***************************************************************************)
EXTENDS Admission, Authentication

vars == <<shared, admission, authentication>>

Init == AdmissionInit /\ AuthenticationInit /\ SharedInit

Next ==
    \E h \in Handlers :
        \/ Admission(h) /\ UNCHANGED authentication
        \/ Authentication(h) /\ UNCHANGED admission
        \/ Stops(h) /\ UNCHANGED <<admission, authentication>>

Spec == Init /\ [][Next]_vars

-----------------------------------------------------------------------------
(* Properties.                                                             *)

\* Every variable keeps its type.
TypeOK ==
    /\ request \in [Requests -> RowType] /\ person \in [Requests -> BOOLEAN]
    /\ account \in [Requests -> AccountType]
    /\ session \in [Sessions -> SessionType] /\ token \in [Tokens -> TokenType]
    /\ handler \in [Handlers -> HandlerType]
    /\ started \in Nat /\ faults \in Nat /\ disturbed \in BOOLEAN

\* What an administrator approved has its person and was given its account, wherever
\* reviews overlap, stop or are repeated and whoever writes an old row back
\* (admissionRequest.service.ts:489-523).
ApprovedHasAccess ==
    \A q \in Requests :
        request[q].status = "APPROVED" /\ request[q].by = "admin" =>
            person[q] /\ account[q].state # "NONE"

\* No more camps admit an applicant after a review than reviews can overlap, whatever is
\* edited, overwritten or reviewed again (admissionRequest.service.ts:441-450; the AI
\* approves without that check).
AdmittedAtMost ==
    Cardinality({q \in Requests : request[q].status = "APPROVED" /\ request[q].by = "admin"})
        <= Cardinality(Handlers)

\* As long as handlers do not overlap or stop, who is logged in has the role of the
\* account, and the account is ACTIVE (systemUser.service.ts: every change ends the
\* sessions it must).
SessionsMatchAccounts ==
    ~disturbed /\ ~Busy =>
        \A s \in Sessions : session[s].state = "ACTIVE" =>
            account[session[s].q] = [role |-> session[s].role, state |-> "ACTIVE"]

\* A code changes the password once for each reset that can be active and each that
\* stopped before the token was used up, and takes MaxAttempts wrong answers but for those
\* of resets that overlap (auth.service.ts:352-387).
ResetsBounded ==
    \A t \in Tokens :
        /\ token[t].changed <= Cardinality(Handlers) + faults
        /\ token[t].attempts < MaxAttempts + Cardinality(Handlers)

=============================================================================
