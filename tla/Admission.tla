----------------------------- MODULE Admission -----------------------------
(***************************************************************************)
(* AdmissionRequestService: a request is made, advised upon or decided by  *)
(* the AI, and reviewed by an administrator; whoever approves it gives the *)
(* applicant a person and an account.                                      *)
(***************************************************************************)
EXTENDS Accounts

VARIABLES
    request,   \* the rows of table admission_request
    person     \* whether table person has one for the request

admission == <<request, person>>

\* Of the camps, some have a request that waits for review, and one may have admitted
\* the applicant long ago.
AdmissionInit ==
    \E waiting, admitted \in SUBSET Requests : \E camp \in [Requests -> Camps], r \in Roles :
        /\ waiting \cap admitted = {} /\ Cardinality(admitted) <= 1
        /\ \A p, q \in waiting \cup admitted : camp[p] = camp[q] => p = q
        /\ request = [q \in Requests |->
              IF q \in admitted
              THEN [camp |-> camp[q], by |-> "admin", status |-> "APPROVED"]
              ELSE IF q \in waiting
              THEN [camp |-> camp[q], by |-> "ai", status |-> "PENDING_ADMIN"]
              ELSE NoRow]
        /\ person = [q \in Requests |-> q \in admitted]
        /\ account = [q \in Requests |->
              IF q \in admitted THEN [role |-> r, state |-> "ACTIVE"] ELSE NoAccount]

Made(q) == request[q].status # "NONE"

\* Unique (camp_id, email) of table system_user.
Taken(q) == \E p \in Requests \ {q} : Exists(p) /\ request[p].camp = request[q].camp

-----------------------------------------------------------------------------
(* createRequest.                                                          *)

\* The email has no request and no account in the camp,
ChecksEmail(h, k) ==
    /\ \A q \in Requests : Made(q) => request[q].camp # k
    /\ Starts(h, [Rest EXCEPT !.pc = "insert", !.row = [NoRow EXCEPT !.camp = k]])
    /\ UNCHANGED <<account, request, person>>

\* and the row is inserted, which no index forbids;
Inserts(h, q) ==
    /\ At(h, "insert") /\ ~Made(q)
    /\ request' = [request EXCEPT ![q] = [handler[h].row EXCEPT !.status = "PENDING_AI"]]
    /\ Continues(h, [Rest EXCEPT !.pc = "advise", !.q = q])
    /\ UNCHANGED <<account, person>>

\* then the AI may fail, which leaves the request to processWithAI, ask for a review,
\* reject or approve, whatever has become of the request; approved without a known
\* occupation, nobody is given access.
Advises(h, status) ==
    /\ At(h, "advise")
    /\ LET q   == handler[h].q
           row == [request[q] EXCEPT !.status = status, !.by = "ai"]
       IN  /\ request' = [request EXCEPT ![q] = row]
           /\ \/ Continues(h, Rest)
              \/ \E r \in Roles :
                    /\ status = "APPROVED"
                    /\ Continues(h, [Rest EXCEPT !.pc = "person", !.q = q, !.row = row,
                                     !.acc = [role |-> r, state |-> "ACTIVE"]])
    /\ UNCHANGED <<account, person>>

AdviceFails(h) ==
    /\ At(h, "advise") /\ Continues(h, Rest)
    /\ UNCHANGED <<account, request, person>>

\* processWithAI.
ProposesReads(h, q) ==
    /\ request[q].status = "PENDING_AI"
    /\ Starts(h, [Rest EXCEPT !.pc = "propose", !.q = q])
    /\ UNCHANGED <<account, request, person>>

Proposes(h) ==
    /\ At(h, "propose")
    /\ request' = [request EXCEPT ![handler[h].q].status = "PENDING_ADMIN",
                                  ![handler[h].q].by = "ai"]
    /\ Continues(h, Rest)
    /\ UNCHANGED <<account, person>>

\* updateRequest, or a photo: AdmissionRequestRepository.update finds the row and saves
\* all of it.
EditFinds(h, q) ==
    /\ Made(q)
    /\ Starts(h, [Rest EXCEPT !.pc = "edit", !.q = q, !.row = request[q]])
    /\ UNCHANGED <<account, request, person>>

EditSaves(h) ==
    /\ At(h, "edit")
    /\ request' = [request EXCEPT ![handler[h].q] = handler[h].row]
    /\ Continues(h, Rest)
    /\ UNCHANGED <<account, person>>

-----------------------------------------------------------------------------
(* reviewByAdmin.                                                          *)

\* Mutant of AlreadyApproved: other camps are not asked.
AlreadyApprovedNowhere(q) == FALSE

AlreadyApproved(q) == \E p \in Requests \ {q} : request[p].status = "APPROVED"

\* Mutant of AfterReading: the status comes first.
AfterReadingDecides(status) == "decide"

AfterReading(status) == IF status = "APPROVED" THEN "person" ELSE "decide"

Reviews(h, q, status, r) ==
    /\ request[q].status = "PENDING_ADMIN"
    /\ status = "APPROVED" => ~AlreadyApproved(q) /\ ~Taken(q)
    /\ Starts(h, [Rest EXCEPT !.pc = AfterReading(status), !.q = q,
                  !.row = [request[q] EXCEPT !.status = status, !.by = "admin"],
                  !.acc = IF status = "APPROVED" THEN [role |-> r, state |-> "ACTIVE"]
                          ELSE NoAccount])
    /\ UNCHANGED <<account, request, person>>

\* createPersonAndUserForApprovedRequest: the person of the request is looked for,
FindsPerson(h) ==
    /\ At(h, "person")
    /\ Continues(h, [handler[h] EXCEPT !.pc = IF person[handler[h].q] THEN "account" ELSE "admit"])
    /\ UNCHANGED <<account, request, person>>

\* and inserted if there was none; the unique constraint refuses a second one.
Admits(h) ==
    /\ At(h, "admit")
    /\ person' = [person EXCEPT ![handler[h].q] = TRUE]
    /\ Continues(h, IF person[handler[h].q] THEN Rest ELSE [handler[h] EXCEPT !.pc = "account"])
    /\ UNCHANGED <<account, request>>

\* With its access the AI is done, and a review goes on to the status.
Granted(me) == IF me.row.by = "admin" THEN [me EXCEPT !.pc = "decide"] ELSE Rest

\* An account of the request is kept if it is as wanted (role, name, email, camp).
FindsAccount(h) ==
    /\ At(h, "account")
    /\ LET me == handler[h]
       IN  \/ Exists(me.q) /\ account[me.q].role = me.acc.role /\ Continues(h, Granted(me))
           \/ Exists(me.q) /\ Continues(h, [me EXCEPT !.pc = "rewrite"])
           \/ ~Exists(me.q) /\ Continues(h, [me EXCEPT !.pc = "grant"])
    /\ UNCHANGED <<account, request, person>>

RewritesAccount(h) ==
    /\ At(h, "rewrite")
    /\ account' = [account EXCEPT ![handler[h].q] = handler[h].acc]
    /\ Continues(h, Granted(handler[h]))
    /\ UNCHANGED <<request, person>>

\* The unique constraints refuse a second account of the request, or of the camp.
GrantsAccount(h) ==
    /\ At(h, "grant")
    /\ LET me == handler[h]
       IN  IF Exists(me.q) \/ Taken(me.q)
           THEN Continues(h, Rest) /\ UNCHANGED account
           ELSE /\ account' = [account EXCEPT ![me.q] = me.acc]
                /\ Continues(h, Granted(me))
    /\ UNCHANGED <<request, person>>

\* The status, whatever it has become.
Decides(h) ==
    /\ At(h, "decide")
    /\ request' = [request EXCEPT ![handler[h].q] = handler[h].row]
    /\ Continues(h, Rest)
    /\ UNCHANGED <<account, person>>

-----------------------------------------------------------------------------
Admission(h) ==
    \/ \E k \in Camps : ChecksEmail(h, k)
    \/ \E q \in Requests :
          \/ Inserts(h, q) \/ ProposesReads(h, q) \/ EditFinds(h, q)
          \/ \E status \in {"APPROVED", "REJECTED"}, r \in Roles : Reviews(h, q, status, r)
    \/ \E status \in {"PENDING_ADMIN", "APPROVED", "REJECTED"} : Advises(h, status)
    \/ AdviceFails(h) \/ Proposes(h) \/ EditSaves(h) \/ FindsPerson(h) \/ Admits(h)
    \/ FindsAccount(h) \/ RewritesAccount(h) \/ GrantsAccount(h) \/ Decides(h)

=============================================================================
