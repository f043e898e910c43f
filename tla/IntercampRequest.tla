-------------------------- MODULE IntercampRequest --------------------------
(***************************************************************************)
(* Requests of a camp for goods and people of another, from the draft to   *)
(* the transfer that carries them out: IntercampRequestService, the parts  *)
(* of TransferPersonService and TransferService it calls, and the edits of *)
(* a transfer that compete with it.  All requests are to the same supplier *)
(* (the destination camp of the request) from the same recipient.          *)
(*                                                                         *)
(* The server works on one request at a time, step by step, while the      *)
(* scheduled run and the operators move the transfers: how one departs,    *)
(* completes or is canceled is module Transfer, here it is one step taken  *)
(* at any time.                                                            *)
(***************************************************************************)
EXTENDS Integers, FiniteSetsExt

CONSTANTS
    Requests, People,
    Amount,       \* goods each request asks for
    Named,        \* the people it asks for by name
    ByTrade,      \* how many more it asks for by their occupation
    Crews,        \* those that may be given as the staff of its transfer
    Stocks,       \* goods the supplier may have at the start, and its minimum
    Minimum,
    Starved       \* requests whose trip may be found short of rations

Statuses == {"NEW", "DRAFT", "PENDING", "APPROVED", "REJECTED", "CANCELED"}
Refused  == {"REJECTED", "CANCELED"}
Active   == {"PENDING_DEPARTURE", "IN_TRANSIT"}

ASSUME RequestAssumption ==
    /\ IsFiniteSet(Requests) /\ Requests # {}
    /\ IsFiniteSet(People)
    /\ Amount \in [Requests -> Nat \ {0}]
    /\ Named \in [Requests -> SUBSET People] /\ ByTrade \in [Requests -> Nat]
    /\ Crews \in [Requests -> SUBSET ((SUBSET People) \ {{}})]
    /\ Starved \subseteq Requests
    /\ Stocks \subseteq Nat /\ Minimum \in Nat /\ \A n \in Stocks : Minimum <= n

VARIABLES
    request,     \* table intercamp_request, NEW for a row that does not exist yet
    due,         \* requests whose planned departure is past
    transfer,    \* table transfer, NONE or the status of the row of each request
    staff,       \* rows of transfer_person of each transfer, and of
    asked,       \* transfer_requested_person
    person,      \* camp and status of each person
    stock,       \* goods of the supplier, and the requests whose goods have left it
    left,        \* (the TRANSFER_SENT movements)
    handler      \* what the server is doing

VARIABLES        \* what has happened, which the code does not keep
    failed,      \* requests whose approval was taken back
    putBack,     \* those whose transfer was put back since they were last answered
    stopped      \* the server has stopped half-way through a request

notes == <<failed, putBack, stopped>>
manifest == <<staff, asked, person>>
goods == <<stock, left>>
tables == <<request, due, transfer, manifest, goods>>
vars == <<tables, handler, notes>>

-----------------------------------------------------------------------------
RowStates == {"none", "live", "canceled"}
Rows == [Requests -> [People -> RowStates]]
PersonType == [camp : {"supplier", "recipient"}, status : {"ACTIVE", "OUTSIDE_CAMP"}]

\* status: what the handler writes in the row; existing: the status it has read.
HandlerType ==
    [pc : {"idle", "check", "save", "cancel", "prepare", "staff", "assign", "manifest",
           "rations", "revert", "replace"},
     r : Requests, status : Statuses, existing : Statuses, people : SUBSET People]

Rest == [pc |-> "idle", r |-> CHOOSE r \in Requests : TRUE, status |-> "NEW",
         existing |-> "NEW", people |-> {}]

NoRows == [r \in Requests |-> [p \in People |-> "none"]]

Init ==
    /\ request = [r \in Requests |-> "NEW"] /\ due = {}
    /\ transfer = [r \in Requests |-> "NONE"]
    /\ staff = NoRows /\ asked = NoRows
    /\ person = [p \in People |-> [camp |-> "supplier", status |-> "ACTIVE"]]
    /\ stock \in Stocks /\ left = {}
    /\ handler = Rest
    /\ failed = {} /\ putBack = {} /\ stopped = FALSE

-----------------------------------------------------------------------------
At(pc) == handler.pc = pc
To(pc) == handler' = [handler EXCEPT !.pc = pc]
Ends == handler' = Rest

\* Bound of the model: one irregularity in a behaviour, and no transfer is put back
\* after it or while another one is.
Used == failed # {} \/ stopped

Starts(next) ==
    /\ At("idle") /\ handler' = next
    /\ UNCHANGED <<tables, notes>>

Listed(rows, r)  == {p \in People : rows[r][p] # "none"}
Live(rows, r)    == {p \in People : rows[r][p] = "live"}

Ready(p) == person[p] = [camp |-> "supplier", status |-> "ACTIVE"]

\* findEligiblePersonIdsByCampAndOccupation, before the approval: in no transfer.
Eligible ==
    {p \in People : /\ Ready(p)
                    /\ \A r \in Requests : transfer[r] \in Active =>
                                              p \notin Live(staff, r) \cup Live(asked, r)}

\* The same of the manifest transaction, where a canceled row counts too.
Free == {p \in People : /\ Ready(p)
                        /\ \A r \in Requests : transfer[r] \in Active =>
                                                  p \notin Listed(staff, r) \cup Listed(asked, r)}

\* Mutant of Busy: the people asked for are not looked at.
BusyAsStaff(ps, r) ==
    \E s \in Requests \ {r} : transfer[s] \in Active /\ ps \cap Live(staff, s) # {}

\* findActiveTransferAssignmentsByPersonIds, findBusyPersonIds: on another transfer.
Busy(ps, r) ==
    \E s \in Requests \ {r} : /\ transfer[s] \in Active
                              /\ ps \cap (Live(staff, s) \cup Live(asked, s)) # {}

\* Mutant of Committed: nothing is set aside for the other requests.
CommittedNothing(r) == 0

\* Goods promised to the other approved requests whose transfer is still to leave.
Committed(r) ==
    MapThenSumSet(LAMBDA s : Amount[s],
        {s \in Requests \ {r} : request[s] = "APPROVED" /\ transfer[s] = "PENDING_DEPARTURE"})

\* assertResourceAvailability
Available(r) == stock - Committed(r) - Amount[r] >= Minimum

-----------------------------------------------------------------------------
(* Requests of the recipient; an edit changes no status.                   *)

Writes(r, from, to) ==
    /\ At("idle") /\ request[r] = from
    /\ request' = [request EXCEPT ![r] = to]
    /\ UNCHANGED <<due, transfer, manifest, goods, handler, notes>>

\* createRequest
Creates(r) == Writes(r, "NEW", "DRAFT")

\* submitRequest: the dates must be ahead.
Submits(r) == r \notin due /\ Writes(r, "DRAFT", "PENDING")

-----------------------------------------------------------------------------
(* Answers of the supplier.  A change of status makes its author respondedBy, *)
(* who must be of the supplier camp: the recipient cannot cancel, though the  *)
(* policy has a case for it.                                                  *)

\* updateRequest to APPROVED, up to the save.
Approves ==
    \E r \in Requests : \E ps \in Crews[r] :
        /\ request[r] = "PENDING" /\ r \notin due
        /\ Cardinality(Eligible) >= Cardinality(Named[r]) + ByTrade[r]
        /\ Available(r)
        /\ Starts([Rest EXCEPT !.pc = "save", !.r = r, !.status = "APPROVED",
                                  !.existing = "PENDING", !.people = ps])

\* assertRequestUpdatePolicy
MayRefuse(r, status) ==
    \/ status = "REJECTED" /\ request[r] \in {"PENDING", "APPROVED"}
    \/ status = "CANCELED" /\ request[r] = "APPROVED" /\ r \notin due

\* updateRequest to REJECTED or CANCELED ...
Refuses ==
    \E r \in Requests, status \in Refused :
        /\ MayRefuse(r, status)
        /\ Starts([Rest EXCEPT !.pc = "check", !.r = r, !.status = status, !.existing = request[r]])

\* ... is refused itself when the transfer has arrived.
Checks ==
    /\ At("check")
    /\ IF transfer[handler.r] = "COMPLETED" THEN Ends ELSE To("save")
    /\ UNCHANGED <<tables, notes>>

\* Mutant of AfterSave: a transfer is canceled only with its request.
AfterSaveCanceling(status) ==
    IF status = "APPROVED" THEN "prepare" ELSE IF status = "CANCELED" THEN "cancel" ELSE "idle"

AfterSave(status) == IF status = "APPROVED" THEN "prepare" ELSE "cancel"

\* repository.update saves, whatever the row says by now.
Saves ==
    /\ At("save")
    /\ request' = [request EXCEPT ![handler.r] = handler.status]
    /\ putBack' = putBack \ {handler.r}
    /\ To(AfterSave(handler.status))
    /\ UNCHANGED <<due, transfer, manifest, goods, failed, stopped>>

Canceling(rows, r) ==
    [rows EXCEPT ![r] = [p \in People |-> IF rows[r][p] = "live" THEN "canceled" ELSE rows[r][p]]]

\* updateTransfer to CANCELED, cancelManifest.
CancelTransfer(r) ==
    /\ transfer' = [transfer EXCEPT ![r] = "CANCELED"]
    /\ staff' = Canceling(staff, r) /\ asked' = Canceling(asked, r)
    /\ person' = [p \in People |-> IF p \in Listed(staff, r) \cup Listed(asked, r)
                                   THEN [person[p] EXCEPT !.status = "ACTIVE"] ELSE person[p]]

\* cancelTransferIfPresent
CancelsTransfer ==
    /\ At("cancel")
    /\ IF transfer[handler.r] = "PENDING_DEPARTURE"
       THEN CancelTransfer(handler.r) ELSE UNCHANGED <<transfer, manifest>>
    /\ Ends
    /\ UNCHANGED <<request, due, goods, notes>>

-----------------------------------------------------------------------------
(* ensureApprovedRequestTransfer.                                          *)

\* A transfer is found or created, if the dates and the goods still allow it.
Prepares ==
    /\ At("prepare")
    /\ LET r == handler.r
       IN  IF r \notin due /\ Available(r)
           THEN /\ To("staff")
                /\ transfer' = [transfer EXCEPT ![r] = IF transfer[r] = "NONE"
                                                       THEN "PENDING_DEPARTURE" ELSE transfer[r]]
           ELSE To("revert") /\ UNCHANGED transfer
    /\ UNCHANGED <<request, due, manifest, goods, notes>>

\* The staff of a transfer is at hand; that a Scout is among them is left out.
AtHand(ps, r) == (\A p \in ps : Ready(p)) /\ ~Busy(ps, r)

\* assignTransportStaffForTransfer looks ...
ChecksStaff ==
    /\ At("staff")
    /\ To(IF AtHand(handler.people, handler.r) THEN "assign" ELSE "revert")
    /\ UNCHANGED <<tables, notes>>

Adding(rows, r, ps) ==
    [rows EXCEPT ![r] = [p \in People |-> IF p \in ps /\ rows[r][p] = "none" THEN "live" ELSE rows[r][p]]]

\* ... and inserts the rows that are missing, one after the other.
Assigns ==
    /\ At("assign")
    /\ staff' = Adding(staff, handler.r, handler.people)
    /\ To("manifest")
    /\ UNCHANGED <<request, due, transfer, asked, person, goods, notes>>

\* The people the transaction of createRequestedPersonManifestFromRequest may pick:
\* the oldest of their trade in the code, any here.
Chosen(r) ==
    {ps \in SUBSET Free : Named[r] \subseteq ps /\ Cardinality(ps \ Named[r]) = ByTrade[r]}

FillsManifest ==
    /\ At("manifest")
    /\ LET r == handler.r
       IN  \/ \E ps \in Chosen(r) : asked' = Adding(asked, r, ps) /\ To("rations")
           \/ Chosen(r) = {} /\ To("revert") /\ UNCHANGED asked
    /\ UNCHANGED <<request, due, transfer, staff, person, goods, notes>>

\* assertRationAvailability, either way.
ChecksRations ==
    /\ At("rations")
    /\ Ends \/ (handler.r \in Starved /\ ~Used /\ To("revert"))
    /\ UNCHANGED <<tables, notes>>

\* Mutant of Reverted: the request stays approved.
RevertedNot(me) == "APPROVED"

Reverted(me) == me.existing

\* The catch of updateRequest: the status read at first is written again, and
\* what was prepared stays.
Reverts ==
    /\ At("revert")
    /\ request' = [request EXCEPT ![handler.r] = Reverted(handler)]
    /\ failed' = failed \cup {handler.r}
    /\ Ends
    /\ UNCHANGED <<due, transfer, manifest, goods, putBack, stopped>>

-----------------------------------------------------------------------------
(* The transfer, through its own endpoints and the scheduled run.          *)

\* updateTransportStaff looks ...
ChangesStaff ==
    \E r \in Requests : \E ps \in Crews[r] :
        /\ transfer[r] = "PENDING_DEPARTURE" /\ AtHand(ps, r)
        /\ Starts([Rest EXCEPT !.pc = "replace", !.r = r, !.people = ps])

\* Mutant of Locked: the transfer is locked whatever its status.
LockedAny(r) == TRUE

Locked(r) == transfer[r] = "PENDING_DEPARTURE"

\* Those of ps who have a row get it back and the others lose theirs.  Nobody is
\* inserted: query answers an UPDATE ... RETURNING with the pair of the rows and
\* their count, whose length, 2, is taken for a row that was updated.
Replacing(rows, r, ps) ==
    [rows EXCEPT ![r] = [p \in People |-> IF rows[r][p] = "none" THEN "none"
                                          ELSE IF p \in ps THEN "live" ELSE "canceled"]]

\* ... and replaceTransportStaff does it if the transfer has not left.
Replaces ==
    /\ At("replace")
    /\ staff' = IF Locked(handler.r) THEN Replacing(staff, handler.r, handler.people) ELSE staff
    /\ Ends
    /\ UNCHANGED <<request, due, transfer, asked, person, goods, notes>>

Sent(r) == IF Amount[r] < stock THEN Amount[r] ELSE stock

\* applyTransferSentInventory: once for a transfer, and nothing is recorded of nothing.
SendsGoods(r) ==
    IF r \in left \/ Sent(r) = 0 THEN UNCHANGED goods
    ELSE stock' = stock - Sent(r) /\ left' = left \cup {r}

\* The planned departure is past, of a request or a transfer that is not over.
Passes(r) ==
    /\ r \notin due
    /\ \/ request[r] \notin Refused \cup {"NEW"} /\ transfer[r] # "COMPLETED"
       \/ transfer[r] \in Active
    /\ due' = due \cup {r}
    /\ UNCHANGED <<request, transfer, manifest, goods, handler, notes>>

MayLeave(r) == transfer[r] = "PENDING_DEPARTURE" /\ (r \in due \/ Live(staff, r) # {})

\* setManifestInTransit sends all who have a row, the canceled ones too.
Departs(r) ==
    /\ MayLeave(r)
    /\ transfer' = [transfer EXCEPT ![r] = "IN_TRANSIT"]
    /\ person' = [p \in People |-> IF p \in Listed(staff, r) \cup Listed(asked, r)
                                   THEN [person[p] EXCEPT !.status = "OUTSIDE_CAMP"] ELSE person[p]]
    /\ SendsGoods(r)
    /\ UNCHANGED <<request, due, staff, asked, handler, notes>>

\* updateTransfer with PENDING_DEPARTURE, refused of a final transfer only: neither the
\* people nor the goods come back with it.
PutsBack(r) ==
    /\ transfer[r] = "IN_TRANSIT" /\ ~Used /\ putBack \subseteq {r}
    /\ transfer' = [transfer EXCEPT ![r] = "PENDING_DEPARTURE"]
    /\ putBack' = putBack \cup {r}
    /\ UNCHANGED <<request, due, manifest, goods, handler, failed, stopped>>

\* completeManifest, and first what a departure does if there was none.
Completes(r) ==
    /\ transfer[r] = "IN_TRANSIT" \/ MayLeave(r)
    /\ transfer' = [transfer EXCEPT ![r] = "COMPLETED"]
    /\ IF transfer[r] = "IN_TRANSIT" THEN UNCHANGED goods ELSE SendsGoods(r)
    /\ person' = [p \in People |->
          IF p \in Listed(asked, r) THEN [camp |-> "recipient", status |-> "ACTIVE"]
          ELSE IF p \in Listed(staff, r) THEN [person[p] EXCEPT !.status = "ACTIVE"] ELSE person[p]]
    /\ UNCHANGED <<request, due, staff, asked, handler, notes>>

Cancels(r) ==
    /\ transfer[r] \in Active /\ CancelTransfer(r)
    /\ UNCHANGED <<request, due, goods, handler, notes>>

\* An exception other than those above, or the process stops.
Stops ==
    /\ ~At("idle") /\ ~Used
    /\ Ends /\ stopped' = TRUE
    /\ UNCHANGED <<tables, failed, putBack>>

Serves ==
    \/ \E r \in Requests : Creates(r) \/ Submits(r)
    \/ Approves \/ Refuses \/ Checks \/ Saves \/ CancelsTransfer \/ Prepares \/ ChecksStaff
    \/ Assigns \/ FillsManifest \/ ChecksRations \/ Reverts \/ ChangesStaff \/ Replaces

Next ==
    \/ Serves
    \/ \E r \in Requests : Passes(r) \/ Departs(r) \/ PutsBack(r) \/ Completes(r) \/ Cancels(r)
    \/ Stops

Spec == Init /\ [][Next]_vars

-----------------------------------------------------------------------------
(* Properties.                                                             *)

\* Every variable keeps its type.
TypeOK ==
    /\ request \in [Requests -> Statuses] /\ due \subseteq Requests
    /\ transfer \in [Requests -> {"NONE", "COMPLETED", "CANCELED"} \cup Active]
    /\ staff \in Rows /\ asked \in Rows
    /\ person \in [People -> PersonType]
    /\ stock \in Nat /\ left \subseteq Requests
    /\ handler \in HandlerType
    /\ failed \subseteq Requests /\ putBack \subseteq Requests
    /\ stopped \in BOOLEAN

\* A person is on one transfer under way at most, as staff or as one of those asked
\* for, also after a handler stopped half-way or took an approval back: each of the
\* three ways onto a transfer asks for the others (transferPerson.service.ts:162,
\* transfer.repository.ts:507 and :942).
NobodyOnTwoTransfers ==
    \A p \in People, r, s \in Requests :
        /\ r # s /\ {transfer[r], transfer[s]} \subseteq Active
        /\ p \in Live(staff, r) \cup Live(asked, r)
        => p \notin Live(staff, s) \cup Live(asked, s)

Resting == At("idle")

\* Requests whose goods are promised and have not left: those of a transfer that was
\* put back have, though the availability counts them again (which promises less).
ToLeave == {s \in Requests : /\ request[s] = "APPROVED" /\ transfer[s] = "PENDING_DEPARTURE"
                            /\ s \notin left}

\* What is promised to the approved requests and still to leave can leave with the
\* minimum kept, in whatever order they were approved, left, were put back and were
\* refused (a transfer that outlives a failed approval takes goods that nobody counts).
CommitmentsFit ==
    ~stopped /\ failed = {} => stock - MapThenSumSet(LAMBDA s : Amount[s], ToLeave) >= Minimum

\* A transfer does not wait to leave for a request that was refused, whether it was
\* approved before, or an approval had failed and left its transfer; only one that was
\* on its way and was put back after the refusal does (transfer.service.ts:446-454 does
\* not ask for the request).
RefusedDoesNotLeave ==
    ~stopped /\ Resting =>
        \A r \in Requests : request[r] \in Refused /\ transfer[r] = "PENDING_DEPARTURE" => r \in putBack

HasItsPeople(r) ==
    /\ Listed(staff, r) # {} /\ Named[r] \subseteq Live(asked, r)
    /\ Cardinality(Live(asked, r)) = Cardinality(Named[r]) + ByTrade[r]

\* The request has its transfer, which whenever it waits to leave, also if it was put
\* back, has been staffed (a change that names only people without a row leaves the rows
\* canceled, replaceTransportStaff adds none) and has all the people who were asked for
\* (a second attempt finds what the first has left, and may not).
Prepared(r) ==
    /\ transfer[r] # "NONE"
    /\ transfer[r] = "PENDING_DEPARTURE" /\ r \notin failed => HasItsPeople(r)

\* Approvals that are being prepared, which the camps see once they are done.
Preparing(r) ==
    /\ handler.r = r
    /\ handler.pc \in {"prepare", "staff", "assign", "manifest", "rations", "revert"}

Shown == [r \in Requests |-> IF Preparing(r) THEN "PENDING" ELSE request[r]]

L == INSTANCE RequestLifecycle WITH
        status <- Shown,
        prepared <- {r \in Requests : Shown[r] = "APPROVED" /\ Prepared(r)}

\* A server that does not stop half-way implements RequestLifecycle: an approval comes
\* with its transfer prepared, which departures, returns and changes of staff leave so,
\* and one that cannot be prepared is as if it had not been
\* (intercampRequest.service.ts:564-575).
ImplementsLifecycle == L!Init /\ [][~stopped' => L!Next]_(L!vars)

\* Nobody is taken off the staff of a transfer that is on its way, though the edit was
\* decided before it left (transfer.repository.ts:539-550); only to cancel it does.
NobodyLeftBehind ==
    [][\A r \in Requests :
          transfer[r] = "IN_TRANSIT" /\ transfer'[r] # "CANCELED" =>
              Live(staff, r) \subseteq Live(staff', r)]_vars

=============================================================================
