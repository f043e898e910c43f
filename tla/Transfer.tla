------------------------------ MODULE Transfer ------------------------------
(***************************************************************************)
(* One inter-camp transfer, and the request handlers and scheduled runs    *)
(* that move it along: TransferService.updateTransfer (PUT /transfers/:id),*)
(* updateTransportStaff, syncTransferRations (called at the end of every   *)
(* manifest edit) and executeAutomatedTransfer, driven by                  *)
(* TemporalAutomationService.runDueTransferExecutions.                     *)
(*                                                                         *)
(* The database is PostgreSQL at READ COMMITTED.  `row' and `books' are    *)
(* its committed state; an UPDATE of the transfer row or of the people of  *)
(* the manifest takes a row lock that is held until its transaction ends.  *)
(* Every await of the code that other handlers can slip into is a step     *)
(* boundary here.                                                          *)
(***************************************************************************)
EXTENDS Integers

CONSTANTS
    Handlers,       \* handlers (HTTP requests, cron runs) that may be active at once
    KindOf,         \* what each of them executes, see Kinds
    None,           \* no handler holds the lock
    Plans,          \* the pairs of planned dates a transfer can have
    Replans,        \* those a PUT may set, {} when nobody edits the dates
    Departs,        \* planned departure date of a plan
    Arrives,        \* planned arrival date of a plan
    DayLength,      \* clock units in a day
    MaxTime,        \* bound of the model: the clock stops here
    People,         \* people on the manifest
    DailyRation,    \* minimumDailyRationPerPerson of the supplier camp
    InitialFood,    \* rations the supplier camp has (net of other transfers)
    MinimumFood,    \* minimumAlertAmount of that inventory
    InitialGoods,   \* stock of the requested resource in the supplier camp
    Requested,      \* amount requested
    HistoryAcceptsInTransit,  \* does the CHECK of transfer_history accept IN_TRANSIT?
    MayOverlap,     \* may several handlers be active at once?
    MayFail,        \* may a statement fail (connection lost, deadlock victim)?
    MayCrash        \* may the server process stop and restart?

Kinds == {"put", "cron", "roster", "staff"}

Pending  == "PENDING_DEPARTURE"
Transit  == "IN_TRANSIT"
Done     == "COMPLETED"
Canceled == "CANCELED"
Statuses == {Pending, Transit, Done, Canceled}
Final    == {Done, Canceled}

\* The DTO field is absent: the update leaves the column alone.
Keep == "KEEP"

ASSUME HandlersAssumption ==
    /\ None \notin Handlers
    /\ KindOf \in [Handlers -> Kinds]

ASSUME PlansAssumption ==
    /\ Plans # {} /\ Keep \notin Plans /\ Replans \subseteq Plans
    /\ Departs \in [Plans -> Nat] /\ Arrives \in [Plans -> Nat]
    /\ \A p \in Plans : Departs[p] < Arrives[p]     \* chk_transfer_dates
    /\ DayLength \in Nat \ {0}
    /\ MaxTime \in Nat

ASSUME AmountsAssumption ==
    /\ People \in Nat \ {0} /\ DailyRation \in Nat \ {0}
    /\ InitialFood \in Nat /\ MinimumFood \in Nat
    /\ InitialGoods \in Nat /\ Requested \in Nat \ {0}

ASSUME SwitchesAssumption ==
    {HistoryAcceptsInTransit, MayOverlap, MayFail, MayCrash} \subseteq BOOLEAN

VARIABLES
    row,           \* the committed row of table transfer
    books,         \* what the effects of a status change write, see BooksType
    rowLock,       \* the handler whose transaction has updated the transfer row
    manifestLock,  \* the handler whose transaction has updated the manifest's people
    now,           \* the system clock
    handler        \* the local state of each handler

vars == <<row, books, rowLock, manifestLock, now, handler>>

-----------------------------------------------------------------------------
\* getTripDurationDays: whole days, rounded up, at least one
TripDays(plan) == (Arrives[plan] - Departs[plan] + DayLength - 1) \div DayLength

RationsFor(plan) == People * DailyRation * TripDays(plan)

RowType == [status : Statuses, plan : Plans, rations : Int]

(* manifest, status, camp : transfer_requested_person.status, and the people's current_status and camp_id
   delivered   : the delivered_transfer_resource row exists
   rations, sent, received : number of inventory movements of each kind
   food, goods : stock of the supplier camp;  arrived : credited to the recipient camp
   logged      : new_status of the newest transfer_history row *)
BooksType ==
    [manifest : {"CONFIRMED", "IN_TRANSIT", "DELIVERED", "CANCELED"},
     status : {"ACTIVE", "OUTSIDE_CAMP"}, camp : {"supplier", "recipient"},
     delivered : BOOLEAN, rations : Nat, sent : Nat, received : Nat,
     food : Int, goods : Nat, arrived : Nat, logged : Statuses]

\* What a transaction has read of the books before it writes to them.
SeenType == [rations : Nat, sent : Nat, received : Nat, delivered : BOOLEAN]

Effects == {"depart", "arrive", "cancel"}

HandlerType ==
    [pc : {"idle", "query", "read", "check", "sync", "assert", "begin", "save",
           "replace", "effects", "commit", "hung"},
     stage : 0..3, at : 0..MaxTime,
     status : Statuses \cup {Keep}, plan : Plans \cup {Keep},
     existing : Statuses, entity : RowType, seen : SeenType, todo : SUBSET Effects]

BlankRow == [status |-> Pending, plan |-> CHOOSE p \in Plans : TRUE, rations |-> 0]
NothingSeen == [rations |-> 0, sent |-> 0, received |-> 0, delivered |-> FALSE]

Rest == [pc |-> "idle", stage |-> 0, at |-> 0, status |-> Keep, plan |-> Keep,
         existing |-> Pending, entity |-> BlankRow, seen |-> NothingSeen, todo |-> {}]

\* createTransfer, after the manifest is filled and the rations are synchronised
Init ==
    /\ \E p \in Plans : row = [status |-> Pending, plan |-> p, rations |-> RationsFor(p)]
    /\ books = [manifest |-> "CONFIRMED", status |-> "ACTIVE", camp |-> "supplier",
                delivered |-> FALSE, rations |-> 0, sent |-> 0, received |-> 0,
                food |-> InitialFood, goods |-> InitialGoods, arrived |-> 0,
                logged |-> Pending]
    /\ rowLock = None /\ manifestLock = None
    /\ now = 0
    /\ handler = [h \in Handlers |-> Rest]

-----------------------------------------------------------------------------
(* The effects of a status change on the manifest and the inventories.     *)

\* Mutant of Depart: the amount sent is not capped by the stock.
DepartUncapped(b, seen, rations) ==
    [b EXCEPT !.manifest = "IN_TRANSIT", !.status = "OUTSIDE_CAMP", !.delivered = TRUE,
              !.rations = IF seen.rations = 0 THEN @ + 1 ELSE @,
              !.food = IF seen.rations = 0 THEN @ - rations ELSE @,
              !.sent = IF seen.sent = 0 THEN @ + 1 ELSE @,
              !.goods = IF seen.sent = 0 THEN @ - Requested ELSE @]

\* setManifestInTransit, applyTransferRations(Safe), applyTransferSentInventory.
\* The amount sent is capped by the stock, and nothing is recorded when it is 0.
Depart(b, seen, rations) ==
    LET ration == IF seen.rations = 0 THEN 1 ELSE 0
        amount == IF b.goods < Requested THEN b.goods ELSE Requested
        send   == IF seen.sent = 0 /\ amount > 0 THEN 1 ELSE 0
    IN  [b EXCEPT !.manifest = IF @ = "CONFIRMED" THEN "IN_TRANSIT" ELSE @,
                  !.status = "OUTSIDE_CAMP",
                  !.delivered = TRUE,
                  !.rations = @ + ration,
                  !.food = IF ration = 1 THEN @ - rations ELSE @,
                  !.sent = @ + send,
                  !.goods = IF send = 1 THEN @ - amount ELSE @]

\* applyTransferReceivedInventory, completeManifest.  The person rows are
\* updated whatever the status of the manifest row is.
Arrive(b, seen) ==
    LET receive == IF seen.received = 0 THEN 1 ELSE 0
    IN  [b EXCEPT !.manifest = IF @ = "CANCELED" THEN @ ELSE "DELIVERED",
                  !.status = "ACTIVE",
                  !.camp = "recipient",
                  !.delivered = TRUE,
                  !.received = @ + receive,
                  !.arrived = IF receive = 1 THEN @ + Requested ELSE @]

\* Mutant of Cancel: the people stay OUTSIDE_CAMP.
CancelRowsOnly(b) == [b EXCEPT !.manifest = IF @ = "DELIVERED" THEN @ ELSE "CANCELED"]

\* cancelManifest
Cancel(b) ==
    [b EXCEPT !.manifest = IF @ = "DELIVERED" THEN @ ELSE "CANCELED",
              !.status = "ACTIVE"]

Apply(b, part, seen, rations) ==
    LET departed == IF "depart" \in part THEN Depart(b, seen, rations) ELSE b
        arrived  == IF "arrive" \in part THEN Arrive(departed, seen) ELSE departed
    IN  IF "cancel" \in part THEN Cancel(arrived) ELSE arrived

\* The transfer has to leave the supplier camp for this change of status.
LeavesCamp(existing, status) == status = Transit \/ (status = Done /\ existing = Pending)

\* Mutant of Work: the departure is not made up for when IN_TRANSIT is skipped.
WorkWithoutSkip(existing, updated) ==
    {e \in Effects : /\ updated # existing
                     /\ \/ e = "depart" /\ updated = Transit
                        \/ e = "arrive" /\ updated = Done
                        \/ e = "cancel" /\ updated = Canceled}

\* The effects a change of status calls for; `existing' is the status read
\* before the transaction, `updated' the one it has written.
Work(existing, updated) ==
    {e \in Effects : /\ updated # existing
                     /\ \/ e = "depart" /\ LeavesCamp(existing, updated)
                        \/ e = "arrive" /\ updated = Done
                        \/ e = "cancel" /\ updated = Canceled}

-----------------------------------------------------------------------------
(* Steps of a handler.                                                     *)

At(h, pc) == handler[h].pc = pc

Become(h, next) == handler' = [handler EXCEPT ![h] = next]

\* A scheduled run makes three queries, one after the other.
NextQuery(h) ==
    IF handler[h].stage = 3 THEN Rest
    ELSE [Rest EXCEPT !.pc = "query", !.stage = handler[h].stage + 1, !.at = handler[h].at]

\* Where the handler goes when it has nothing left to do on this transfer.
AfterTransfer(h) == IF KindOf[h] = "cron" THEN NextQuery(h) ELSE Rest

LockFree(lock, h) == lock \in {None, h}

Released(lock, h) == IF lock = h THEN None ELSE lock

\* Whether a handler may be active while another one is: nothing in the code
\* prevents it, FALSE serves to say what holds of handlers that run one by one.
MayStart(h) == At(h, "idle") /\ (MayOverlap \/ \A g \in Handlers : At(g, "idle"))

Modifiable(status) == status \notin Final

\* updateTransfer reads the transfer, refuses a finalised one and looks at
\* the request: assertTransferCanMove and assertRationsAvailable run for a
\* transfer that is to leave its camp.
PutReads(h) ==
    /\ KindOf[h] = "put" /\ MayStart(h)
    /\ Modifiable(row.status)
    /\ \E s \in Statuses \cup {Keep}, p \in Replans \cup {Keep} :
         Become(h, [Rest EXCEPT !.pc = IF LeavesCamp(row.status, s) THEN "check" ELSE "begin",
                                !.status = s, !.plan = p, !.existing = row.status])
    /\ UNCHANGED <<row, books, rowLock, manifestLock, now>>

\* createTransferPerson, updateTransferPerson, deleteTransferPerson end with a synchronisation.
RosterEdited(h) ==
    /\ KindOf[h] = "roster" /\ MayStart(h)
    /\ Become(h, [Rest EXCEPT !.pc = "check"])
    /\ UNCHANGED <<row, books, rowLock, manifestLock, now>>

\* syncTransferRations: repository.update finds the entity ...
SyncReads(h) ==
    /\ At(h, "check")
    /\ Become(h, [handler[h] EXCEPT !.pc = "sync", !.entity = row])
    /\ UNCHANGED <<row, books, rowLock, manifestLock, now>>

SyncedRow(entity) == [entity EXCEPT !.rations = RationsFor(entity.plan)]

\* ... and saves it: every column that differs from the row is written, so an
\* UPDATE is sent, and waits for the row, only when something differs.
SyncSaves(h) ==
    /\ At(h, "sync")
    /\ SyncedRow(handler[h].entity) # row => rowLock = None
    /\ row' = SyncedRow(handler[h].entity)
    /\ Become(h, IF KindOf[h] = "put"
                 THEN [handler[h] EXCEPT !.pc = "assert", !.entity = BlankRow]
                 ELSE Rest)
    /\ UNCHANGED <<books, rowLock, manifestLock, now>>

\* Mutant of RationsAvailable: the minimum of the inventory is forgotten.
RationsInStock(rations) == rations > 0 /\ books.food >= rations

RationsAvailable(rations) == rations > 0 /\ books.food - rations >= MinimumFood

\* The rest of assertRationsAvailable: an exception ends the request.
AssertsRations(h) ==
    /\ At(h, "assert")
    /\ Become(h, IF RationsAvailable(row.rations) THEN [handler[h] EXCEPT !.pc = "begin"] ELSE Rest)
    /\ UNCHANGED <<row, books, rowLock, manifestLock, now>>

\* What updateWithManager assigns to the entity it has found.
Assigned(entity, status, plan) ==
    [entity EXCEPT !.status = IF status = Keep THEN @ ELSE status,
                   !.plan = IF plan = Keep THEN @ ELSE plan]

\* The transaction opens and updateWithManager finds the entity ...
Finds(h) ==
    /\ At(h, "begin")
    /\ Become(h, [handler[h] EXCEPT !.pc = "save",
                                    !.entity = Assigned(row, handler[h].status, handler[h].plan)])
    /\ UNCHANGED <<row, books, rowLock, manifestLock, now>>

\* ... and saves it.  In updateTransfer the transaction goes on, holding the
\* row; when no column differs no UPDATE is sent and the row is not locked.
PutSaves(h) ==
    /\ KindOf[h] = "put" /\ At(h, "save")
    /\ \/ rowLock = None /\ rowLock' = h
       \/ handler[h].entity = row /\ rowLock' = rowLock
    /\ Become(h, [handler[h] EXCEPT !.pc = "effects",
                                    !.todo = Work(handler[h].existing, handler[h].entity.status)])
    /\ UNCHANGED <<row, books, manifestLock, now>>

\* In executeAutomatedTransfer the transaction is only that: phase 1 commits.
PhaseOneCommits(h) ==
    /\ KindOf[h] = "cron" /\ At(h, "save")
    /\ rowLock = None
    /\ row' = handler[h].entity
    /\ LET todo == Work(handler[h].existing, handler[h].entity.status)
       IN  Become(h, IF todo = {} THEN NextQuery(h)
                     ELSE [handler[h] EXCEPT !.pc = "effects", !.todo = todo])
    /\ UNCHANGED <<books, rowLock, manifestLock, now>>

\* runDueTransferExecutions fixes its notion of now, then queries in this order.
CronStarts(h) ==
    /\ KindOf[h] = "cron" /\ MayStart(h)
    /\ Become(h, [Rest EXCEPT !.pc = "query", !.stage = 1, !.at = now])
    /\ UNCHANGED <<row, books, rowLock, manifestLock, now>>

\* Mutant of Due: a date that is now is not due yet.
DueStrictly(stage, t) ==
    CASE stage = 1 -> row.status = Pending /\ Departs[row.plan] < t
      [] stage = 2 -> row.status = Transit /\ Arrives[row.plan] < t
      [] OTHER     -> row.status = Pending /\ Arrives[row.plan] < t

Due(stage, t) ==
    CASE stage = 1 -> row.status = Pending /\ Departs[row.plan] <= t
      [] stage = 2 -> row.status = Transit /\ Arrives[row.plan] <= t
      [] OTHER     -> row.status = Pending /\ Arrives[row.plan] <= t

CronQueries(h) ==
    /\ At(h, "query")
    /\ Become(h, IF Due(handler[h].stage, handler[h].at)
                 THEN [handler[h] EXCEPT !.pc = "read",
                                         !.status = IF handler[h].stage = 1 THEN Transit ELSE Done]
                 ELSE NextQuery(h))
    /\ UNCHANGED <<row, books, rowLock, manifestLock, now>>

\* executeAutomatedTransfer reads the transfer again and skips a finalised one.
CronReads(h) ==
    /\ At(h, "read")
    /\ Become(h, IF Modifiable(row.status)
                 THEN [handler[h] EXCEPT !.pc = "begin", !.existing = row.status]
                 ELSE NextQuery(h))
    /\ UNCHANGED <<row, books, rowLock, manifestLock, now>>

\* The effects run in one transaction in updateTransfer, and in one
\* transaction for each side in executeAutomatedTransfer.
Part(h) ==
    IF KindOf[h] = "cron" /\ "depart" \in handler[h].todo THEN {"depart"} ELSE handler[h].todo

BooksSeen == [rations |-> books.rations, sent |-> books.sent,
              received |-> books.received, delivered |-> books.delivered]

\* Mutant of LocksManifest: the movements are counted before the people are updated.
CountsThenLocks(h) ==
    /\ At(h, "effects") /\ "depart" \in Part(h)
    /\ Become(h, [handler[h] EXCEPT !.pc = "commit", !.seen = BooksSeen])
    /\ UNCHANGED <<row, books, rowLock, manifestLock, now>>

\* A departure updates the people first, so that two departures exclude each other ...
LocksManifest(h) ==
    /\ At(h, "effects") /\ "depart" \in Part(h)
    /\ manifestLock = None
    /\ manifestLock' = h
    /\ Become(h, [handler[h] EXCEPT !.pc = "commit", !.seen = BooksSeen])
    /\ UNCHANGED <<row, books, rowLock, now>>

\* ... an arrival counts the movements first and updates the people last.
CountsReceived(h) ==
    /\ At(h, "effects") /\ "depart" \notin Part(h)
    /\ Become(h, [handler[h] EXCEPT !.pc = "commit", !.seen = BooksSeen])
    /\ UNCHANGED <<row, books, rowLock, manifestLock, now>>

\* Mutant of Logs: a scheduled run leaves no history entry for an arrival.
LogsDeparturesOnly(h) ==
    /\ handler[h].entity.status # handler[h].existing
    /\ KindOf[h] = "cron" => handler[h].entity.status = Transit

\* createTransferHistoryEntry: with the last transaction of a change of status.
Logs(h) ==
    /\ handler[h].entity.status # handler[h].existing
    /\ KindOf[h] = "cron" => Part(h) = handler[h].todo

\* The CHECK constraints of table transfer_history.
HistoryAccepted(h) ==
    \/ HistoryAcceptsInTransit
    \/ Transit \notin {handler[h].existing, handler[h].entity.status}

\* The unique index of delivered_transfer_resource: two transactions insert.
DuplicateDelivered(h) ==
    /\ Part(h) \cap {"depart", "arrive"} # {}
    /\ ~handler[h].seen.delivered /\ books.delivered

Succeeds(h) == ~DuplicateDelivered(h) /\ (Logs(h) => HistoryAccepted(h))

BooksAfter(h) ==
    LET applied == Apply(books, Part(h), handler[h].seen, row.rations)
    IN  IF Logs(h) THEN [applied EXCEPT !.logged = handler[h].entity.status] ELSE applied

ReadyToCommit(h) ==
    /\ At(h, "commit")
    /\ Part(h) # {} => LockFree(manifestLock, h)

\* What the trailing syncTransferRations finds: it reads the committed row, on
\* another connection than the transaction that awaits it.
RowInSync == row.rations = RationsFor(row.plan)

\* Mutant of EndTransaction: the connection goes back to the pool in its transaction.
EndTransactionWithoutRow(h) ==
    /\ rowLock' = rowLock
    /\ manifestLock' = Released(manifestLock, h)

EndTransaction(h) ==
    /\ rowLock' = Released(rowLock, h)
    /\ manifestLock' = Released(manifestLock, h)

\* A transaction that has not written the row leaves the synchronisation to.
PutCommits(h) ==
    /\ KindOf[h] = "put" /\ ReadyToCommit(h) /\ Succeeds(h)
    /\ RowInSync \/ rowLock = None
    /\ row' = IF rowLock = h THEN handler[h].entity ELSE SyncedRow(row)
    /\ books' = BooksAfter(h)
    /\ EndTransaction(h)
    /\ Become(h, Rest)
    /\ UNCHANGED now

\* The synchronisation has something to write, since an earlier edit of the dates was
\* synchronised from the row before it: it waits for the row that the transaction
\* holds, and the transaction waits for it.
PutHangs(h) ==
    /\ KindOf[h] = "put" /\ ReadyToCommit(h) /\ Succeeds(h)
    /\ ~RowInSync /\ rowLock = h
    /\ manifestLock' = IF Part(h) # {} THEN h ELSE manifestLock
    /\ Become(h, [handler[h] EXCEPT !.pc = "hung"])
    /\ UNCHANGED <<row, books, rowLock, now>>

PutRollsBack(h) ==
    /\ KindOf[h] = "put" /\ ReadyToCommit(h) /\ ~Succeeds(h)
    /\ EndTransaction(h)
    /\ Become(h, Rest)
    /\ UNCHANGED <<row, books, now>>

\* The run goes on with the other side, or with its next query.
AfterPart(h) ==
    LET left == handler[h].todo \ Part(h)
    IN  IF left = {} THEN NextQuery(h)
        ELSE [handler[h] EXCEPT !.pc = "effects", !.seen = NothingSeen, !.todo = left]

\* Phase 2 of executeAutomatedTransfer: a part that fails is logged and skipped.
PhaseTwoPart(h) ==
    /\ KindOf[h] = "cron" /\ ReadyToCommit(h)
    /\ books' = IF Succeeds(h) THEN BooksAfter(h) ELSE books
    /\ EndTransaction(h)
    /\ Become(h, AfterPart(h))
    /\ UNCHANGED <<row, now>>

\* updateTransportStaff: the rations are computed from the transfer read first ...
StaffReads(h) ==
    /\ KindOf[h] = "staff" /\ MayStart(h)
    /\ row.status = Pending
    /\ RationsAvailable(RationsFor(row.plan))
    /\ Become(h, [Rest EXCEPT !.pc = "replace", !.entity = row])
    /\ UNCHANGED <<row, books, rowLock, manifestLock, now>>

\* ... and replaceTransportStaff writes them under SELECT ... FOR UPDATE.
StaffReplaced(h) ==
    /\ At(h, "replace")
    /\ rowLock = None
    /\ row' = IF row.status = Pending
              THEN [row EXCEPT !.rations = RationsFor(handler[h].entity.plan)] ELSE row
    /\ Become(h, Rest)
    /\ UNCHANGED <<books, rowLock, manifestLock, now>>

\* A statement of an open transaction fails: it rolls back.  The request ends
\* with an error; the run logs it and goes on.
Fails(h) ==
    /\ MayFail
    /\ handler[h].pc \in {"save", "effects", "commit"}
    /\ EndTransaction(h)
    /\ Become(h, IF KindOf[h] = "cron" /\ ~At(h, "save") THEN AfterPart(h) ELSE AfterTransfer(h))
    /\ UNCHANGED <<row, books, now>>

\* The process stops: its connections are closed, open transactions roll back.
Crashes ==
    /\ MayCrash
    /\ handler' = [h \in Handlers |-> Rest]
    /\ rowLock' = None /\ manifestLock' = None
    /\ UNCHANGED <<row, books, now>>

\* SystemTimeService: time passes, or an administrator advances it.
Tick ==
    /\ now < MaxTime
    /\ now' = now + 1
    /\ UNCHANGED <<row, books, rowLock, manifestLock, handler>>

-----------------------------------------------------------------------------
\* A request arrives.
Starts(h) == PutReads(h) \/ RosterEdited(h) \/ StaffReads(h)

\* A handler that has started goes on; the scheduler starts its runs.
Proceeds(h) ==
    \/ CronStarts(h) \/ CronQueries(h) \/ CronReads(h)
    \/ SyncReads(h) \/ SyncSaves(h) \/ AssertsRations(h)
    \/ Finds(h) \/ PutSaves(h) \/ PhaseOneCommits(h)
    \/ LocksManifest(h) \/ CountsReceived(h)
    \/ PutCommits(h) \/ PutHangs(h) \/ PutRollsBack(h) \/ PhaseTwoPart(h)
    \/ StaffReplaced(h)

Next ==
    \/ \E h \in Handlers : Starts(h) \/ Proceeds(h) \/ Fails(h)
    \/ Crashes
    \/ Tick

Spec == Init /\ [][Next]_vars

\* The event loop runs every handler that can run, a lock is granted to those
\* that wait for it in turn, the cron job fires every minute and time passes.
\* Requests need not arrive.
Fairness ==
    /\ \A h \in Handlers : SF_vars(Proceeds(h))
    /\ WF_vars(Tick)

FairSpec == Spec /\ Fairness

-----------------------------------------------------------------------------
(* Properties.                                                             *)

\* Every variable keeps its type.  In particular the stock of the requested
\* resource never goes negative: what is sent is capped by the stock, and
\* departures exclude each other (transfer.repository.ts:607-636).
TypeOK ==
    /\ row \in RowType
    /\ books \in BooksType
    /\ rowLock \in Handlers \cup {None}
    /\ manifestLock \in Handlers \cup {None}
    /\ now \in 0..MaxTime
    /\ handler \in [Handlers -> HandlerType]

\* The supplier camp is debited once for a transfer, its rations and its goods,
\* however many requests and scheduled runs act on it, whichever of them fail,
\* and wherever the process stops.  The count of movements alone would not do:
\* it is the update of the people before the count that makes departures wait.
DebitedAtMostOnce == books.rations <= 1 /\ books.sent <= 1

\* A transaction that has counted the movements and is about to commit a
\* departure holds the people of the manifest, and what it has counted is still
\* what the books say: no commit of another handler comes between.
Departing(h) == At(h, "commit") /\ "depart" \in Part(h)

DepartureUpToDate ==
    \A h \in Handlers : Departing(h) =>
        /\ manifestLock = h
        /\ handler[h].seen.rations = books.rations /\ handler[h].seen.sent = books.sent

\* A status that is final stays (transfer.service.ts:450-452).
FinalStatusStable == [][row.status \in Final => row'.status = row.status]_vars

Quiet == \A h \in Handlers : At(h, "idle")

\* Once every handler has ended, manifest, people and movements are what the
\* status of the transfer says: they travel while it is IN_TRANSIT, they belong
\* to the recipient camp, which has been credited, when it is COMPLETED, and
\* they are back at work when it is CANCELED.
SettledMatchesStatus ==
    Quiet =>
      /\ row.status = Transit =>
           /\ books.status = "OUTSIDE_CAMP" /\ books.manifest = "IN_TRANSIT"
           /\ books.rations = 1
      /\ row.status = Done =>
           /\ books.status = "ACTIVE" /\ books.manifest = "DELIVERED" /\ books.camp = "recipient"
           /\ books.received = 1 /\ books.rations = 1
      /\ row.status = Canceled =>
           /\ books.status = "ACTIVE" /\ books.manifest = "CANCELED" /\ books.camp = "supplier"
           /\ books.received = 0

\* Once every handler has ended, the newest history entry names the status.
HistoryMatchesStatus == Quiet => books.logged = row.status

\* A request that makes the transfer depart leaves the supplier camp its
\* minimum of rations: what assertRationsAvailable has checked before the
\* transaction is still so when applyTransferRations debits inside it.
ManualDepartureKeepsReserve ==
    [][\A h \in Handlers : PutCommits(h) /\ books'.food # books.food
                           => books'.food >= MinimumFood]_vars

\* The transfer as the camps see it: its status is the one the history names,
\* a cancelled one that was on its way stays paid.
Lifecycle == INSTANCE TransferLifecycle WITH
    status   <- books.logged,
    place    <- IF books.status = "OUTSIDE_CAMP" THEN "away" ELSE books.camp,
    debited  <- books.rations > 0 /\ books.sent > 0,
    credited <- books.received > 0

\* Requests and runs that do not overlap change status, people and inventories
\* as if each were one step: nothing is credited that was not debited, however
\* often the transfer is put back and sent on again.
ImplementsLifecycle == Lifecycle!Spec

\* Phase 1 of an automated execution is always committed (transfer.service.ts:828).
PhaseOneAlwaysCommits ==
    \A h \in Handlers : KindOf[h] = "cron" /\ At(h, "save") ~> ~At(h, "save")

\* A transfer that requests leave alone from some moment on ends in a final
\* status and keeps it: the three queries of the runs take it there from whatever
\* state edits, synchronisations, departures and returns by hand have left it in.
UntouchedCompletes ==
    <>[](\A h \in Handlers : KindOf[h] # "cron" => At(h, "idle")) => <>[](row.status \in Final)

=============================================================================
