----------------------------- MODULE Inventory -----------------------------
(***************************************************************************)
(* The stock of a camp: the daily cycle of TemporalAutomationService       *)
(* (rations, production, collection records, alerts), run by the job of    *)
(* midnight and by an advance of the clock, and the requests that move,    *)
(* adjust or edit the same stock (InventoryMovementService,                *)
(* DailyCollectionRecordService, CampInventoryService,                     *)
(* InventoryAlertService).                                                 *)
(*                                                                         *)
(* A cycle goes through its statements one at a time, and so do the        *)
(* requests of more than one.  What transfers and expeditions move is in   *)
(* their modules.                                                          *)
(***************************************************************************)
EXTENDS Integers, FiniteSetsExt

CONSTANTS
    Resources,
    Rationed, Ration,    \* FOOD and WATER, and what the camp eats of each in a day
    Workers,
    Makes, Output,       \* what each produces, and how much of it in a day
    Opening, Minimum,    \* stock at the start, and below which an alert is due
    Runs,                \* daily cycles that may be active at once
    Clerks,              \* requests of more than one statement that may be active
    Amounts,             \* amounts a request may give
    MaxDay,              \* bounds of the model: days, cycles that start, requests,
    MaxCycles,           \* and handlers that stop half-way
    MaxEvents,
    MaxFaults

ASSUME InventoryAssumption ==
    /\ IsFiniteSet(Runs) /\ IsFiniteSet(Workers) /\ Workers # {}
    /\ Rationed \subseteq Resources /\ Rationed # {} /\ Ration \in Nat
    /\ Makes \in [Workers -> Resources] /\ Output \in Nat \ {0}
    /\ Opening \in [Resources -> Nat] /\ Minimum \in [Resources -> Nat]
    /\ Amounts \subseteq Nat
    /\ {MaxDay, MaxCycles, MaxEvents, MaxFaults} \subseteq Nat

Days == 0 .. MaxDay
None == -1

VARIABLES
    stock,        \* camp_inventory.current_amount
    ledger,       \* sum of what the rows of table inventory_movement say
    collections,  \* of them, the rows "Automatic daily collection" of a worker and day
    record,       \* daily_collection_record.actual_amount of a worker and day, or None
    alerts,       \* unresolved rows of table inventory_alert
    day,          \* the date by the clock of the system
    run, owed,    \* the daily cycles, and how many each is still to go through
    clerk,        \* the requests
    edited,       \* sum of what edits of the stock have changed
    uncovered,    \* sum of what was booked as taken and was not there to take
    cycles, requests, faults,
    disturbed     \* handlers have overlapped, one has stopped, or nobody could record

drift == <<edited, uncovered>>
tables == <<stock, ledger, collections, record, alerts>>
handlers == <<run, owed, clerk>>
vars == <<tables, day, handlers, drift, cycles, requests, faults, disturbed>>

-----------------------------------------------------------------------------
\* rows: workers whose collection is still to be recorded; people: those who produce;
\* todo: resources still to be treated, of rations, production or alerts.
RunType ==
    [pc : {"idle", "look", "move", "record", "read", "save", "book", "alert", "ask", "raise"},
     day : Days, recorder : BOOLEAN, rows : SUBSET Workers, people : SUBSET Workers,
     producing : BOOLEAN, todo : SUBSET Resources, seen : Int]

RunRest == [pc |-> "idle", day |-> 0, recorder |-> TRUE, rows |-> {}, people |-> {},
            producing |-> FALSE, todo |-> {}, seen |-> 0]

\* An adjustment of a record has w and amount, a withdrawal and an edit of the stock r
\* and amount.
ClerkType ==
    [pc : {"idle", "withdraw", "adjust", "settle", "edit"}, w : Workers, day : Days, r : Resources,
     amount : Int, seen : Int]

ClerkRest == [pc |-> "idle", w |-> CHOOSE w \in Workers : TRUE, day |-> 0,
              r |-> CHOOSE r \in Resources : TRUE, amount |-> 0, seen |-> 0]

Init ==
    /\ stock = Opening
    /\ ledger = [r \in Resources |-> 0]
    /\ collections = [w \in Workers |-> [d \in Days |-> 0]]
    /\ record = [w \in Workers |-> [d \in Days |-> None]]
    /\ alerts = [r \in Resources |-> 0]
    /\ day = 0
    /\ run = [h \in Runs |-> RunRest] /\ owed = [h \in Runs |-> 0]
    /\ clerk = [c \in Clerks |-> ClerkRest]
    /\ edited = [r \in Resources |-> 0] /\ uncovered = [r \in Resources |-> 0]
    /\ cycles = 0 /\ requests = 0 /\ faults = 0 /\ disturbed = FALSE

-----------------------------------------------------------------------------
At(h, pc)       == run[h].pc = pc
Become(h, next) == run' = [run EXCEPT ![h] = next]
Set(c, next)    == clerk' = [clerk EXCEPT ![c] = next]

Busy == (\E h \in Runs : ~At(h, "idle")) \/ \E c \in Clerks : clerk[c].pc # "idle"

\* The rows come in the order of their ids.
First(S) == CHOOSE x \in S : TRUE

Add(f, r, n) == [f EXCEPT ![r] = @ + n]

-----------------------------------------------------------------------------
(* The clock: at midnight of the server a cycle is due, and an advance     *)
(* owes one for each midnight it passes, all at the time it leads to.      *)

Midnight(h) ==
    /\ At(h, "idle") /\ owed[h] = 0 /\ cycles < MaxCycles
    /\ owed' = [owed EXCEPT ![h] = 1] /\ cycles' = cycles + 1
    /\ UNCHANGED <<tables, day, run, clerk, drift, requests, faults, disturbed>>

\* advanceSystemTime: executeTimeAutomations goes on after the answer.
Advances(h, k) ==
    /\ At(h, "idle") /\ owed[h] = 0
    /\ day + k \in Days /\ cycles + k <= MaxCycles
    /\ day' = day + k
    /\ owed' = [owed EXCEPT ![h] = k] /\ cycles' = cycles + k
    /\ UNCHANGED <<tables, run, clerk, drift, requests, faults, disturbed>>

\* The date of the system changes, which is not when the server has midnight.
Tick ==
    /\ day + 1 \in Days /\ day' = day + 1
    /\ UNCHANGED <<tables, handlers, drift, cycles, requests, faults, disturbed>>

-----------------------------------------------------------------------------
(* runDailyResourceCycle.                                                  *)

\* createDailyCollectionRecords is over: to the rations.
AfterRows(me) == [me EXCEPT !.pc = "read", !.rows = {}, !.todo = Rationed]

NextRow(me) ==
    LET rows == me.rows \ {First(me.rows)}
    IN  IF rows = {} THEN AfterRows(me) ELSE [me EXCEPT !.pc = "look", !.rows = rows]

\* Whoever can be named in the movements is looked up for the rations and production,
\* and again for the collections; without anybody there are no rows.
Starts(h) ==
    /\ At(h, "idle") /\ owed[h] > 0
    /\ owed' = [owed EXCEPT ![h] = @ - 1]
    /\ \E recorder \in BOOLEAN, rows \in SUBSET Workers :
          LET me == [RunRest EXCEPT !.day = day, !.recorder = recorder, !.rows = rows]
          IN  /\ Become(h, IF rows = {} THEN AfterRows(me) ELSE [me EXCEPT !.pc = "look"])
              /\ disturbed' = (disturbed \/ Busy \/ ~recorder)
    /\ UNCHANGED <<tables, day, clerk, drift, cycles, requests, faults>>

\* Mutant of Collected: the record of the day is not looked for.
CollectedNever(w, d) == FALSE

Collected(w, d) == record[w][d] # None

Looks(h) ==
    /\ At(h, "look")
    /\ LET w == First(run[h].rows)
       IN  Become(h, IF Collected(w, run[h].day) THEN NextRow(run[h])
                     ELSE [run[h] EXCEPT !.pc = "move"])
    /\ UNCHANGED <<tables, day, owed, clerk, drift, cycles, requests, faults, disturbed>>

\* A movement, which does not change the stock ...
Collects(h) ==
    /\ At(h, "move")
    /\ LET w == First(run[h].rows)
       IN  /\ collections' = [collections EXCEPT ![w][run[h].day] = @ + 1]
           /\ ledger' = Add(ledger, Makes[w], Output)
    /\ Become(h, [run[h] EXCEPT !.pc = "record"])
    /\ UNCHANGED <<stock, record, alerts, day, owed, clerk, drift, cycles, requests, faults,
                   disturbed>>

\* ... and its record; the unique index refuses a second one, which ends the cycle.
Records(h) ==
    /\ At(h, "record")
    /\ LET w == First(run[h].rows)
       IN  IF record[w][run[h].day] # None
           THEN Become(h, RunRest) /\ UNCHANGED record
           ELSE /\ record' = [record EXCEPT ![w][run[h].day] = Output]
                /\ Become(h, NextRow(run[h]))
    /\ UNCHANGED <<stock, ledger, collections, alerts, day, owed, clerk, drift, cycles, requests,
                   faults, disturbed>>

\* What the cycle adds to a resource: minus the ration, or what the people produce.
Change(me, r) ==
    IF me.producing THEN Output * Cardinality({w \in me.people : Makes[w] = r})
    ELSE -Ration

\* applyDailyConsumption, and the same for each resource produced: the row is read,
ReadsStock(h) ==
    /\ At(h, "read")
    /\ Become(h, [run[h] EXCEPT !.pc = "save", !.seen = stock[First(run[h].todo)]])
    /\ UNCHANGED <<tables, day, owed, clerk, drift, cycles, requests, faults, disturbed>>

\* saved with the new amount, which has no floor,
SavesStock(h) ==
    /\ At(h, "save")
    /\ LET r == First(run[h].todo)
       IN  stock' = [stock EXCEPT ![r] = run[h].seen + Change(run[h], r)]
    /\ Become(h, [run[h] EXCEPT !.pc = "book", !.seen = 0])
    /\ UNCHANGED <<ledger, collections, record, alerts, day, owed, clerk, drift, cycles, requests,
                   faults, disturbed>>

\* Mutant of Booked: rations are booked as if they came in.
BookedUnsigned(me, r) == IF me.producing THEN Change(me, r) ELSE Ration

Booked(me, r) == Change(me, r)

\* Those who are at work are looked up when the rations are over.
AfterBook(me) ==
    LET todo == me.todo \ {First(me.todo)}
        To(pc, people, rest) ==
            [me EXCEPT !.pc = pc, !.people = people, !.producing = TRUE, !.todo = rest]
    IN  IF todo # {} THEN {[me EXCEPT !.pc = "read", !.todo = todo]}
        ELSE IF me.producing THEN {[me EXCEPT !.pc = "alert", !.todo = {}]}
        ELSE {To(IF ps = {} THEN "alert" ELSE "read", ps, {Makes[w] : w \in ps}) :
                 ps \in SUBSET Workers}

\* and a movement is written if somebody can be named in it.
BooksChange(h) ==
    /\ At(h, "book")
    /\ LET r == First(run[h].todo)
       IN  ledger' = IF run[h].recorder THEN Add(ledger, r, Booked(run[h], r)) ELSE ledger
    /\ \E next \in AfterBook(run[h]) : Become(h, next)
    /\ UNCHANGED <<stock, collections, record, alerts, day, owed, clerk, drift, cycles, requests,
                   faults, disturbed>>

Touched(me) == Rationed \cup {Makes[w] : w \in me.people}

\* generateAlertsIfNeeded: one query of the stocks ...
ReadsStocks(h) ==
    /\ At(h, "alert")
    /\ LET low == {r \in Touched(run[h]) : stock[r] < Minimum[r]}
       IN  Become(h, IF low = {} THEN RunRest ELSE [run[h] EXCEPT !.pc = "ask", !.todo = low])
    /\ UNCHANGED <<tables, day, owed, clerk, drift, cycles, requests, faults, disturbed>>

NextAlert(me) ==
    LET todo == me.todo \ {First(me.todo)}
    IN  IF todo = {} THEN RunRest ELSE [me EXCEPT !.pc = "ask", !.todo = todo]

\* Mutant of Alerted: an alert that is still open does not count.
AlertedNever(r) == FALSE

Alerted(r) == alerts[r] > 0

\* ... then for each that is low, whether there is an alert, and a new one.
AsksAlert(h) ==
    /\ At(h, "ask")
    /\ Become(h, IF Alerted(First(run[h].todo)) THEN NextAlert(run[h])
                 ELSE [run[h] EXCEPT !.pc = "raise"])
    /\ UNCHANGED <<tables, day, owed, clerk, drift, cycles, requests, faults, disturbed>>

Raises(h) ==
    /\ At(h, "raise")
    /\ alerts' = Add(alerts, First(run[h].todo), 1)
    /\ Become(h, NextAlert(run[h]))
    /\ UNCHANGED <<stock, ledger, collections, record, day, owed, clerk, drift, cycles, requests,
                   faults, disturbed>>

-----------------------------------------------------------------------------
(* Requests.                                                               *)

\* One more request, seen by whatever is active.
Requested ==
    /\ requests + faults < MaxEvents /\ requests' = requests + 1
    /\ disturbed' = (disturbed \/ Busy)

\* Mutant of Covers: the update of the stock has no condition.
CoversAlways(r, n) == TRUE

\* The condition of the update.
Covers(r, n) == n >= 0 \/ stock[r] >= -n

\* InventoryMovementRepository.create: the row, and the stock if it covers it.  That it
\* did not is never noticed: query answers an UPDATE ... RETURNING with the pair of the
\* rows and their count, whose length is 2.
Moved(r, n) ==
    /\ ledger' = Add(ledger, r, n)
    /\ IF Covers(r, n)
       THEN stock' = Add(stock, r, n) /\ UNCHANGED uncovered
       ELSE uncovered' = Add(uncovered, r, -n) /\ UNCHANGED stock

\* createMovement of what comes in, or a MANUAL_ADJUSTMENT.
Moves(r, n) ==
    /\ Requested /\ Moved(r, n)
    /\ UNCHANGED <<collections, record, alerts, day, handlers, edited, cycles, faults>>

\* createMovement of a consumption: refused when the stock is found too small, ...
WithdrawReads(c) ==
    /\ clerk[c].pc = "idle" /\ Requested
    /\ \E r \in Resources, n \in Amounts :
          /\ stock[r] >= n
          /\ Set(c, [ClerkRest EXCEPT !.pc = "withdraw", !.r = r, !.amount = n])
    /\ UNCHANGED <<tables, day, run, owed, drift, cycles, faults>>

\* ... and booked whatever it is by then.
Withdraws(c) ==
    /\ clerk[c].pc = "withdraw"
    /\ Moved(clerk[c].r, -clerk[c].amount)
    /\ Set(c, ClerkRest)
    /\ UNCHANGED <<collections, record, alerts, day, run, owed, edited, cycles, requests, faults,
                   disturbed>>

\* createRecord, or updateRecord of the amount: no movement is made.
Registers(w, d, n) ==
    /\ Requested
    /\ record' = [record EXCEPT ![w][d] = n]
    /\ UNCHANGED <<stock, ledger, collections, alerts, day, handlers, drift, cycles, faults>>

\* adjustRecord reads the record,
AdjustReads(c) ==
    /\ clerk[c].pc = "idle" /\ Requested
    /\ \E w \in Workers, d \in Days, n \in Amounts :
          /\ record[w][d] # None
          /\ Set(c, [ClerkRest EXCEPT !.pc = "adjust", !.w = w, !.day = d, !.amount = n,
                                      !.seen = record[w][d]])
    /\ UNCHANGED <<tables, day, run, owed, drift, cycles, faults>>

\* gives it the new amount,
AdjustSaves(c) ==
    /\ clerk[c].pc = "adjust"
    /\ LET me == clerk[c]
       IN  /\ record' = [record EXCEPT ![me.w][me.day] = me.amount]
           /\ Set(c, IF me.amount = me.seen THEN ClerkRest ELSE [me EXCEPT !.pc = "settle"])
    /\ UNCHANGED <<stock, ledger, collections, alerts, day, run, owed, drift, cycles, requests,
                   faults, disturbed>>

\* and books the difference as a MANUAL_ADJUSTMENT.
AdjustMoves(c) ==
    /\ clerk[c].pc = "settle"
    /\ Moved(Makes[clerk[c].w], clerk[c].amount - clerk[c].seen)
    /\ Set(c, ClerkRest)
    /\ UNCHANGED <<collections, record, alerts, day, run, owed, edited, cycles, requests, faults,
                   disturbed>>

\* CampInventoryRepository.update finds the row; an edit of the minimum alone saves the
\* stock as it was found.
EditFinds(c) ==
    /\ clerk[c].pc = "idle" /\ Requested
    /\ \E r \in Resources : \E n \in Amounts \cup {stock[r]} :
          Set(c, [ClerkRest EXCEPT !.pc = "edit", !.r = r, !.amount = n])
    /\ UNCHANGED <<tables, day, run, owed, drift, cycles, faults>>

EditSaves(c) ==
    /\ clerk[c].pc = "edit"
    /\ LET me == clerk[c]
       IN  /\ stock' = [stock EXCEPT ![me.r] = me.amount]
           /\ edited' = Add(edited, me.r, me.amount - stock[me.r])
    /\ Set(c, ClerkRest)
    /\ UNCHANGED <<ledger, collections, record, alerts, day, run, owed, uncovered, cycles, requests,
                   faults, disturbed>>

\* updateAlert: an alert is resolved.
Resolves(r) ==
    /\ alerts[r] > 0 /\ Requested
    /\ alerts' = Add(alerts, r, -1)
    /\ UNCHANGED <<stock, ledger, collections, record, day, handlers, drift, cycles, faults>>

-----------------------------------------------------------------------------
Fault ==
    /\ faults < MaxFaults /\ requests + faults < MaxEvents
    /\ faults' = faults + 1 /\ disturbed' = TRUE
    /\ UNCHANGED <<tables, day, drift, cycles, requests>>

\* A statement fails, and the run goes on with the cycle after; or the process stops.
CycleStops(h) ==
    /\ ~At(h, "idle") /\ Become(h, RunRest)
    /\ owed' \in {owed, [owed EXCEPT ![h] = 0]}
    /\ UNCHANGED clerk /\ Fault

RequestStops(c) ==
    /\ clerk[c].pc # "idle" /\ Set(c, ClerkRest)
    /\ UNCHANGED <<run, owed>> /\ Fault

Cycle(h) ==
    \/ Starts(h) \/ Looks(h) \/ Collects(h) \/ Records(h) \/ ReadsStock(h) \/ SavesStock(h)
    \/ BooksChange(h) \/ ReadsStocks(h) \/ AsksAlert(h) \/ Raises(h)

Next ==
    \/ \E h \in Runs : Midnight(h) \/ (\E k \in Days \ {0} : Advances(h, k)) \/ Cycle(h)
    \/ Tick
    \/ \E r \in Resources, n \in Amounts : Moves(r, n) \/ Moves(r, -n)
    \/ \E w \in Workers, d \in Days, n \in Amounts : Registers(w, d, n)
    \/ \E c \in Clerks : \/ WithdrawReads(c) \/ Withdraws(c)
                         \/ AdjustReads(c) \/ AdjustSaves(c) \/ AdjustMoves(c)
                         \/ EditFinds(c) \/ EditSaves(c) \/ RequestStops(c)
    \/ \E r \in Resources : Resolves(r)
    \/ \E h \in Runs : CycleStops(h)

Spec == Init /\ [][Next]_vars

-----------------------------------------------------------------------------
(* Properties.                                                             *)

\* Every variable keeps its type.  Whatever cycles and edits write back, no movement
\* takes more than there is: of what is not rationed the stock is never negative
\* (inventoryMovement.repository.ts:73-82).
TypeOK ==
    /\ stock \in [Resources -> Int] /\ \A r \in Resources \ Rationed : stock[r] >= 0
    /\ {ledger, edited, uncovered} \subseteq [Resources -> Int]
    /\ collections \in [Workers -> [Days -> Nat]]
    /\ record \in [Workers -> [Days -> Nat \cup {None}]]
    /\ alerts \in [Resources -> Nat]
    /\ day \in Days
    /\ run \in [Runs -> RunType] /\ owed \in [Runs -> Nat]
    /\ clerk \in [Clerks -> ClerkType]
    /\ {cycles, requests, faults} \subseteq Nat /\ disturbed \in BOOLEAN

\* However many cycles run on a date, one after the other or together, the collection
\* of a worker is booked once for each that can be active and each that stopped
\* half-way, never once per cycle (temporalAutomation.service.ts:172-183).
CollectedOnce ==
    \A w \in Workers, d \in Days : collections[w][d] <= Cardinality(Runs) + faults

\* A resource has no more open alerts than cycles that can be active, however long it
\* stays low and whenever alerts are resolved (temporalAutomation.service.ts:470-477).
OneAlertPerRun == \A r \in Resources : alerts[r] <= Cardinality(Runs)

\* What the movements say was collected from each worker, which the cycle books a
\* second time as production.
TwiceBooked(r) ==
    Output * MapThenSumSet(LAMBDA p : collections[p[1]][p[2]],
                           {w \in Workers : Makes[w] = r} \X Days)

\* While handlers do not overlap or stop, and somebody can be named in the movements,
\* the stock is what it was plus what was moved and edited, the automatic collections
\* apart and the withdrawals it did not cover: each goes through several tables and none
\* loses what another has written (inventoryMovement.repository.ts:84-86, which would
\* refuse such a withdrawal, never does).
BooksBalance ==
    ~disturbed /\ ~Busy =>
        \A r \in Resources :
            stock[r] = Opening[r] + ledger[r] - TwiceBooked(r) + edited[r] + uncovered[r]

=============================================================================
