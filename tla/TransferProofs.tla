--------------------------- MODULE TransferProofs ---------------------------
(***************************************************************************)
(* Theorems of module Transfer, for any number of handlers of any kind and *)
(* any amounts and dates.  The types and that goods are debited once hold  *)
(* whichever of the switches are on.  The rest is about handlers that run  *)
(* one by one and to their end (OneByOne): between two handlers the books, *)
(* the people and the history are what the status says, a departure by     *)
(* hand leaves the reserve, and Transfer implements TransferLifecycle.     *)
(***************************************************************************)
EXTENDS Transfer, TLAPS

-----------------------------------------------------------------------------
(* Types of the operators the actions are built from.                      *)

\* Rations are a whole number of units.
LEMMA RationsType == ASSUME NEW p \in Plans PROVE RationsFor(p) \in Int
<1>1. /\ Arrives[p] \in Int /\ Departs[p] \in Int
      /\ DayLength \in Int /\ DayLength > 0
  BY PlansAssumption
<1>2. TripDays(p) \in Int
  BY <1>1 DEF TripDays
<1>. QED  BY <1>2, AmountsAssumption DEF RationsFor

\* The record an idle handler holds.
LEMMA RestType == BlankRow \in RowType /\ Rest \in HandlerType
<1>1. BlankRow \in RowType
  BY PlansAssumption DEF BlankRow, RowType, Statuses, Pending
<1>2. /\ NothingSeen \in SeenType
      /\ Keep \in Statuses \cup {Keep} /\ Keep \in Plans \cup {Keep}
      /\ Pending \in Statuses /\ 0 \in 0..3 /\ 0 \in 0..MaxTime
  BY PlansAssumption DEF NothingSeen, SeenType, Statuses
<1>. QED  BY <1>1, <1>2 DEF Rest, HandlerType

\* The next query of a scheduled run.
LEMMA NextQueryType ==
  ASSUME TypeOK, NEW h \in Handlers PROVE NextQuery(h) \in HandlerType
<1>1. handler[h] \in HandlerType
  BY DEF TypeOK
<1>2. /\ handler[h].stage \in 0..3 /\ handler[h].at \in 0..MaxTime
  BY <1>1 DEF HandlerType
<1>3. CASE handler[h].stage = 3
  BY <1>3, RestType DEF NextQuery
<1>4. CASE handler[h].stage # 3
  <2>1. handler[h].stage + 1 \in 0..3
    BY <1>2, <1>4
  <2>. QED  BY <1>2, <1>4, <2>1, RestType DEF NextQuery, HandlerType
<1>. QED  BY <1>3, <1>4

\* A handler that becomes a handler record leaves the table well typed.
LEMMA BecomeType ==
  ASSUME TypeOK, NEW h \in Handlers, NEW next \in HandlerType, Become(h, next)
  PROVE  handler' \in [Handlers -> HandlerType]
BY DEF TypeOK, Become

\* Where a handler goes when it is finished, or a run when a part is.
LEMMA AfterType ==
  ASSUME TypeOK, NEW h \in Handlers
  PROVE  AfterTransfer(h) \in HandlerType /\ AfterPart(h) \in HandlerType
<1>1. handler[h] \in HandlerType
  BY DEF TypeOK
<1>2. NothingSeen \in SeenType
  BY DEF NothingSeen, SeenType
<1>3. handler[h].todo \ Part(h) \in SUBSET Effects
  BY <1>1 DEF HandlerType
<1>. QED  BY <1>1, <1>2, <1>3, NextQueryType, RestType DEF AfterTransfer, AfterPart, HandlerType

\* The effects of a status change keep the books well typed; the goods do not
\* go negative because the amount sent is capped.
LEMMA ApplyType ==
  ASSUME NEW b \in BooksType, NEW part, NEW seen \in SeenType, NEW rations \in Int
  PROVE  Apply(b, part, seen, rations) \in BooksType
<1>1. ASSUME NEW c \in BooksType PROVE Depart(c, seen, rations) \in BooksType
  <2>. DEFINE ration == IF seen.rations = 0 THEN 1 ELSE 0
              amount == IF c.goods < Requested THEN c.goods ELSE Requested
              send   == IF seen.sent = 0 /\ amount > 0 THEN 1 ELSE 0
  <2>1. /\ c.goods \in Nat /\ c.food \in Int /\ c.rations \in Nat /\ c.sent \in Nat
        /\ c.manifest \in {"CONFIRMED", "IN_TRANSIT", "DELIVERED", "CANCELED"}
    BY DEF BooksType
  <2>2. c.rations + ration \in Nat /\ c.sent + send \in Nat
    BY <2>1
  <2>3. (IF ration = 1 THEN c.food - rations ELSE c.food) \in Int
    BY <2>1
  <2>4. (IF send = 1 THEN c.goods - amount ELSE c.goods) \in Nat
    BY <2>1, AmountsAssumption
  <2>5. (IF c.manifest = "CONFIRMED" THEN "IN_TRANSIT" ELSE c.manifest)
           \in {"CONFIRMED", "IN_TRANSIT", "DELIVERED", "CANCELED"}
    BY <2>1
  <2>6. Depart(c, seen, rations) =
          [c EXCEPT !.manifest = IF c.manifest = "CONFIRMED" THEN "IN_TRANSIT" ELSE c.manifest,
                    !.status = "OUTSIDE_CAMP",
                    !.delivered = TRUE,
                    !.rations = c.rations + ration,
                    !.food = IF ration = 1 THEN c.food - rations ELSE c.food,
                    !.sent = c.sent + send,
                    !.goods = IF send = 1 THEN c.goods - amount ELSE c.goods]
    BY DEF Depart
  <2>. HIDE DEF ration, amount, send
  <2>. QED  BY <2>2, <2>3, <2>4, <2>5, <2>6 DEF BooksType
<1>2. ASSUME NEW c \in BooksType PROVE Arrive(c, seen) \in BooksType
  <2>. DEFINE receive == IF seen.received = 0 THEN 1 ELSE 0
  <2>1. c.received + receive \in Nat
    BY DEF BooksType
  <2>2. (IF receive = 1 THEN c.arrived + Requested ELSE c.arrived) \in Nat
    BY AmountsAssumption DEF BooksType
  <2>3. (IF c.manifest = "CANCELED" THEN c.manifest ELSE "DELIVERED")
           \in {"CONFIRMED", "IN_TRANSIT", "DELIVERED", "CANCELED"}
    OBVIOUS
  <2>4. Arrive(c, seen) =
          [c EXCEPT !.manifest = IF c.manifest = "CANCELED" THEN c.manifest ELSE "DELIVERED",
                    !.status = "ACTIVE",
                    !.camp = "recipient",
                    !.delivered = TRUE,
                    !.received = c.received + receive,
                    !.arrived = IF receive = 1 THEN c.arrived + Requested ELSE c.arrived]
    BY DEF Arrive
  <2>. HIDE DEF receive
  <2>. QED  BY <2>1, <2>2, <2>3, <2>4 DEF BooksType
<1>3. \A c \in BooksType : Cancel(c) \in BooksType
  BY DEF Cancel, BooksType
<1>. QED  BY <1>1, <1>2, <1>3 DEF Apply

\* What a transaction leaves in the books.
LEMMA BooksAfterType ==
  ASSUME TypeOK, NEW h \in Handlers PROVE BooksAfter(h) \in BooksType
<1>1. /\ books \in BooksType /\ row.rations \in Int
      /\ handler[h].seen \in SeenType /\ handler[h].entity.status \in Statuses
  BY DEF TypeOK, RowType, HandlerType
<1>2. Apply(books, Part(h), handler[h].seen, row.rations) \in BooksType
  BY <1>1, ApplyType
<1>. QED  BY <1>1, <1>2 DEF BooksAfter, BooksType

-----------------------------------------------------------------------------
(* Type correctness.                                                       *)

\* Ending a transaction gives back the locks its handler holds, and no other.
LEMMA EndTransactionType ==
  ASSUME TypeOK, NEW h \in Handlers, EndTransaction(h)
  PROVE  rowLock' \in Handlers \cup {None} /\ manifestLock' \in Handlers \cup {None}
BY DEF EndTransaction, Released, TypeOK

\* Every step of a handler leaves it a handler record.
LEMMA HandlerStepType ==
  ASSUME TypeOK, NEW h \in Handlers, Starts(h) \/ Proceeds(h) \/ Fails(h)
  PROVE  handler' \in [Handlers -> HandlerType]
<1>. DEFINE me == handler[h]
<1>1. me \in HandlerType /\ row \in RowType /\ row.status \in Statuses /\ row.plan \in Plans
  BY DEF TypeOK, RowType
<1>2. BooksSeen \in SeenType
  BY DEF BooksSeen, SeenType, TypeOK, BooksType
<1>3. now \in 0..MaxTime
  BY DEF TypeOK
<1>4. CASE PutReads(h)
  <2>1. PICK s \in Statuses \cup {Keep}, p \in Replans \cup {Keep} :
           Become(h, [Rest EXCEPT !.pc = IF LeavesCamp(row.status, s) THEN "check" ELSE "begin",
                                  !.status = s, !.plan = p, !.existing = row.status])
    BY <1>4 DEF PutReads
  <2>2. p \in Plans \cup {Keep}
    BY PlansAssumption
  <2>3. \A pc \in {"check", "begin"} :
          [Rest EXCEPT !.pc = pc, !.status = s, !.plan = p, !.existing = row.status] \in HandlerType
    BY <1>1, <2>2, RestType DEF HandlerType
  <2>. QED  BY <2>1, <2>3, BecomeType
<1>5. CASE RosterEdited(h)
  BY <1>5, RestType, BecomeType DEF RosterEdited, HandlerType
<1>6. CASE StaffReads(h)
  BY <1>1, <1>6, RestType, BecomeType DEF StaffReads, HandlerType
<1>7. CASE CronStarts(h)
  <2>1. 1 \in 0..3
    OBVIOUS
  <2>2. [Rest EXCEPT !.pc = "query", !.stage = 1, !.at = now] \in HandlerType
    BY <1>3, <2>1, RestType DEF HandlerType
  <2>. QED  BY <1>7, <2>2, BecomeType DEF CronStarts
<1>8. CASE CronQueries(h)
  BY <1>1, <1>8, NextQueryType, BecomeType DEF CronQueries, HandlerType, Statuses
<1>9. CASE CronReads(h)
  BY <1>1, <1>9, NextQueryType, BecomeType DEF CronReads, HandlerType
<1>10. CASE SyncReads(h)
  BY <1>1, <1>10, BecomeType DEF SyncReads, HandlerType
<1>11. CASE SyncSaves(h)
  BY <1>1, <1>11, RestType, BecomeType DEF SyncSaves, HandlerType
<1>12. CASE AssertsRations(h)
  BY <1>1, <1>12, RestType, BecomeType DEF AssertsRations, HandlerType
<1>13. CASE Finds(h)
  <2>1. Assigned(row, me.status, me.plan) \in RowType
    BY <1>1 DEF Assigned, HandlerType, RowType
  <2>. QED  BY <1>1, <1>13, <2>1, BecomeType DEF Finds, HandlerType
<1>14. CASE PutSaves(h)
  BY <1>1, <1>14, BecomeType DEF PutSaves, Work, HandlerType
<1>15. CASE PhaseOneCommits(h)
  BY <1>1, <1>15, NextQueryType, BecomeType DEF PhaseOneCommits, Work, HandlerType
<1>16. CASE LocksManifest(h)
  BY <1>1, <1>2, <1>16, BecomeType DEF LocksManifest, HandlerType
<1>17. CASE CountsReceived(h)
  BY <1>1, <1>2, <1>17, BecomeType DEF CountsReceived, HandlerType
<1>18. CASE PutCommits(h) \/ PutRollsBack(h)
  BY <1>18, RestType, BecomeType DEF PutCommits, PutRollsBack
<1>19. CASE PutHangs(h)
  BY <1>1, <1>19, BecomeType DEF PutHangs, HandlerType
<1>20. CASE PhaseTwoPart(h)
  BY <1>20, AfterType, BecomeType DEF PhaseTwoPart
<1>21. CASE StaffReplaced(h)
  BY <1>21, RestType, BecomeType DEF StaffReplaced
<1>22. CASE Fails(h)
  BY <1>22, AfterType, BecomeType DEF Fails
<1>. QED
  BY <1>4, <1>5, <1>6, <1>7, <1>8, <1>9, <1>10, <1>11, <1>12, <1>13, <1>14, <1>15,
     <1>16, <1>17, <1>18, <1>19, <1>20, <1>21, <1>22 DEF Starts, Proceeds

\* Every step of a handler leaves the row, the books, the locks and the clock
\* well typed.
LEMMA DatabaseStepType ==
  ASSUME TypeOK, NEW h \in Handlers, Starts(h) \/ Proceeds(h) \/ Fails(h)
  PROVE  /\ row' \in RowType /\ books' \in BooksType /\ now' \in 0..MaxTime
         /\ rowLock' \in Handlers \cup {None} /\ manifestLock' \in Handlers \cup {None}
<1>1. /\ row \in RowType /\ books \in BooksType /\ now \in 0..MaxTime
      /\ rowLock \in Handlers \cup {None} /\ manifestLock \in Handlers \cup {None}
      /\ handler[h].entity \in RowType
  BY DEF TypeOK, HandlerType
<1>2. \A e \in RowType : RationsFor(e.plan) \in Int
  BY RationsType DEF RowType
<1>3. CASE \/ PutReads(h) \/ RosterEdited(h) \/ StaffReads(h) \/ CronStarts(h) \/ CronQueries(h)
           \/ CronReads(h) \/ SyncReads(h) \/ AssertsRations(h) \/ Finds(h) \/ CountsReceived(h)
  BY <1>1, <1>3 DEF PutReads, RosterEdited, StaffReads, CronStarts, CronQueries, CronReads,
                    SyncReads, AssertsRations, Finds, CountsReceived
<1>4. CASE SyncSaves(h)
  <2>1. SyncedRow(handler[h].entity) \in RowType
    BY <1>1, <1>2 DEF SyncedRow, RowType
  <2>. QED  BY <1>1, <1>4, <2>1 DEF SyncSaves
<1>5. CASE PutSaves(h) \/ LocksManifest(h) \/ PutHangs(h)
  BY <1>1, <1>5 DEF PutSaves, LocksManifest, PutHangs
<1>6. CASE PhaseOneCommits(h)
  BY <1>1, <1>6 DEF PhaseOneCommits
<1>7. CASE PutCommits(h)
  <2>1. SyncedRow(row) \in RowType
    BY <1>1, <1>2 DEF SyncedRow, RowType
  <2>. QED  BY <1>1, <1>7, <2>1, BooksAfterType, EndTransactionType DEF PutCommits
<1>8. CASE PutRollsBack(h) \/ Fails(h)
  BY <1>1, <1>8, EndTransactionType DEF PutRollsBack, Fails
<1>9. CASE PhaseTwoPart(h)
  BY <1>1, <1>9, BooksAfterType, EndTransactionType DEF PhaseTwoPart
<1>10. CASE StaffReplaced(h)
  <2>1. row' \in RowType
    BY <1>1, <1>2, <1>10 DEF StaffReplaced, RowType
  <2>. QED  BY <1>1, <1>10, <2>1 DEF StaffReplaced
<1>. QED
  BY <1>3, <1>4, <1>5, <1>6, <1>7, <1>8, <1>9, <1>10 DEF Starts, Proceeds

\* The initial state is well typed.
LEMMA InitType == Init => TypeOK
<1>. SUFFICES ASSUME Init PROVE TypeOK
  OBVIOUS
<1>1. row \in RowType
  BY RationsType DEF Init, RowType, Statuses
<1>2. books \in BooksType
  BY AmountsAssumption DEF Init, BooksType, Statuses
<1>3. handler \in [Handlers -> HandlerType]
  BY RestType DEF Init
<1>4. now \in 0..MaxTime
  BY PlansAssumption DEF Init
<1>. QED  BY <1>1, <1>2, <1>3, <1>4 DEF Init, TypeOK

\* Every step keeps the types.
LEMMA NextType == TypeOK /\ [Next]_vars => TypeOK'
<1>. SUFFICES ASSUME TypeOK, [Next]_vars PROVE TypeOK'
  OBVIOUS
<1>1. CASE \E h \in Handlers : Starts(h) \/ Proceeds(h) \/ Fails(h)
  BY <1>1, HandlerStepType, DatabaseStepType DEF TypeOK
<1>2. CASE Crashes
  BY <1>2, RestType DEF Crashes, TypeOK
<1>3. CASE Tick
  BY <1>3, PlansAssumption DEF Tick, TypeOK
<1>4. CASE UNCHANGED vars
  BY <1>4 DEF vars, TypeOK
<1>. QED  BY <1>1, <1>2, <1>3, <1>4 DEF Next

\* Every reachable state is well typed; the stock of goods of the supplier camp
\* is never negative.
THEOREM TypeCorrect == Spec => []TypeOK
<1>. QED  BY InitType, NextType, PTL DEF Spec

-----------------------------------------------------------------------------
(* The supplier camp is debited at most once.                              *)
(*                                                                         *)
(* DebitedAtMostOnce is not inductive: a handler that counted the movements*)
(* before another one committed would debit again.  DepartureUpToDate says *)
(* that there is no such handler, and why: it holds the people's rows.     *)

\* The counts of rations and goods movements change only with a departure ...
LEMMA ApplyOther ==
  ASSUME NEW b \in BooksType, NEW part, "depart" \notin part, NEW seen, NEW rations
  PROVE  /\ Apply(b, part, seen, rations).rations = b.rations
         /\ Apply(b, part, seen, rations).sent = b.sent
BY DEF Apply, Arrive, Cancel, BooksType

\* ... which adds one when it has seen none.
LEMMA ApplyDepart ==
  ASSUME NEW b \in BooksType, b.rations <= 1, b.sent <= 1,
         NEW part, NEW seen, seen.rations = b.rations, seen.sent = b.sent, NEW rations
  PROVE  /\ Apply(b, part, seen, rations).rations <= 1
         /\ Apply(b, part, seen, rations).sent <= 1
<1>1. b.rations \in Nat /\ b.sent \in Nat
  BY DEF BooksType
<1>2. /\ Depart(b, seen, rations).rations \in {b.rations, 1}
      /\ Depart(b, seen, rations).sent \in {b.sent, 1}
  BY <1>1 DEF Depart, BooksType
<1>3. \A c : /\ Cancel(c).rations = c.rations /\ Cancel(c).sent = c.sent
             /\ Arrive(c, seen).rations = c.rations /\ Arrive(c, seen).sent = c.sent
  BY DEF Cancel, Arrive
<1>. QED  BY <1>1, <1>2, <1>3 DEF Apply

IInv == TypeOK /\ DepartureUpToDate /\ DebitedAtMostOnce

\* A handler that commits leaves the books alone, but for the history, or is
\* the one that holds the people.
LEMMA BooksAfterCounts ==
  ASSUME IInv, NEW h \in Handlers, At(h, "commit")
  PROVE  /\ BooksAfter(h).rations <= 1 /\ BooksAfter(h).sent <= 1
         /\ "depart" \notin Part(h) =>
              BooksAfter(h).rations = books.rations /\ BooksAfter(h).sent = books.sent
<1>. DEFINE applied == Apply(books, Part(h), handler[h].seen, row.rations)
<1>1. books \in BooksType /\ books.rations <= 1 /\ books.sent <= 1
  BY DEF IInv, TypeOK, DebitedAtMostOnce
<1>2. BooksAfter(h).rations = applied.rations /\ BooksAfter(h).sent = applied.sent
  <2>1. applied \in BooksType
    BY ApplyType DEF IInv, TypeOK, HandlerType, RowType
  <2>. QED  BY <2>1 DEF BooksAfter, BooksType
<1>3. CASE "depart" \in Part(h)
  <2>1. handler[h].seen.rations = books.rations /\ handler[h].seen.sent = books.sent
    BY <1>3 DEF IInv, DepartureUpToDate, Departing
  <2>. QED  BY <1>1, <1>2, <1>3, <2>1, ApplyDepart
<1>4. CASE "depart" \notin Part(h)
  BY <1>1, <1>2, <1>4, ApplyOther
<1>. QED  BY <1>3, <1>4

\* Only the transactions that end with a commit touch the books.
LEMMA BooksStep ==
  ASSUME NEW h \in Handlers, Starts(h) \/ Proceeds(h) \/ Fails(h)
  PROVE  \/ UNCHANGED books
         \/ ReadyToCommit(h) /\ books' = BooksAfter(h) /\ (PutCommits(h) \/ PhaseTwoPart(h))
BY DEF Starts, Proceeds, PutReads, RosterEdited, StaffReads, CronStarts, CronQueries, CronReads,
       SyncReads, SyncSaves, AssertsRations, Finds, PutSaves, PhaseOneCommits, LocksManifest,
       CountsReceived, PutCommits, PutHangs, PutRollsBack, PhaseTwoPart, StaffReplaced, Fails

\* A step of one handler leaves the others alone, and after it this handler is
\* about to commit a departure only if it has just locked the manifest.
LEMMA HandlersStep ==
  ASSUME TypeOK, NEW h \in Handlers, Starts(h) \/ Proceeds(h) \/ Fails(h)
  PROVE  /\ \A g \in Handlers \ {h} : handler'[g] = handler[g]
         /\ Departing(h)' => LocksManifest(h)
<1>1. handler \in [Handlers -> HandlerType] /\ handler[h] \in HandlerType
  BY DEF TypeOK
<1>2. \A next : Become(h, next) => /\ handler'[h] = next
                                   /\ \A g \in Handlers \ {h} : handler'[g] = handler[g]
  BY <1>1 DEF Become
<1>3. /\ Rest.pc # "commit" /\ NextQuery(h).pc # "commit"
      /\ AfterTransfer(h).pc # "commit" /\ AfterPart(h).pc # "commit"
  BY <1>1 DEF Rest, NextQuery, AfterTransfer, AfterPart, HandlerType
<1>4. \E next : Become(h, next)
  BY DEF Starts, Proceeds, PutReads, RosterEdited, StaffReads, CronStarts, CronQueries, CronReads,
         SyncReads, SyncSaves, AssertsRations, Finds, PutSaves, PhaseOneCommits, LocksManifest,
         CountsReceived, PutCommits, PutHangs, PutRollsBack, PhaseTwoPart, StaffReplaced, Fails
<1>5. CASE handler'[h].pc # "commit"
  BY <1>2, <1>4, <1>5 DEF Departing, At
<1>6. CASE PutReads(h)
  <2>1. PICK pc \in {"check", "begin"}, s \in Statuses \cup {Keep}, p \in Replans \cup {Keep} :
           Become(h, [Rest EXCEPT !.pc = pc, !.status = s, !.plan = p, !.existing = row.status])
    BY <1>6 DEF PutReads
  <2>2. handler'[h] = [Rest EXCEPT !.pc = pc, !.status = s, !.plan = p, !.existing = row.status]
    BY <1>2, <2>1
  <2>3. handler'[h].pc = pc
    BY <2>2 DEF Rest
  <2>. QED  BY <1>5, <2>3
<1>7. CASE RosterEdited(h) \/ StaffReads(h) \/ CronStarts(h)
  <2>1. handler'[h] \in {[Rest EXCEPT !.pc = "check"], [Rest EXCEPT !.pc = "replace", !.entity = row],
                         [Rest EXCEPT !.pc = "query", !.stage = 1, !.at = now]}
    BY <1>2, <1>7 DEF RosterEdited, StaffReads, CronStarts
  <2>2. handler'[h].pc # "commit"
    BY <2>1 DEF Rest
  <2>. QED  BY <1>5, <2>2
<1>8. CASE CronQueries(h)
  <2>1. \A x : [handler[h] EXCEPT !.pc = "read", !.status = x].pc = "read"
    BY <1>1 DEF HandlerType
  <2>2. \/ Become(h, NextQuery(h))
        \/ \E x : Become(h, [handler[h] EXCEPT !.pc = "read", !.status = x])
    BY <1>8 DEF CronQueries
  <2>. QED  BY <1>2, <1>3, <1>5, <2>1, <2>2
<1>9. CASE CronReads(h)
  <2>1. \A x : [handler[h] EXCEPT !.pc = "begin", !.existing = x].pc = "begin"
    BY <1>1 DEF HandlerType
  <2>. QED  BY <1>2, <1>3, <1>5, <1>9, <2>1 DEF CronReads
<1>10. CASE Finds(h)
  <2>1. \A x : [handler[h] EXCEPT !.pc = "save", !.entity = x].pc = "save"
    BY <1>1 DEF HandlerType
  <2>. QED  BY <1>2, <1>5, <1>10, <2>1 DEF Finds
<1>11. CASE SyncReads(h) \/ SyncSaves(h) \/ AssertsRations(h)
  <2>1. handler'[h] \in {[handler[h] EXCEPT !.pc = "sync", !.entity = row],
                         [handler[h] EXCEPT !.pc = "assert", !.entity = BlankRow],
                         [handler[h] EXCEPT !.pc = "begin"], Rest}
    BY <1>2, <1>11 DEF SyncReads, SyncSaves, AssertsRations
  <2>2. handler'[h].pc # "commit"
    BY <1>1, <1>3, <2>1 DEF HandlerType
  <2>. QED  BY <1>5, <2>2
<1>12. CASE PutSaves(h) \/ PutHangs(h) \/ PhaseOneCommits(h)
  <2>1. \A x : /\ [handler[h] EXCEPT !.pc = "effects", !.todo = x].pc = "effects"
               /\ [handler[h] EXCEPT !.pc = "hung"].pc = "hung"
    BY <1>1 DEF HandlerType
  <2>. QED  BY <1>2, <1>3, <1>5, <1>12, <2>1 DEF PutSaves, PutHangs, PhaseOneCommits
<1>13. CASE LocksManifest(h)
  BY <1>2, <1>13 DEF LocksManifest
<1>14. CASE CountsReceived(h)
  <2>1. handler'[h] = [handler[h] EXCEPT !.pc = "commit", !.seen = BooksSeen]
    BY <1>2, <1>14 DEF CountsReceived
  <2>2. handler'[h].todo = handler[h].todo
    BY <1>1, <2>1 DEF HandlerType
  <2>3. Part(h)' = Part(h)
    BY <2>2 DEF Part
  <2>. QED  BY <1>2, <1>4, <1>14, <2>3 DEF CountsReceived, Departing
<1>15. CASE PutCommits(h) \/ PutRollsBack(h) \/ PhaseTwoPart(h) \/ StaffReplaced(h) \/ Fails(h)
  <2>1. handler'[h].pc # "commit"
    BY <1>2, <1>3, <1>15 DEF PutCommits, PutRollsBack, PhaseTwoPart, StaffReplaced, Fails
  <2>. QED  BY <1>5, <2>1
<1>. QED
  BY <1>6, <1>7, <1>8, <1>9, <1>10, <1>11, <1>12, <1>13, <1>14, <1>15 DEF Starts, Proceeds

\* A handler takes the manifest lock when it is free, releases its own, and
\* leaves the lock of another one alone.
LEMMA ManifestLockStep ==
  ASSUME NEW h \in Handlers, Starts(h) \/ Proceeds(h) \/ Fails(h),
         NEW g \in Handlers \ {h}, manifestLock = g
  PROVE  manifestLock' = g /\ ~LocksManifest(h) /\ (ReadyToCommit(h) => Part(h) = {})
<1>1. g # None /\ h # None
  BY HandlersAssumption
<1>2. ~LocksManifest(h)
  BY <1>1 DEF LocksManifest
<1>3. ReadyToCommit(h) => Part(h) = {}
  BY <1>1 DEF ReadyToCommit, LockFree
<1>4. EndTransaction(h) => manifestLock' = g
  BY DEF EndTransaction, Released
<1>5. manifestLock' = g
  <2>1. CASE PutHangs(h)
    BY <1>3, <2>1 DEF PutHangs
  <2>2. CASE PutCommits(h) \/ PutRollsBack(h) \/ PhaseTwoPart(h) \/ Fails(h)
    BY <1>4, <2>2 DEF PutCommits, PutRollsBack, PhaseTwoPart, Fails
  <2>3. CASE UNCHANGED manifestLock
    BY <2>3
  <2>4. CASE Starts(h)
    BY <2>3, <2>4 DEF Starts, PutReads, RosterEdited, StaffReads
  <2>. QED
    BY <1>2, <2>1, <2>2, <2>3, <2>4
       DEF Proceeds, CronStarts, CronQueries, CronReads, SyncReads, SyncSaves, AssertsRations,
           Finds, PutSaves, PhaseOneCommits, CountsReceived, StaffReplaced
<1>. QED  BY <1>2, <1>3, <1>5

\* One step of a handler keeps the invariant.
LEMMA HandlerKeepsInvariant ==
  ASSUME IInv, NEW h \in Handlers, Starts(h) \/ Proceeds(h) \/ Fails(h)
  PROVE  DepartureUpToDate' /\ DebitedAtMostOnce'
<1>1. TypeOK
  BY DEF IInv
<1>2. DebitedAtMostOnce'
  BY BooksStep, BooksAfterCounts DEF IInv, DebitedAtMostOnce, ReadyToCommit
<1>3. ASSUME NEW g \in Handlers, Departing(g)'
      PROVE  /\ manifestLock' = g
             /\ handler'[g].seen.rations = books'.rations /\ handler'[g].seen.sent = books'.sent
  <2>1. CASE g = h
    <3>1. LocksManifest(h)
      BY <1>1, <1>3, <2>1, HandlersStep
    <3>2. handler'[h] = [handler[h] EXCEPT !.pc = "commit", !.seen = BooksSeen]
      BY <1>1, <3>1 DEF LocksManifest, Become, TypeOK
    <3>3. handler'[h].seen = BooksSeen
      BY <1>1, <3>2 DEF TypeOK, HandlerType
    <3>. QED  BY <2>1, <3>1, <3>3 DEF LocksManifest, BooksSeen
  <2>2. CASE g # h
    <3>1. handler'[g] = handler[g]
      BY <1>1, <2>2, HandlersStep
    <3>2. Departing(g)
      BY <1>3, <3>1 DEF Departing, At, Part
    <3>3. /\ manifestLock = g
          /\ handler[g].seen.rations = books.rations /\ handler[g].seen.sent = books.sent
      BY <3>2 DEF IInv, DepartureUpToDate
    <3>4. manifestLock' = g /\ (ReadyToCommit(h) => Part(h) = {})
      BY <2>2, <3>3, ManifestLockStep
    <3>5. books'.rations = books.rations /\ books'.sent = books.sent
      BY <3>4, BooksStep, BooksAfterCounts DEF ReadyToCommit
    <3>. QED  BY <3>1, <3>3, <3>4, <3>5
  <2>. QED  BY <2>1, <2>2
<1>. QED  BY <1>2, <1>3 DEF DepartureUpToDate

\* The invariant holds at first and every step keeps it.
LEMMA InvariantInductive ==
  /\ Init => IInv
  /\ IInv /\ [Next]_vars => IInv'
<1>1. Init => IInv
  BY InitType DEF Init, IInv, DepartureUpToDate, Departing, At, DebitedAtMostOnce, Rest
<1>2. ASSUME IInv, [Next]_vars PROVE IInv'
  <2>1. TypeOK'
    BY <1>2, NextType DEF IInv
  <2>2. CASE \E h \in Handlers : Starts(h) \/ Proceeds(h) \/ Fails(h)
    BY <1>2, <2>1, <2>2, HandlerKeepsInvariant DEF IInv
  <2>3. CASE Crashes
    BY <1>2, <2>1, <2>3
       DEF Crashes, IInv, DepartureUpToDate, Departing, At, DebitedAtMostOnce, Rest
  <2>4. CASE Tick \/ UNCHANGED vars
    BY <1>2, <2>1, <2>4
       DEF Tick, vars, IInv, DepartureUpToDate, Departing, At, Part, DebitedAtMostOnce
  <2>. QED  BY <1>2, <2>2, <2>3, <2>4 DEF Next
<1>. QED  BY <1>1, <1>2

\* However many requests and scheduled runs act on a transfer, whichever fail
\* and wherever the process stops, the supplier camp is debited once.
THEOREM DebitOnce == Spec => []DebitedAtMostOnce
<1>1. IInv => DebitedAtMostOnce
  BY DEF IInv
<1>. QED  BY <1>1, InvariantInductive, PTL DEF Spec

\* What a departure has counted is up to date when it commits.
THEOREM DepartureSees == Spec => []DepartureUpToDate
<1>1. IInv => DepartureUpToDate
  BY DEF IInv
<1>. QED  BY <1>1, InvariantInductive, PTL DEF Spec


-----------------------------------------------------------------------------
(* Handlers that run one by one.                                           *)
(*                                                                         *)
(* A handler that is alone leaves the books fit for the status it has      *)
(* written: what it has read of the row and counted of the movements is    *)
(* still so when it is used.  Nothing else can be said of a put that hangs,*)
(* after which nobody starts.                                              *)

\* Requests and runs do not overlap, no statement fails, the server does not stop
\* half-way, and the history takes what it is given.
OneByOne == ~MayOverlap /\ ~MayFail /\ ~MayCrash /\ HistoryAcceptsInTransit

\* The books b before a departure, and on the way.
Home(b) == /\ b.manifest = "CONFIRMED" /\ b.status = "ACTIVE"
           /\ b.rations = 0 /\ b.sent = 0 /\ b.goods = InitialGoods

Away(b) == /\ b.manifest = "IN_TRANSIT" /\ b.status = "OUTSIDE_CAMP"
           /\ b.rations = 1 /\ (InitialGoods > 0 => b.sent > 0)

\* The books of a transfer with this status.  One that was put back is still on its
\* way for them.
Fits(b, status) ==
    /\ status \in {Pending, Transit} => /\ b.camp = "supplier" /\ b.received = 0
                                        /\ Away(b) \/ (status = Pending /\ Home(b))
    /\ status = Done => /\ b.manifest = "DELIVERED" /\ b.status = "ACTIVE" /\ b.camp = "recipient"
                        /\ b.received = 1 /\ b.rations = 1 /\ (InitialGoods > 0 => b.sent > 0)
    /\ status = Canceled => /\ b.manifest = "CANCELED" /\ b.status = "ACTIVE"
                            /\ b.camp = "supplier" /\ b.received = 0

Kept(status) == books.logged = status /\ Fits(books, status)

\* What a request has read, asserted and planned.
Answering(h) ==
    LET me == handler[h]
    IN  /\ me.pc \in {"check", "sync", "assert", "begin", "save", "effects", "commit", "hung"}
        /\ me.pc # "hung" =>
               Kept(row.status) /\ me.existing = row.status /\ row.status \notin Final
        /\ me.pc = "sync" => me.entity = row
        /\ me.pc \in {"save", "effects", "commit"} => me.entity = Assigned(row, me.status, me.plan)
        /\ me.pc \in {"effects", "commit"} => /\ me.todo = Work(me.existing, me.entity.status)
                                              /\ rowLock = h \/ me.entity = row
        /\ me.pc = "commit" => me.seen = BooksSeen
        /\ me.pc \in {"begin", "save", "effects", "commit"} /\ LeavesCamp(me.existing, me.status) =>
               RationsAvailable(row.rations)

\* What a scheduled run has found due.  Its first query leaves no transfer pending that
\* its third one would find.
Running(h) ==
    LET me == handler[h]
    IN  /\ me.pc \in {"query", "read", "begin", "save", "effects", "commit"}
        /\ me.stage \in 1..3
        /\ me.pc \in {"query", "read", "begin", "save"} => Kept(row.status) /\ me.plan = Keep
        /\ me.pc = "query" /\ me.stage > 1 /\ row.status = Pending => Departs[row.plan] > me.at
        /\ me.pc \in {"read", "begin", "save"} =>
               \/ me.status = Transit /\ row.status = Pending
               \/ me.status = Done /\ row.status = Transit
        /\ me.pc \in {"begin", "save"} => me.existing = row.status
        /\ me.pc = "save" => me.entity = Assigned(row, me.status, Keep)
        /\ me.pc \in {"effects", "commit"} =>
               /\ Kept(me.existing) /\ me.entity.status = row.status
               /\ \/ me.existing = Pending /\ row.status = Transit /\ me.todo = {"depart"}
                  \/ me.existing = Transit /\ row.status = Done /\ me.todo = {"arrive"}
        /\ me.pc = "commit" => me.seen = BooksSeen

\* An edit of the manifest changes no status.
Editing(h) ==
    LET me == handler[h]
    IN  /\ Kept(row.status)
        /\ me.pc \in {"check", "sync", "replace"}
        /\ me.pc = "sync" => me.entity = row

Orderly(h) == /\ KindOf[h] = "put" => Answering(h)
              /\ KindOf[h] = "cron" => Running(h)
              /\ KindOf[h] \in {"roster", "staff"} => Editing(h)

Serial ==
    \/ Quiet /\ Kept(row.status)
    \/ \E h \in Handlers : /\ ~At(h, "idle") /\ Orderly(h)
                           /\ \A g \in Handlers \ {h} : At(g, "idle")

-----------------------------------------------------------------------------
(* What the effects of a change of status make of the books.               *)

LEMMA DepartIs ==
  ASSUME NEW b \in BooksType, NEW seen \in SeenType, NEW rations \in Int,
         seen.rations = b.rations, seen.sent = b.sent,
         NEW d, d = Depart(b, seen, rations)
  PROVE  /\ d \in BooksType /\ d.status = "OUTSIDE_CAMP"
         /\ d.camp = b.camp /\ d.received = b.received /\ d.logged = b.logged
         /\ d.manifest = IF b.manifest = "CONFIRMED" THEN "IN_TRANSIT" ELSE b.manifest
         /\ d.rations = IF b.rations = 0 THEN 1 ELSE b.rations
         /\ d.food = IF b.rations = 0 THEN b.food - rations ELSE b.food
         /\ d.sent = IF b.sent = 0 /\ b.goods > 0 THEN 1 ELSE b.sent
<1>. DEFINE ration == IF seen.rations = 0 THEN 1 ELSE 0
            amount == IF b.goods < Requested THEN b.goods ELSE Requested
            send   == IF seen.sent = 0 /\ amount > 0 THEN 1 ELSE 0
<1>1. /\ b.goods \in Nat /\ b.food \in Int /\ b.rations \in Nat /\ b.sent \in Nat
      /\ Requested \in Nat /\ Requested > 0
  BY AmountsAssumption DEF BooksType
<1>2. d = [b EXCEPT !.manifest = IF b.manifest = "CONFIRMED" THEN "IN_TRANSIT" ELSE b.manifest,
                    !.status = "OUTSIDE_CAMP",
                    !.delivered = TRUE,
                    !.rations = b.rations + ration,
                    !.food = IF ration = 1 THEN b.food - rations ELSE b.food,
                    !.sent = b.sent + send,
                    !.goods = IF send = 1 THEN b.goods - amount ELSE b.goods]
  BY DEF Depart
<1>3. d \in BooksType
  <2>1. /\ Apply(b, {"depart"}, seen, rations) = Depart(b, seen, rations)
    BY DEF Apply
  <2>2. Apply(b, {"depart"}, seen, rations) \in BooksType
    BY ApplyType
  <2>. QED  BY <2>1, <2>2
<1>4. b.rations + ration = IF b.rations = 0 THEN 1 ELSE b.rations
  BY <1>1
<1>5. b.sent + send = IF b.sent = 0 /\ b.goods > 0 THEN 1 ELSE b.sent
  BY <1>1
<1>6. (IF ration = 1 THEN b.food - rations ELSE b.food) = IF b.rations = 0 THEN b.food - rations ELSE b.food
  OBVIOUS
<1>. HIDE DEF ration, amount, send
<1>. QED  BY <1>2, <1>3, <1>4, <1>5, <1>6 DEF BooksType

LEMMA ArriveIs ==
  ASSUME NEW b \in BooksType, NEW seen \in SeenType, seen.received = b.received,
         NEW d, d = Arrive(b, seen)
  PROVE  /\ d \in BooksType /\ d.status = "ACTIVE" /\ d.camp = "recipient"
         /\ d.rations = b.rations /\ d.sent = b.sent /\ d.food = b.food /\ d.logged = b.logged
         /\ d.manifest = IF b.manifest = "CANCELED" THEN "CANCELED" ELSE "DELIVERED"
         /\ d.received = IF b.received = 0 THEN 1 ELSE b.received
<1>. DEFINE receive == IF seen.received = 0 THEN 1 ELSE 0
<1>1. b.received \in Nat /\ b.received + receive = IF b.received = 0 THEN 1 ELSE b.received
  BY DEF BooksType
<1>2. d = [b EXCEPT !.manifest = IF b.manifest = "CANCELED" THEN b.manifest ELSE "DELIVERED",
                    !.status = "ACTIVE",
                    !.camp = "recipient",
                    !.delivered = TRUE,
                    !.received = b.received + receive,
                    !.arrived = IF receive = 1 THEN b.arrived + Requested ELSE b.arrived]
  BY DEF Arrive
<1>3. d \in BooksType
  <2>1. /\ Apply(b, {"arrive"}, seen, 0) = Arrive(b, seen)
    BY DEF Apply
  <2>2. Apply(b, {"arrive"}, seen, 0) \in BooksType
    BY ApplyType
  <2>. QED  BY <2>1, <2>2
<1>. HIDE DEF receive
<1>. QED  BY <1>1, <1>2, <1>3 DEF BooksType

LEMMA CancelIs ==
  ASSUME NEW b \in BooksType, NEW d, d = Cancel(b)
  PROVE  /\ d \in BooksType /\ d.status = "ACTIVE" /\ d.camp = b.camp /\ d.received = b.received
         /\ d.rations = b.rations /\ d.sent = b.sent /\ d.food = b.food /\ d.logged = b.logged
         /\ d.manifest = IF b.manifest = "DELIVERED" THEN "DELIVERED" ELSE "CANCELED"
BY DEF Cancel, BooksType

\* The effects of each change of status, of a transfer that is not over.
LEMMA WorkIs ==
  /\ \A s : Work(s, s) = {}
  /\ Work(Pending, Transit) = {"depart"} /\ Work(Pending, Done) = {"depart", "arrive"}
  /\ Work(Pending, Canceled) = {"cancel"} /\ Work(Transit, Pending) = {}
  /\ Work(Transit, Done) = {"arrive"} /\ Work(Transit, Canceled) = {"cancel"}
BY DEF Work, LeavesCamp, Effects, Pending, Transit, Done, Canceled

\* Books that fit a status fit the next one once its effects are applied; what the
\* recipient is credited and the supplier debited is told by the statuses.
LEMMA EffectsFit ==
  ASSUME NEW b \in BooksType, NEW from \in {Pending, Transit}, NEW to \in Statuses, Fits(b, from),
         NEW seen \in SeenType, seen.rations = b.rations, seen.sent = b.sent,
         seen.received = b.received, NEW rations \in Int,
         NEW c, c = Apply(b, Work(from, to), seen, rations)
  PROVE  /\ c \in BooksType /\ Fits(c, to) /\ c.logged = b.logged
         /\ to \notin {Transit, Done} => c.rations = b.rations /\ c.sent = b.sent
         /\ Work(from, to) = {} => c = b
<1>. USE DEF Pending, Transit, Done, Canceled
<1>1. c \in BooksType
  BY ApplyType
<1>2. CASE Work(from, to) = {}
  <2>1. c = b
    BY <1>2 DEF Apply
  <2>2. to = from \/ (from = Transit /\ to = Pending)
    BY <1>2, WorkIs DEF Statuses
  <2>. QED  BY <1>1, <2>1, <2>2 DEF Fits
<1>3. CASE Work(from, to) = {"depart"}
  <2>1. from = Pending /\ to = Transit
    BY <1>3, WorkIs DEF Statuses
  <2>2. c = Depart(b, seen, rations)
    BY <1>3 DEF Apply
  <2>3. b.goods \in Nat /\ b.sent \in Nat /\ InitialGoods \in Nat
    BY AmountsAssumption DEF BooksType
  <2>. QED  BY <1>1, <1>3, <2>1, <2>2, <2>3, DepartIs DEF Fits, Home, Away
<1>4. CASE Work(from, to) = {"depart", "arrive"}
  <2>1. from = Pending /\ to = Done
    BY <1>4, WorkIs DEF Statuses
  <2>2. PICK d : d = Depart(b, seen, rations)
    OBVIOUS
  <2>3. c = Arrive(d, seen)
    BY <1>4, <2>2 DEF Apply
  <2>4. b.goods \in Nat /\ b.sent \in Nat /\ InitialGoods \in Nat
    BY AmountsAssumption DEF BooksType
  <2>5. /\ d \in BooksType /\ d.received = 0 /\ d.logged = b.logged /\ Away(d)
    BY <2>1, <2>2, <2>4, DepartIs DEF Fits, Home, Away
  <2>6. b.received = 0
    BY DEF Fits
  <2>. QED  BY <1>1, <1>4, <2>1, <2>3, <2>5, <2>6, ArriveIs DEF Fits, Away
<1>5. CASE Work(from, to) = {"arrive"}
  <2>1. from = Transit /\ to = Done
    BY <1>5, WorkIs DEF Statuses
  <2>2. c = Arrive(b, seen)
    BY <1>5 DEF Apply
  <2>. QED  BY <1>1, <1>5, <2>1, <2>2, ArriveIs DEF Fits, Away
<1>6. CASE Work(from, to) = {"cancel"}
  <2>1. to = Canceled
    BY <1>6, WorkIs DEF Statuses
  <2>2. c = Cancel(b)
    BY <1>6 DEF Apply
  <2>. QED  BY <1>1, <1>6, <2>1, <2>2, CancelIs DEF Fits, Home, Away
<1>. QED  BY <1>2, <1>3, <1>4, <1>5, <1>6, WorkIs DEF Statuses


-----------------------------------------------------------------------------
(* The steps of a handler that is alone.                                   *)

\* The record a handler goes on with, field by field.
LEMMA LocalStep ==
  ASSUME TypeOK, NEW h \in Handlers, NEW next, Become(h, next)
  PROVE  handler'[h] = next /\ \A g \in Handlers \ {h} : handler'[g] = handler[g]
BY DEF TypeOK, Become

LEMMA HandlerIs ==
  ASSUME TypeOK, NEW h \in Handlers
  PROVE  handler[h] = [pc |-> handler[h].pc, stage |-> handler[h].stage, at |-> handler[h].at,
                       status |-> handler[h].status, plan |-> handler[h].plan,
                       existing |-> handler[h].existing, entity |-> handler[h].entity,
                       seen |-> handler[h].seen, todo |-> handler[h].todo]
<1>1. handler[h] \in HandlerType
  BY DEF TypeOK
<1>. QED  BY <1>1 DEF HandlerType

\* A handler that has seen what the books say commits the effects of its change of
\* status with the entry of the history.
LEMMA Commits ==
  ASSUME TypeOK, OneByOne, NEW h \in Handlers, At(h, "commit"),
         handler[h].seen = BooksSeen,
         NEW from \in {Pending, Transit}, handler[h].existing = from,
         NEW to \in Statuses, handler[h].entity.status = to,
         Kept(from), handler[h].todo = Work(from, to),
         Part(h) = handler[h].todo
  PROVE  /\ Succeeds(h)
         /\ BooksAfter(h).logged = to /\ Fits(BooksAfter(h), to)
         /\ to \notin {Transit, Done} => /\ BooksAfter(h).rations = books.rations
                                         /\ BooksAfter(h).sent = books.sent
         /\ to = from => BooksAfter(h) = books
<1>1. /\ books \in BooksType /\ row.rations \in Int /\ handler[h].seen \in SeenType
      /\ handler[h].seen.rations = books.rations /\ handler[h].seen.sent = books.sent
      /\ handler[h].seen.received = books.received /\ handler[h].seen.delivered = books.delivered
  BY DEF TypeOK, RowType, HandlerType, BooksSeen
<1>2. Succeeds(h)
  BY <1>1 DEF Succeeds, DuplicateDelivered, HistoryAccepted, OneByOne
<1>3. PICK c : c = Apply(books, Work(from, to), handler[h].seen, row.rations)
  OBVIOUS
<1>4. /\ c \in BooksType /\ Fits(c, to) /\ c.logged = books.logged
      /\ to \notin {Transit, Done} => c.rations = books.rations /\ c.sent = books.sent
      /\ Work(from, to) = {} => c = books
  BY <1>1, <1>3, EffectsFit DEF Kept
<1>5. Logs(h) <=> to # from
  BY DEF Logs
<1>6. CASE to = from
  <2>1. BooksAfter(h) = c /\ c = books
    BY <1>3, <1>4, <1>5, <1>6, WorkIs DEF BooksAfter
  <2>. QED  BY <1>2, <1>4, <1>6, <2>1 DEF Kept
<1>7. CASE to # from
  <2>1. PICK d : d = [c EXCEPT !.logged = to]
    OBVIOUS
  <2>2. BooksAfter(h) = d
    BY <1>3, <1>5, <1>7, <2>1 DEF BooksAfter
  <2>3. /\ d.logged = to /\ d.manifest = c.manifest /\ d.status = c.status /\ d.camp = c.camp
        /\ d.rations = c.rations /\ d.sent = c.sent /\ d.received = c.received /\ d.goods = c.goods
    BY <1>4, <2>1 DEF BooksType
  <2>4. Fits(d, to)
    BY <1>4, <2>3 DEF Fits, Home, Away
  <2>. QED  BY <1>2, <1>4, <1>7, <2>2, <2>3, <2>4
<1>. QED  BY <1>6, <1>7


\* Synchronising keeps status and plan.
LEMMA SyncedIs ==
  ASSUME NEW e \in RowType
  PROVE  SyncedRow(e).status = e.status /\ SyncedRow(e).plan = e.plan
BY DEF SyncedRow, RowType

\* The status a request writes is the one it was sent with, or the one it found.
LEMMA AssignedIs ==
  ASSUME NEW e \in RowType, NEW status, NEW plan
  PROVE  /\ Assigned(e, status, plan).status = IF status = Keep THEN e.status ELSE status
         /\ Assigned(e, status, plan).plan = IF plan = Keep THEN e.plan ELSE plan
BY DEF Assigned, RowType

LEMMA AnsweringStep ==
  ASSUME TypeOK, OneByOne, NEW h \in Handlers, KindOf[h] = "put", Answering(h),
         Proceeds(h) \/ Fails(h)
  PROVE  \/ ~At(h, "idle")' /\ Answering(h)'
         \/ At(h, "idle")' /\ Kept(row.status)'
<1>. DEFINE me == handler[h]
<1>1. /\ me \in HandlerType /\ row \in RowType /\ row.status \in Statuses
      /\ me.status \in Statuses \cup {Keep}
  BY DEF TypeOK, HandlerType, RowType
<1>2. Rest.pc = "idle"
  BY DEF Rest
<1>3. CASE SyncReads(h)
  <2>1. PICK next : next = [me EXCEPT !.pc = "sync", !.entity = row]
    OBVIOUS
  <2>2. handler'[h] = next /\ UNCHANGED <<row, books, rowLock>> /\ me.pc = "check"
    BY <1>3, <2>1, LocalStep DEF SyncReads, At
  <2>3. next.pc = "sync" /\ next.entity = row /\ next.existing = me.existing
    BY <2>1, HandlerIs
  <2>4. Kept(row.status) /\ me.existing = row.status /\ row.status \notin Final
    BY <2>2 DEF Answering
  <2>. QED  BY <2>2, <2>3, <2>4 DEF Answering, At, Kept
<1>4. CASE SyncSaves(h)
  <2>1. PICK next : next = [me EXCEPT !.pc = "assert", !.entity = BlankRow]
    OBVIOUS
  <2>2. handler'[h] = next /\ row' = SyncedRow(me.entity) /\ UNCHANGED <<books, rowLock>>
        /\ me.pc = "sync"
    BY <1>4, <2>1, LocalStep DEF SyncSaves, At
  <2>3. next.pc = "assert" /\ next.existing = me.existing
    BY <2>1, HandlerIs
  <2>4. Kept(row.status) /\ me.existing = row.status /\ row.status \notin Final /\ me.entity = row
    BY <2>2 DEF Answering
  <2>5. row'.status = row.status
    BY <1>1, <2>2, <2>4, SyncedIs
  <2>. QED  BY <2>2, <2>3, <2>4, <2>5 DEF Answering, At, Kept
<1>5. CASE AssertsRations(h)
  <2>0. UNCHANGED <<row, books, rowLock>> /\ me.pc = "assert"
    BY <1>5 DEF AssertsRations, At
  <2>1. Kept(row.status) /\ me.existing = row.status /\ row.status \notin Final
    BY <2>0 DEF Answering
  <2>2. CASE RationsAvailable(row.rations)
    <3>1. PICK next : next = [me EXCEPT !.pc = "begin"]
      OBVIOUS
    <3>2. handler'[h] = next
      BY <1>5, <2>2, <3>1, LocalStep DEF AssertsRations
    <3>3. next.pc = "begin" /\ next.existing = me.existing /\ next.status = me.status
      BY <3>1, HandlerIs
    <3>. QED  BY <2>0, <2>1, <2>2, <3>2, <3>3 DEF Answering, At, Kept, RationsAvailable
  <2>3. CASE ~RationsAvailable(row.rations)
    <3>1. handler'[h] = Rest
      BY <1>5, <2>3, LocalStep DEF AssertsRations
    <3>. QED  BY <1>2, <2>0, <2>1, <3>1 DEF At, Kept
  <2>. QED  BY <2>2, <2>3
<1>6. CASE Finds(h)
  <2>1. PICK next : next = [me EXCEPT !.pc = "save", !.entity = Assigned(row, me.status, me.plan)]
    OBVIOUS
  <2>2. handler'[h] = next /\ UNCHANGED <<row, books, rowLock>> /\ me.pc = "begin"
    BY <1>6, <2>1, LocalStep DEF Finds, At
  <2>3. /\ next.pc = "save" /\ next.entity = Assigned(row, me.status, me.plan)
        /\ next.existing = me.existing /\ next.status = me.status /\ next.plan = me.plan
    BY <2>1, HandlerIs
  <2>4. /\ Kept(row.status) /\ me.existing = row.status /\ row.status \notin Final
        /\ LeavesCamp(me.existing, me.status) => RationsAvailable(row.rations)
    BY <2>2 DEF Answering
  <2>. QED  BY <2>2, <2>3, <2>4 DEF Answering, At, Kept, RationsAvailable
<1>7. CASE PutSaves(h)
  <2>1. PICK next : next = [me EXCEPT !.pc = "effects", !.todo = Work(me.existing, me.entity.status)]
    OBVIOUS
  <2>2. /\ handler'[h] = next /\ UNCHANGED <<row, books>> /\ me.pc = "save"
        /\ rowLock' = h \/ me.entity = row
    BY <1>7, <2>1, LocalStep DEF PutSaves, At
  <2>3. /\ next.pc = "effects" /\ next.entity = me.entity /\ next.todo = Work(me.existing, me.entity.status)
        /\ next.existing = me.existing /\ next.status = me.status /\ next.plan = me.plan
    BY <2>1, HandlerIs
  <2>4. /\ Kept(row.status) /\ me.existing = row.status /\ row.status \notin Final
        /\ LeavesCamp(me.existing, me.status) => RationsAvailable(row.rations)
        /\ me.entity = Assigned(row, me.status, me.plan)
    BY <2>2 DEF Answering
  <2>. QED  BY <2>2, <2>3, <2>4 DEF Answering, At, Kept, RationsAvailable
<1>8. CASE LocksManifest(h) \/ CountsReceived(h)
  <2>1. PICK next : next = [me EXCEPT !.pc = "commit", !.seen = BooksSeen]
    OBVIOUS
  <2>2. handler'[h] = next /\ UNCHANGED <<row, books, rowLock>> /\ me.pc = "effects"
    BY <1>8, <2>1, LocalStep DEF LocksManifest, CountsReceived, At
  <2>3. /\ next.pc = "commit" /\ next.entity = me.entity /\ next.todo = me.todo /\ next.seen = BooksSeen
        /\ next.existing = me.existing /\ next.status = me.status /\ next.plan = me.plan
    BY <2>1, HandlerIs
  <2>4. /\ Kept(row.status) /\ me.existing = row.status /\ row.status \notin Final
        /\ LeavesCamp(me.existing, me.status) => RationsAvailable(row.rations)
        /\ me.entity = Assigned(row, me.status, me.plan)
        /\ me.todo = Work(me.existing, me.entity.status) /\ (rowLock = h \/ me.entity = row)
    BY <2>2 DEF Answering
  <2>5. BooksSeen' = BooksSeen
    BY <2>2 DEF BooksSeen
  <2>. QED  BY <2>2, <2>3, <2>4, <2>5 DEF Answering, At, Kept, RationsAvailable
<1>9. CASE PutHangs(h)
  <2>1. PICK next : next = [me EXCEPT !.pc = "hung"]
    OBVIOUS
  <2>2. handler'[h] = next
    BY <1>9, <2>1, LocalStep DEF PutHangs
  <2>3. next.pc = "hung"
    BY <2>1, HandlerIs
  <2>. QED  BY <2>2, <2>3 DEF Answering, At
<1>10. CASE PutRollsBack(h)
  <2>1. handler'[h] = Rest /\ UNCHANGED <<row, books>> /\ me.pc = "commit"
    BY <1>10, LocalStep DEF PutRollsBack, ReadyToCommit, At
  <2>2. Kept(row.status)
    BY <2>1 DEF Answering
  <2>. QED  BY <1>2, <2>1, <2>2 DEF At, Kept
<1>11. CASE PutCommits(h)
  <2>1. /\ handler'[h] = Rest /\ me.pc = "commit" /\ books' = BooksAfter(h)
        /\ row' = IF rowLock = h THEN me.entity ELSE SyncedRow(row)
    BY <1>11, LocalStep DEF PutCommits, ReadyToCommit, At
  <2>2. /\ Kept(row.status) /\ me.existing = row.status /\ row.status \notin Final
        /\ me.seen = BooksSeen /\ me.todo = Work(me.existing, me.entity.status)
        /\ rowLock = h \/ me.entity = row
    BY <2>1 DEF Answering
  <2>3. row'.status = me.entity.status
    BY <1>1, <2>1, <2>2, SyncedIs
  <2>4. PICK from \in {Pending, Transit} : from = row.status
    BY <1>1, <2>2 DEF Statuses, Final
  <2>5. PICK to \in Statuses : to = me.entity.status
    BY <1>1 DEF HandlerType, RowType
  <2>6. BooksAfter(h).logged = to /\ Fits(BooksAfter(h), to)
    BY <2>1, <2>2, <2>4, <2>5, Commits DEF Part, At
  <2>. QED  BY <1>2, <2>1, <2>3, <2>5, <2>6 DEF At, Kept
<1>. QED
  BY <1>3, <1>4, <1>5, <1>6, <1>7, <1>8, <1>9, <1>10, <1>11
     DEF Proceeds, CronStarts, CronQueries, CronReads, PhaseOneCommits, PhaseTwoPart, StaffReplaced,
         Fails, OneByOne, Answering, At


\* A run goes on to its next query, or ends.
LEMMA NextQueryRuns ==
  ASSUME TypeOK, NEW h \in Handlers, handler[h].stage \in 1..3, handler'[h] = NextQuery(h),
         Kept(row.status)',
         handler[h].stage < 3 /\ row'.status = Pending => Departs[row'.plan] > handler[h].at
  PROVE  \/ ~At(h, "idle")' /\ Running(h)'
         \/ At(h, "idle")' /\ Kept(row.status)'
<1>1. CASE handler[h].stage = 3
  <2>1. handler'[h].pc = "idle"
    BY <1>1 DEF NextQuery, Rest
  <2>. QED  BY <2>1 DEF At
<1>2. CASE handler[h].stage # 3
  <2>1. PICK next : next = [Rest EXCEPT !.pc = "query", !.stage = handler[h].stage + 1,
                                        !.at = handler[h].at]
    OBVIOUS
  <2>2. handler'[h] = next
    BY <1>2, <2>1 DEF NextQuery
  <2>3. /\ next.pc = "query" /\ next.stage = handler[h].stage + 1 /\ next.at = handler[h].at
        /\ next.plan = Keep
    BY <2>1 DEF Rest
  <2>4. next.stage \in 1..3 /\ handler[h].stage < 3
    BY <1>2, <2>3
  <2>. QED  BY <2>2, <2>3, <2>4 DEF Running, At
<1>. QED  BY <1>1, <1>2

LEMMA RunningStep ==
  ASSUME TypeOK, OneByOne, NEW h \in Handlers, KindOf[h] = "cron", Running(h),
         Proceeds(h) \/ Fails(h)
  PROVE  \/ ~At(h, "idle")' /\ Running(h)'
         \/ At(h, "idle")' /\ Kept(row.status)'
<1>. DEFINE me == handler[h]
<1>1. /\ me \in HandlerType /\ row \in RowType /\ row.status \in Statuses
      /\ me.stage \in 1..3 /\ row.plan \in Plans /\ me.at \in Nat
      /\ Departs[row.plan] \in Nat /\ Arrives[row.plan] \in Nat /\ Departs[row.plan] < Arrives[row.plan]
  BY PlansAssumption DEF TypeOK, HandlerType, RowType, Running
<1>2. Transit # Pending /\ Done # Pending /\ Done # Transit /\ Keep # Transit /\ Keep # Done
  BY DEF Transit, Done, Pending, Keep
<1>3. CASE CronQueries(h)
  <2>1. me.pc = "query" /\ UNCHANGED <<row, books, rowLock>>
    BY <1>3 DEF CronQueries, At
  <2>2. /\ Kept(row.status) /\ me.plan = Keep
        /\ me.stage > 1 /\ row.status = Pending => Departs[row.plan] > me.at
    BY <2>1 DEF Running
  <2>3. CASE Due(me.stage, me.at)
    <3>1. PICK next : next = [me EXCEPT !.pc = "read",
                                        !.status = IF me.stage = 1 THEN Transit ELSE Done]
      OBVIOUS
    <3>2. handler'[h] = next
      BY <1>3, <2>3, <3>1, LocalStep DEF CronQueries
    <3>3. /\ next.pc = "read" /\ next.stage = me.stage /\ next.plan = Keep
          /\ next.status = IF me.stage = 1 THEN Transit ELSE Done
      BY <2>2, <3>1, HandlerIs
    <3>4. \/ me.stage = 1 /\ row.status = Pending
          \/ me.stage = 2 /\ row.status = Transit
      BY <1>1, <2>2, <2>3 DEF Due
    <3>5. \/ next.status = Transit /\ row.status = Pending
          \/ next.status = Done /\ row.status = Transit
      BY <3>3, <3>4
    <3>. QED  BY <1>1, <2>1, <2>2, <3>2, <3>3, <3>5 DEF Running, At, Kept
  <2>4. CASE ~Due(me.stage, me.at)
    <3>1. handler'[h] = NextQuery(h)
      BY <1>3, <2>4, LocalStep DEF CronQueries
    <3>2. me.stage = 1 /\ row.status = Pending => Departs[row.plan] > me.at
      BY <1>1, <2>4 DEF Due
    <3>3. me.stage < 3 /\ row'.status = Pending => Departs[row'.plan] > me.at
      BY <1>1, <2>1, <2>2, <3>2
    <3>4. Kept(row.status)'
      BY <2>1, <2>2 DEF Kept
    <3>. QED  BY <1>1, <3>1, <3>3, <3>4, NextQueryRuns
  <2>. QED  BY <2>3, <2>4
<1>4. CASE CronReads(h)
  <2>1. me.pc = "read" /\ UNCHANGED <<row, books, rowLock>>
    BY <1>4 DEF CronReads, At
  <2>2. /\ Kept(row.status) /\ me.plan = Keep
        /\ \/ me.status = Transit /\ row.status = Pending
           \/ me.status = Done /\ row.status = Transit
    BY <2>1 DEF Running
  <2>3. Modifiable(row.status)
    BY <2>2 DEF Modifiable, Final, Pending, Transit, Done, Canceled
  <2>4. PICK next : next = [me EXCEPT !.pc = "begin", !.existing = row.status]
    OBVIOUS
  <2>5. handler'[h] = next
    BY <1>4, <2>3, <2>4, LocalStep DEF CronReads
  <2>6. /\ next.pc = "begin" /\ next.stage = me.stage /\ next.plan = me.plan
        /\ next.status = me.status /\ next.existing = row.status
    BY <2>4, HandlerIs
  <2>. QED  BY <1>1, <2>1, <2>2, <2>5, <2>6 DEF Running, At, Kept
<1>5. CASE Finds(h)
  <2>1. PICK next : next = [me EXCEPT !.pc = "save", !.entity = Assigned(row, me.status, me.plan)]
    OBVIOUS
  <2>2. handler'[h] = next /\ UNCHANGED <<row, books, rowLock>> /\ me.pc = "begin"
    BY <1>5, <2>1, LocalStep DEF Finds, At
  <2>3. /\ next.pc = "save" /\ next.entity = Assigned(row, me.status, me.plan) /\ next.stage = me.stage
        /\ next.existing = me.existing /\ next.status = me.status /\ next.plan = me.plan
    BY <2>1, HandlerIs
  <2>4. /\ Kept(row.status) /\ me.plan = Keep /\ me.existing = row.status
        /\ \/ me.status = Transit /\ row.status = Pending
           \/ me.status = Done /\ row.status = Transit
    BY <2>2 DEF Running
  <2>. QED  BY <1>1, <2>2, <2>3, <2>4 DEF Running, At, Kept
<1>6. CASE PhaseOneCommits(h)
  <2>1. me.pc = "save" /\ row' = me.entity /\ UNCHANGED books
    BY <1>6 DEF PhaseOneCommits, At
  <2>2. /\ Kept(row.status) /\ me.existing = row.status /\ me.entity = Assigned(row, me.status, Keep)
        /\ \/ me.status = Transit /\ row.status = Pending
           \/ me.status = Done /\ row.status = Transit
    BY <2>1 DEF Running
  <2>3. me.entity.status = me.status
    BY <1>1, <1>2, <2>2, AssignedIs
  <2>4. PICK todo : todo = Work(me.existing, me.entity.status)
    OBVIOUS
  <2>5. \/ me.existing = Pending /\ row'.status = Transit /\ todo = {"depart"}
        \/ me.existing = Transit /\ row'.status = Done /\ todo = {"arrive"}
    BY <2>1, <2>2, <2>3, <2>4, WorkIs
  <2>6. PICK next : next = [me EXCEPT !.pc = "effects", !.todo = todo]
    OBVIOUS
  <2>7. handler'[h] = next
    BY <1>6, <2>4, <2>5, <2>6, LocalStep DEF PhaseOneCommits
  <2>8. /\ next.pc = "effects" /\ next.stage = me.stage /\ next.todo = todo
        /\ next.existing = me.existing /\ next.entity = me.entity
    BY <2>6, HandlerIs
  <2>. QED  BY <1>1, <2>1, <2>2, <2>5, <2>7, <2>8 DEF Running, At, Kept
<1>7. CASE LocksManifest(h) \/ CountsReceived(h)
  <2>1. PICK next : next = [me EXCEPT !.pc = "commit", !.seen = BooksSeen]
    OBVIOUS
  <2>2. handler'[h] = next /\ UNCHANGED <<row, books, rowLock>> /\ me.pc = "effects"
    BY <1>7, <2>1, LocalStep DEF LocksManifest, CountsReceived, At
  <2>3. /\ next.pc = "commit" /\ next.stage = me.stage /\ next.todo = me.todo /\ next.seen = BooksSeen
        /\ next.existing = me.existing /\ next.entity = me.entity
    BY <2>1, HandlerIs
  <2>4. /\ Kept(me.existing) /\ me.entity.status = row.status
        /\ \/ me.existing = Pending /\ row.status = Transit /\ me.todo = {"depart"}
           \/ me.existing = Transit /\ row.status = Done /\ me.todo = {"arrive"}
    BY <2>2 DEF Running
  <2>5. BooksSeen' = BooksSeen
    BY <2>2 DEF BooksSeen
  <2>. QED  BY <1>1, <2>2, <2>3, <2>4, <2>5 DEF Running, At, Kept
<1>8. CASE PhaseTwoPart(h)
  <2>1. me.pc = "commit" /\ row' = row
    BY <1>8 DEF PhaseTwoPart, ReadyToCommit, At
  <2>2. /\ Kept(me.existing) /\ me.entity.status = row.status /\ me.seen = BooksSeen
        /\ \/ me.existing = Pending /\ row.status = Transit /\ me.todo = {"depart"}
           \/ me.existing = Transit /\ row.status = Done /\ me.todo = {"arrive"}
    BY <2>1 DEF Running
  <2>3. Part(h) = me.todo /\ me.todo = Work(me.existing, row.status) /\ row.status # Pending
    BY <1>2, <2>2, WorkIs DEF Part
  <2>4. /\ me.existing \in {Pending, Transit}
    BY <2>2
  <2>5. Succeeds(h) /\ BooksAfter(h).logged = row.status /\ Fits(BooksAfter(h), row.status)
    <3>1. PICK from \in {Pending, Transit} : from = me.existing
      BY <2>4
    <3>2. PICK to \in Statuses : to = row.status
      BY <1>1
    <3>. QED  BY <2>1, <2>2, <2>3, <3>1, <3>2, Commits DEF At
  <2>6. books' = BooksAfter(h)
    BY <1>8, <2>5 DEF PhaseTwoPart
  <2>7. Kept(row.status)'
    BY <2>1, <2>5, <2>6 DEF Kept
  <2>8. handler'[h] = NextQuery(h)
    <3>1. AfterPart(h) = NextQuery(h)
      BY <2>3 DEF AfterPart
    <3>. QED  BY <1>8, <3>1, LocalStep DEF PhaseTwoPart
  <2>. QED  BY <1>1, <2>1, <2>3, <2>7, <2>8, NextQueryRuns
<1>. QED
  BY <1>3, <1>4, <1>5, <1>6, <1>7, <1>8
     DEF Proceeds, CronStarts, MayStart, SyncReads, SyncSaves, AssertsRations, PutSaves, PutCommits, PutHangs,
         PutRollsBack, StaffReplaced, Fails, OneByOne, Running, At

LEMMA EditingStep ==
  ASSUME TypeOK, OneByOne, NEW h \in Handlers, KindOf[h] \in {"roster", "staff"}, Editing(h),
         Proceeds(h) \/ Fails(h)
  PROVE  \/ ~At(h, "idle")' /\ Editing(h)'
         \/ At(h, "idle")' /\ Kept(row.status)'
<1>. DEFINE me == handler[h]
<1>1. /\ me \in HandlerType /\ row \in RowType /\ Kept(row.status)
  BY DEF TypeOK, Editing
<1>2. Rest.pc = "idle"
  BY DEF Rest
<1>3. CASE SyncReads(h)
  <2>1. PICK next : next = [me EXCEPT !.pc = "sync", !.entity = row]
    OBVIOUS
  <2>2. handler'[h] = next /\ UNCHANGED <<row, books>>
    BY <1>3, <2>1, LocalStep DEF SyncReads
  <2>3. next.pc = "sync" /\ next.entity = row
    BY <2>1, HandlerIs
  <2>. QED  BY <1>1, <2>2, <2>3 DEF Editing, At, Kept
<1>4. CASE SyncSaves(h)
  <2>1. /\ handler'[h] = Rest /\ row' = SyncedRow(me.entity) /\ UNCHANGED books /\ me.pc = "sync"
    BY <1>4, LocalStep DEF SyncSaves, At
  <2>2. row'.status = row.status
    BY <1>1, <2>1, SyncedIs DEF Editing
  <2>. QED  BY <1>1, <1>2, <2>1, <2>2 DEF At, Kept
<1>5. CASE StaffReplaced(h)
  <2>1. handler'[h] = Rest /\ UNCHANGED books
    BY <1>5, LocalStep DEF StaffReplaced
  <2>2. row'.status = row.status
    BY <1>1, <1>5 DEF StaffReplaced, RowType
  <2>. QED  BY <1>1, <1>2, <2>1, <2>2 DEF At, Kept
<1>. QED
  BY <1>3, <1>4, <1>5
     DEF Proceeds, CronStarts, CronQueries, CronReads, AssertsRations, Finds, PutSaves,
         PhaseOneCommits, LocksManifest, CountsReceived, PutCommits, PutHangs, PutRollsBack,
         PhaseTwoPart, ReadyToCommit, Fails, OneByOne, Editing, At

\* A handler that starts where all is quiet.
LEMMA StartOrderly ==
  ASSUME TypeOK, NEW h \in Handlers, Kept(row.status), Starts(h) \/ CronStarts(h)
  PROVE  ~At(h, "idle")' /\ Orderly(h)'
<1>1. row.status \in Statuses
  BY DEF TypeOK, RowType
<1>2. CASE PutReads(h)
  <2>1. PICK s \in Statuses \cup {Keep}, p \in Replans \cup {Keep} :
           Become(h, [Rest EXCEPT !.pc = IF LeavesCamp(row.status, s) THEN "check" ELSE "begin",
                                  !.status = s, !.plan = p, !.existing = row.status])
    BY <1>2 DEF PutReads
  <2>2. PICK pc : pc = IF LeavesCamp(row.status, s) THEN "check" ELSE "begin"
    OBVIOUS
  <2>3. PICK next : next = [Rest EXCEPT !.pc = pc, !.status = s, !.plan = p, !.existing = row.status]
    OBVIOUS
  <2>4. handler'[h] = next
    BY <2>1, <2>2, <2>3, LocalStep
  <2>5. /\ next.pc = pc /\ next.status = s /\ next.existing = row.status
        /\ pc \in {"check", "begin"} /\ (pc = "begin" => ~LeavesCamp(row.status, s))
    BY <2>2, <2>3 DEF Rest
  <2>6. KindOf[h] = "put" /\ UNCHANGED <<row, books>> /\ row.status \notin Final
    BY <1>2 DEF PutReads, Modifiable
  <2>. QED  BY <2>4, <2>5, <2>6 DEF Orderly, Answering, At, Kept
<1>3. CASE RosterEdited(h) \/ StaffReads(h)
  <2>1. handler'[h] \in {[Rest EXCEPT !.pc = "check"], [Rest EXCEPT !.pc = "replace", !.entity = row]}
    BY <1>3, LocalStep DEF RosterEdited, StaffReads
  <2>2. handler'[h].pc \in {"check", "replace"}
    BY <2>1 DEF Rest
  <2>3. KindOf[h] \in {"roster", "staff"} /\ UNCHANGED <<row, books>>
    BY <1>3 DEF RosterEdited, StaffReads
  <2>. QED  BY <2>2, <2>3 DEF Orderly, Editing, At, Kept
<1>4. CASE CronStarts(h)
  <2>1. PICK next : next = [Rest EXCEPT !.pc = "query", !.stage = 1, !.at = now]
    OBVIOUS
  <2>2. handler'[h] = next
    BY <1>4, <2>1, LocalStep DEF CronStarts
  <2>3. next.pc = "query" /\ next.stage = 1 /\ next.plan = Keep /\ 1 \in 1..3 /\ ~(1 > 1)
    BY <2>1 DEF Rest
  <2>4. KindOf[h] = "cron" /\ UNCHANGED <<row, books>>
    BY <1>4 DEF CronStarts
  <2>. QED  BY <2>2, <2>3, <2>4 DEF Orderly, Running, At, Kept
<1>. QED  BY <1>2, <1>3, <1>4 DEF Starts

LEMMA InitSerial == Init => Serial
<1>. SUFFICES ASSUME Init PROVE Quiet /\ Kept(row.status)
  BY DEF Serial
<1>1. \A h \in Handlers : handler[h].pc = "idle"
  BY DEF Init, Rest
<1>2. row.status = Pending
  BY DEF Init
<1>3. /\ books.logged = Pending /\ Home(books) /\ books.camp = "supplier" /\ books.received = 0
  BY DEF Init, Home
<1>. QED  BY <1>1, <1>2, <1>3 DEF Quiet, At, Kept, Fits, Pending, Done, Canceled

\* All that a handler at rest can do is start.
LEMMA IdleStarts ==
  ASSUME NEW h \in Handlers, At(h, "idle"), Starts(h) \/ Proceeds(h) \/ Fails(h)
  PROVE  Starts(h) \/ CronStarts(h)
<1>1. handler[h].pc = "idle"
  BY DEF At
<1>2. ~Fails(h)
  BY <1>1 DEF Fails
<1>3. /\ ~CronQueries(h) /\ ~CronReads(h) /\ ~SyncReads(h) /\ ~SyncSaves(h) /\ ~AssertsRations(h)
      /\ ~Finds(h) /\ ~PutSaves(h) /\ ~PhaseOneCommits(h) /\ ~LocksManifest(h)
      /\ ~CountsReceived(h) /\ ~StaffReplaced(h)
  BY <1>1 DEF CronQueries, CronReads, SyncReads, SyncSaves, AssertsRations, Finds, PutSaves,
              PhaseOneCommits, LocksManifest, CountsReceived, StaffReplaced, At
<1>4. ~PutCommits(h) /\ ~PutHangs(h) /\ ~PutRollsBack(h) /\ ~PhaseTwoPart(h)
  BY <1>1 DEF PutCommits, PutHangs, PutRollsBack, PhaseTwoPart, ReadyToCommit, At
<1>. QED  BY <1>2, <1>3, <1>4 DEF Proceeds

LEMMA StepSerial ==
  ASSUME TypeOK, OneByOne, Serial, [Next]_vars
  PROVE  Serial'
<1>1. ASSUME NEW h \in Handlers, Starts(h) \/ Proceeds(h) \/ Fails(h)
      PROVE  \A g \in Handlers \ {h} : handler'[g] = handler[g]
  BY <1>1, HandlersStep
<1>2. CASE Quiet /\ Kept(row.status)
  <2>1. ASSUME NEW h \in Handlers, Starts(h) \/ Proceeds(h) \/ Fails(h) PROVE Serial'
    <3>1. handler[h].pc = "idle" /\ \A g \in Handlers : handler[g].pc = "idle"
      BY <1>2 DEF Quiet, At
    <3>2. Starts(h) \/ CronStarts(h)
      BY <2>1, <3>1, IdleStarts DEF At
    <3>3. ~At(h, "idle")' /\ Orderly(h)'
      BY <1>2, <3>2, StartOrderly
    <3>4. \A g \in Handlers \ {h} : At(g, "idle")'
      BY <1>1, <2>1, <3>1 DEF At
    <3>. QED  BY <3>3, <3>4 DEF Serial
  <2>2. CASE Tick \/ UNCHANGED vars
    BY <1>2, <2>2 DEF Tick, vars, Serial, Quiet, At, Kept
  <2>3. ~Crashes
    BY DEF Crashes, OneByOne
  <2>. QED  BY <2>1, <2>2, <2>3 DEF Next
<1>3. ASSUME NEW h \in Handlers, ~At(h, "idle"), Orderly(h), \A g \in Handlers \ {h} : At(g, "idle")
      PROVE  Serial'
  <2>1. ASSUME NEW g \in Handlers, Starts(g) \/ Proceeds(g) \/ Fails(g) PROVE Serial'
    <3>1. ~MayStart(g)
      BY <1>3 DEF MayStart, OneByOne
    <3>2. g = h
      <4>1. ASSUME At(g, "idle") PROVE Starts(g) \/ CronStarts(g)
        BY <2>1, <4>1, IdleStarts
      <4>2. Starts(g) \/ CronStarts(g) => MayStart(g)
        BY DEF Starts, PutReads, RosterEdited, StaffReads, CronStarts
      <4>. QED  BY <1>3, <3>1, <4>1, <4>2
    <3>3. Proceeds(h) \/ Fails(h)
      BY <2>1, <3>1, <3>2 DEF Starts, PutReads, RosterEdited, StaffReads
    <3>4. \A f \in Handlers \ {h} : At(f, "idle")'
      BY <1>1, <1>3, <2>1, <3>2 DEF At
    <3>5. (~At(h, "idle")' /\ Orderly(h)') \/ (At(h, "idle")' /\ Kept(row.status)')
      <4>1. KindOf[h] \in {"put", "cron", "roster", "staff"}
        BY HandlersAssumption DEF Kinds
      <4>2. CASE KindOf[h] = "put"
        BY <1>3, <3>3, <4>2, AnsweringStep DEF Orderly
      <4>3. CASE KindOf[h] = "cron"
        BY <1>3, <3>3, <4>3, RunningStep DEF Orderly
      <4>4. CASE KindOf[h] \in {"roster", "staff"}
        BY <1>3, <3>3, <4>4, EditingStep DEF Orderly
      <4>. QED  BY <4>1, <4>2, <4>3, <4>4
    <3>6. CASE ~At(h, "idle")' /\ Orderly(h)'
      BY <3>4, <3>6 DEF Serial
    <3>7. CASE At(h, "idle")' /\ Kept(row.status)'
      <4>1. Quiet'
        BY <3>4, <3>7 DEF Quiet
      <4>. QED  BY <3>7, <4>1 DEF Serial
    <3>. QED  BY <3>5, <3>6, <3>7
  <2>2. CASE Tick \/ UNCHANGED vars
    <3>1. UNCHANGED <<row, books, rowLock, handler>>
      BY <2>2 DEF Tick, vars
    <3>2. ~At(h, "idle")' /\ \A g \in Handlers \ {h} : At(g, "idle")'
      BY <1>3, <3>1 DEF At
    <3>3. Orderly(h)'
      BY <1>3, <3>1 DEF Orderly, Answering, Running, Editing, Kept, BooksSeen, RationsAvailable
    <3>. QED  BY <3>2, <3>3 DEF Serial
  <2>3. ~Crashes
    BY DEF Crashes, OneByOne
  <2>. QED  BY <2>1, <2>2, <2>3 DEF Next
<1>. QED  BY <1>2, <1>3 DEF Serial


\* What is written one by one is what the rest of the code relies on.
LEMMA AlwaysSerial == OneByOne => (Spec => [](TypeOK /\ Serial))
<1>. SUFFICES ASSUME OneByOne PROVE Spec => [](TypeOK /\ Serial)
  OBVIOUS
<1>1. Init => TypeOK /\ Serial
  BY InitType, InitSerial
<1>2. ASSUME TypeOK, Serial, [Next]_vars PROVE TypeOK' /\ Serial'
  BY <1>2, NextType, StepSerial
<1>3. TypeOK /\ Serial /\ [Next]_vars => (TypeOK /\ Serial)'
  BY <1>2
<1>. QED  BY <1>1, <1>3, PTL DEF Spec

\* Handlers that run one by one leave manifest, people and movements as the status of
\* the transfer says, whatever they were asked for and found due.
THEOREM SettledWhenSerial == OneByOne => (Spec => []SettledMatchesStatus)
<1>. SUFFICES ASSUME OneByOne PROVE Spec => []SettledMatchesStatus
  OBVIOUS
<1>1. ASSUME Serial, Quiet PROVE Kept(row.status)
  BY <1>1 DEF Serial, Quiet
<1>2. Serial => SettledMatchesStatus
  BY <1>1 DEF SettledMatchesStatus, Kept, Fits, Away, Pending, Transit, Done, Canceled
<1>3. Spec => [](TypeOK /\ Serial)
  BY AlwaysSerial
<1>. QED  BY <1>2, <1>3, PTL

\* Handlers that run one by one leave the history at the status of the transfer.
THEOREM HistoryWhenSerial == OneByOne => (Spec => []HistoryMatchesStatus)
<1>. SUFFICES ASSUME OneByOne PROVE Spec => []HistoryMatchesStatus
  OBVIOUS
<1>1. ASSUME Serial, Quiet PROVE Kept(row.status)
  BY <1>1 DEF Serial, Quiet
<1>2. Serial => HistoryMatchesStatus
  BY <1>1 DEF HistoryMatchesStatus, Kept
<1>3. Spec => [](TypeOK /\ Serial)
  BY AlwaysSerial
<1>. QED  BY <1>2, <1>3, PTL

-----------------------------------------------------------------------------
(* What is committed, one by one: a reserve is kept, and TransferLifecycle *)
(* is implemented.                                                         *)

\* The handler that is not at rest is the orderly one.
LEMMA BusyIsOrderly ==
  ASSUME Serial, NEW h \in Handlers, ~At(h, "idle") PROVE Orderly(h)
BY DEF Serial, Quiet

\* What a request that commits has seen.
LEMMA PutSees ==
  ASSUME TypeOK, Serial, NEW h \in Handlers, KindOf[h] = "put", At(h, "commit")
  PROVE  /\ Kept(row.status) /\ handler[h].existing = row.status /\ row.status \in {Pending, Transit}
         /\ handler[h].seen = BooksSeen
         /\ handler[h].todo = Work(handler[h].existing, handler[h].entity.status)
         /\ Part(h) = handler[h].todo
         /\ handler[h].entity = Assigned(row, handler[h].status, handler[h].plan)
         /\ LeavesCamp(handler[h].existing, handler[h].status) => RationsAvailable(row.rations)
<1>1. Answering(h) /\ handler[h].pc = "commit"
  BY BusyIsOrderly DEF Orderly, At
<1>2. row.status \in Statuses
  BY DEF TypeOK, RowType
<1>. QED  BY <1>1, <1>2 DEF Answering, Part, Statuses, Final

\* The rations of the supplier camp are debited by a departure that sees none, and by
\* the amount the transfer names.
LEMMA FoodAfter ==
  ASSUME TypeOK, NEW h \in Handlers, Part(h) = handler[h].todo, handler[h].seen = BooksSeen,
         BooksAfter(h).food # books.food
  PROVE  "depart" \in handler[h].todo /\ BooksAfter(h).food = books.food - row.rations
<1>1. /\ books \in BooksType /\ row.rations \in Int /\ handler[h].seen \in SeenType
      /\ handler[h].seen.rations = books.rations /\ handler[h].seen.sent = books.sent
  BY DEF TypeOK, RowType, HandlerType, BooksSeen
<1>2. PICK c : c = Apply(books, handler[h].todo, handler[h].seen, row.rations)
  OBVIOUS
<1>3. c \in BooksType
  BY <1>1, <1>2, ApplyType
<1>4. BooksAfter(h).food = c.food
  BY <1>2, <1>3 DEF BooksAfter, BooksType
<1>5. \A b : Arrive(b, handler[h].seen).food = b.food /\ Cancel(b).food = b.food
  BY DEF Arrive, Cancel
<1>6. CASE "depart" \notin handler[h].todo
  BY <1>2, <1>4, <1>5, <1>6 DEF Apply
<1>7. CASE "depart" \in handler[h].todo
  <2>1. PICK d : d = Depart(books, handler[h].seen, row.rations)
    OBVIOUS
  <2>2. c.food = d.food
    BY <1>2, <1>5, <1>7, <2>1 DEF Apply
  <2>3. d.food = IF books.rations = 0 THEN books.food - row.rations ELSE books.food
    BY <1>1, <2>1, DepartIs
  <2>. QED  BY <1>4, <1>7, <2>2, <2>3
<1>. QED  BY <1>6, <1>7

\* Requests that run one by one leave the supplier camp its minimum: what was
\* asserted before the transaction is so when it debits.
THEOREM ReserveKept == OneByOne => (Spec => ManualDepartureKeepsReserve)
<1>. SUFFICES ASSUME OneByOne PROVE Spec => ManualDepartureKeepsReserve
  OBVIOUS
<1>1. ASSUME TypeOK, Serial, NEW h \in Handlers, PutCommits(h), books'.food # books.food
      PROVE  books'.food >= MinimumFood
  <2>1. KindOf[h] = "put" /\ At(h, "commit") /\ books' = BooksAfter(h)
    BY <1>1 DEF PutCommits, ReadyToCommit
  <2>2. /\ handler[h].existing = row.status /\ handler[h].seen = BooksSeen
        /\ handler[h].todo = Work(handler[h].existing, handler[h].entity.status)
        /\ Part(h) = handler[h].todo
        /\ handler[h].entity = Assigned(row, handler[h].status, handler[h].plan)
        /\ LeavesCamp(handler[h].existing, handler[h].status) => RationsAvailable(row.rations)
    BY <1>1, <2>1, PutSees
  <2>3. "depart" \in handler[h].todo /\ books'.food = books.food - row.rations
    BY <1>1, <2>1, <2>2, FoodAfter
  <2>4. /\ handler[h].entity.status # handler[h].existing
        /\ LeavesCamp(handler[h].existing, handler[h].entity.status)
    BY <2>2, <2>3 DEF Work
  <2>5. handler[h].entity.status = handler[h].status
    <3>1. row \in RowType
      BY <1>1 DEF TypeOK
    <3>. QED  BY <2>2, <2>4, <3>1, AssignedIs
  <2>. QED  BY <2>2, <2>3, <2>4, <2>5 DEF RationsAvailable
<1>2. TypeOK /\ Serial => (\A h \in Handlers : PutCommits(h) /\ books'.food # books.food
                                               => books'.food >= MinimumFood)
  BY <1>1
<1>3. Spec => [](TypeOK /\ Serial)
  BY AlwaysSerial
<1>. QED  BY <1>2, <1>3, PTL DEF ManualDepartureKeepsReserve

\* A commit takes the books from one status they fit to the next.
LEMMA CommitsAlone ==
  ASSUME TypeOK, OneByOne, Serial, NEW h \in Handlers, PutCommits(h) \/ PhaseTwoPart(h)
  PROVE  \E from \in {Pending, Transit}, to \in Statuses :
           /\ Kept(from) /\ books' = BooksAfter(h)
           /\ BooksAfter(h).logged = to /\ Fits(BooksAfter(h), to)
           /\ to \notin {Transit, Done} => /\ BooksAfter(h).rations = books.rations
                                           /\ BooksAfter(h).sent = books.sent
           /\ to = from => BooksAfter(h) = books
<1>1. handler[h].pc = "commit" /\ At(h, "commit") /\ ~At(h, "idle")
  BY DEF PutCommits, PhaseTwoPart, ReadyToCommit, At
<1>2. handler[h].entity.status \in Statuses /\ row.status \in Statuses
  BY DEF TypeOK, HandlerType, RowType
<1>3. PICK to \in Statuses : to = handler[h].entity.status
  BY <1>2
<1>4. CASE PutCommits(h)
  <2>1. KindOf[h] = "put" /\ books' = BooksAfter(h)
    BY <1>4 DEF PutCommits
  <2>2. PICK from \in {Pending, Transit} : from = row.status
    BY <1>1, <2>1, PutSees
  <2>. QED  BY <1>1, <1>3, <2>1, <2>2, PutSees, Commits
<1>5. CASE PhaseTwoPart(h)
  <2>1. KindOf[h] = "cron" /\ books' = IF Succeeds(h) THEN BooksAfter(h) ELSE books
    BY <1>5 DEF PhaseTwoPart
  <2>2. Running(h)
    BY <1>1, <2>1, BusyIsOrderly DEF Orderly
  <2>3. /\ Kept(handler[h].existing) /\ handler[h].seen = BooksSeen
        /\ \/ handler[h].existing = Pending /\ to = Transit /\ handler[h].todo = {"depart"}
           \/ handler[h].existing = Transit /\ to = Done /\ handler[h].todo = {"arrive"}
    BY <1>1, <1>3, <2>2 DEF Running
  <2>4. PICK from \in {Pending, Transit} : from = handler[h].existing
    BY <2>3
  <2>5. Part(h) = handler[h].todo /\ handler[h].todo = Work(from, to)
    BY <2>3, <2>4, WorkIs DEF Part
  <2>. QED  BY <1>1, <1>3, <2>1, <2>3, <2>4, <2>5, Commits
<1>. QED  BY <1>4, <1>5

\* Requests and runs that run one by one implement TransferLifecycle, for any of them
\* and any dates, when there is something to send.
THEOREM LifecycleWhenSerial == OneByOne /\ InitialGoods > 0 => (Spec => ImplementsLifecycle)
<1>. SUFFICES ASSUME OneByOne, InitialGoods > 0 PROVE Spec => ImplementsLifecycle
  OBVIOUS
<1>. USE DEF Pending, Transit, Done, Canceled
<1>1. Init => Lifecycle!Init
  BY DEF Init, Lifecycle!Init
<1>2. ASSUME TypeOK, Serial, [Next]_vars PROVE [Lifecycle!Next]_(Lifecycle!vars)
  <2>1. CASE UNCHANGED books
    BY <2>1 DEF Lifecycle!vars
  <2>2. ASSUME NEW h \in Handlers, PutCommits(h) \/ PhaseTwoPart(h)
        PROVE  [Lifecycle!Next]_(Lifecycle!vars)
    <3>1. PICK from \in {Pending, Transit}, to \in Statuses :
           /\ Kept(from) /\ books' = BooksAfter(h)
           /\ BooksAfter(h).logged = to /\ Fits(BooksAfter(h), to)
           /\ to \notin {Transit, Done} => /\ BooksAfter(h).rations = books.rations
                                           /\ BooksAfter(h).sent = books.sent
           /\ to = from => BooksAfter(h) = books
      BY <1>2, <2>2, CommitsAlone
    <3>2. PICK b, c : b = books /\ c = books'
      OBVIOUS
    <3>3. /\ b.logged = from /\ c.logged = to /\ Fits(b, from) /\ Fits(c, to)
          /\ to \notin {Transit, Done} => c.rations = b.rations /\ c.sent = b.sent
      BY <3>1, <3>2 DEF Kept
    <3>4. CASE to = from
      BY <2>1, <3>1, <3>4
    <3>5. CASE from = Pending /\ to = Transit
      <4>1. Lifecycle!Depart
        BY <3>2, <3>3, <3>5 DEF Lifecycle!Depart, Fits, Away
      <4>. QED  BY <4>1 DEF Lifecycle!Next
    <3>6. CASE to = Done
      <4>1. Lifecycle!Complete
        BY <3>2, <3>3, <3>6 DEF Lifecycle!Complete, Lifecycle!Open, Fits
      <4>. QED  BY <4>1 DEF Lifecycle!Next
    <3>7. CASE to = Canceled
      <4>1. Lifecycle!Cancel
        BY <3>2, <3>3, <3>7 DEF Lifecycle!Cancel, Lifecycle!Open, Fits
      <4>. QED  BY <4>1 DEF Lifecycle!Next
    <3>8. CASE from = Transit /\ to = Pending
      <4>1. b.rations = 1 /\ Away(c)
        BY <3>3, <3>8 DEF Fits, Home, Away
      <4>2. Lifecycle!PutBack
        BY <3>2, <3>3, <3>8, <4>1 DEF Lifecycle!PutBack, Fits, Away
      <4>. QED  BY <4>2 DEF Lifecycle!Next
    <3>. QED  BY <3>4, <3>5, <3>6, <3>7, <3>8 DEF Statuses
  <2>3. Crashes \/ Tick \/ UNCHANGED vars => UNCHANGED books
    BY DEF Crashes, Tick, vars
  <2>. QED  BY <1>2, <2>1, <2>2, <2>3, BooksStep DEF Next
<1>3. TypeOK /\ Serial /\ [Next]_vars => [Lifecycle!Next]_(Lifecycle!vars)
  BY <1>2
<1>4. Spec => [](TypeOK /\ Serial)
  BY AlwaysSerial
<1>. QED  BY <1>1, <1>3, <1>4, PTL DEF Spec, ImplementsLifecycle, Lifecycle!Spec

=============================================================================
