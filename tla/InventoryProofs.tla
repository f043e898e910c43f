-------------------------- MODULE InventoryProofs --------------------------
(***************************************************************************)
(* Proofs about Inventory, for any resources, workers and cycles: the      *)
(* types with the stock that is never negative, that a collection is not   *)
(* booked once per cycle, that alerts do not pile up, and that the stock   *)
(* is what its movements add up to.                                        *)
(*                                                                         *)
(* Collections and alerts count the cycles between finding nothing and     *)
(* writing: they are what may still write although somebody else has.  The *)
(* books are balanced while one handler works at a time, up to what that   *)
(* handler has saved and not booked yet.                                   *)
(***************************************************************************)
EXTENDS Inventory, FiniteSetTheorems, WellFoundedInduction, TLAPS

\* What holds of a cycle beyond its type: it has a row or a resource to treat, rations
\* are of what is rationed, and nothing else is saved from a negative amount.
RunOK(me) ==
    /\ me \in RunType
    /\ me.pc \in {"look", "move", "record"} => me.rows # {}
    /\ me.pc \in {"read", "save", "book", "ask", "raise"} => me.todo # {}
    /\ me.pc \in {"read", "save", "book"} /\ ~me.producing => me.todo \subseteq Rationed
    /\ me.pc = "save" /\ First(me.todo) \notin Rationed => me.seen >= 0

\* The amounts of adjustments and edits.
ClerkOK(me) ==
    /\ me \in ClerkType
    /\ me.pc \in {"adjust", "settle"} => me.amount \in Nat /\ me.seen \in Nat
    /\ me.pc = "edit" /\ me.r \notin Rationed => me.amount >= 0

Typed ==
    /\ TypeOK
    /\ \A h \in Runs : RunOK(run[h])
    /\ \A c \in Clerks : ClerkOK(clerk[c])

LEMMA FirstIn == ASSUME NEW S, S # {} PROVE First(S) \in S
BY DEF First

LEMMA RestTypes == RunOK(RunRest) /\ ClerkOK(ClerkRest)
<1>1. 0 \in Days
  BY InventoryAssumption DEF Days
<1>2. (CHOOSE w \in Workers : TRUE) \in Workers /\ (CHOOSE r \in Resources : TRUE) \in Resources
  BY InventoryAssumption
<1>3. RunRest \in RunType
  BY <1>1 DEF RunRest, RunType
<1>4. ClerkRest \in ClerkType
  BY <1>1, <1>2 DEF ClerkRest, ClerkType
<1>5. QED
  BY <1>3, <1>4 DEF RunOK, ClerkOK, RunRest, ClerkRest

\* What a cycle adds is a number, and not negative when it is production.
LEMMA ChangeType ==
    ASSUME NEW me \in RunType, NEW r
    PROVE  Change(me, r) \in Int /\ (me.producing => Change(me, r) \in Nat)
<1>1. {w \in me.people : Makes[w] = r} \subseteq Workers
  BY DEF RunType
<1>2. IsFiniteSet({w \in me.people : Makes[w] = r})
  BY <1>1, FS_Subset, InventoryAssumption
<1>3. Cardinality({w \in me.people : Makes[w] = r}) \in Nat
  BY <1>2, FS_CardinalityType
<1>4. \A n \in Nat : Output * n \in Nat
  BY InventoryAssumption
<1>5. -Ration \in Int
  BY InventoryAssumption
<1>6. QED
  BY <1>3, <1>4, <1>5 DEF Change

LEMMA AddType ==
    ASSUME NEW f \in [Resources -> Int], NEW r \in Resources, NEW n \in Int
    PROVE  /\ Add(f, r, n) \in [Resources -> Int]
           /\ \A q \in Resources : Add(f, r, n)[q] = IF q = r THEN f[q] + n ELSE f[q]
BY DEF Add

\* Where a cycle goes when a row, a resource or an alert is done.
LEMMA NextRowOK ==
    ASSUME NEW me, RunOK(me), me.rows # {}
    PROVE  RunOK(NextRow(me))
<1>1. me \in RunType
  BY DEF RunOK
<1>2. AfterRows(me) \in RunType
  BY <1>1, InventoryAssumption DEF AfterRows, RunType
<1>3. me.rows \ {First(me.rows)} \subseteq Workers
  BY <1>1 DEF RunType
<1>4. [me EXCEPT !.pc = "look", !.rows = me.rows \ {First(me.rows)}] \in RunType
  BY <1>1, <1>3 DEF RunType
<1>5. RunOK(AfterRows(me))
  BY <1>1, <1>2, InventoryAssumption DEF RunOK, AfterRows, RunType
<1>6. me.rows \ {First(me.rows)} # {} =>
          RunOK([me EXCEPT !.pc = "look", !.rows = me.rows \ {First(me.rows)}])
  BY <1>1, <1>4 DEF RunOK, RunType
<1>7. QED
  BY <1>5, <1>6 DEF NextRow

LEMMA NextAlertOK ==
    ASSUME NEW me, RunOK(me)
    PROVE  RunOK(NextAlert(me))
<1> DEFINE todo == me.todo \ {First(me.todo)}
<1>1. me \in RunType
  BY DEF RunOK
<1>2. [me EXCEPT !.pc = "ask", !.todo = todo] \in RunType
  BY <1>1 DEF RunType
<1>3. todo # {} => RunOK([me EXCEPT !.pc = "ask", !.todo = todo])
  BY <1>1, <1>2 DEF RunOK, RunType
<1>4. QED
  BY <1>3, RestTypes DEF NextAlert

LEMMA AfterBookOK ==
    ASSUME NEW me, RunOK(me), me.pc = "book", NEW next \in AfterBook(me)
    PROVE  RunOK(next) /\ next.pc \in {"read", "alert"}
<1> DEFINE todo == me.todo \ {First(me.todo)}
           To(pc, people, rest) ==
               [me EXCEPT !.pc = pc, !.people = people, !.producing = TRUE, !.todo = rest]
<1>1. me \in RunType
  BY DEF RunOK
<1>2. CASE todo # {}
  <2>1. next = [me EXCEPT !.pc = "read", !.todo = todo]
    BY <1>2 DEF AfterBook
  <2>2. next \in RunType
    BY <1>1, <2>1 DEF RunType
  <2>3. next.pc = "read" /\ next.todo = todo /\ next.producing = me.producing
    BY <1>1, <2>1 DEF RunType
  <2>4. QED
    BY <1>1, <1>2, <2>2, <2>3 DEF RunOK
<1>3. CASE todo = {} /\ me.producing
  <2>1. next = [me EXCEPT !.pc = "alert", !.todo = {}]
    BY <1>3 DEF AfterBook
  <2>2. next \in RunType /\ next.pc = "alert"
    BY <1>1, <2>1 DEF RunType
  <2>3. QED
    BY <2>2 DEF RunOK
<1>4. CASE todo = {} /\ ~me.producing
  <2>1. PICK ps \in SUBSET Workers :
             next = To(IF ps = {} THEN "alert" ELSE "read", ps, {Makes[w] : w \in ps})
    BY <1>4 DEF AfterBook
  <2>2. {Makes[w] : w \in ps} \subseteq Resources /\ (ps # {} => {Makes[w] : w \in ps} # {})
    BY InventoryAssumption
  <2>3. next \in RunType
    BY <1>1, <2>1, <2>2 DEF RunType
  <2>4. /\ next.pc = IF ps = {} THEN "alert" ELSE "read"
        /\ next.producing /\ next.todo = {Makes[w] : w \in ps}
    BY <1>1, <2>1 DEF RunType
  <2>5. QED
    BY <2>2, <2>3, <2>4 DEF RunOK
<1>5. QED
  BY <1>2, <1>3, <1>4

LEMMA InitTyped == Init => Typed
<1> SUFFICES ASSUME Init PROVE Typed
  OBVIOUS
<1>1. 0 \in Days /\ RunRest \in RunType /\ ClerkRest \in ClerkType
  BY RestTypes, InventoryAssumption DEF Days, RunOK, ClerkOK
<1>2. stock \in [Resources -> Int] /\ \A r \in Resources : stock[r] >= 0
  BY InventoryAssumption DEF Init
<1>3. disturbed \in BOOLEAN
  BY Zenon DEF Init
<1>4. TypeOK
  BY <1>1, <1>2, <1>3 DEF Init, TypeOK
<1>5. QED
  BY <1>4, RestTypes DEF Init, Typed

\* A cycle or a request that moves on.
LEMMA BecomeOK ==
    ASSUME Typed, NEW h \in Runs, NEW next, RunOK(next), Become(h, next)
    PROVE  run' \in [Runs -> RunType] /\ \A k \in Runs : RunOK(run'[k])
<1>1. run \in [Runs -> RunType] /\ next \in RunType
  BY DEF Typed, TypeOK, RunOK
<1>2. \A k \in Runs : run'[k] = IF k = h THEN next ELSE run[k]
  BY <1>1 DEF Become
<1>3. QED
  BY <1>1, <1>2 DEF Become, Typed

LEMMA SetOK ==
    ASSUME Typed, NEW c \in Clerks, NEW next, ClerkOK(next), Set(c, next)
    PROVE  clerk' \in [Clerks -> ClerkType] /\ \A k \in Clerks : ClerkOK(clerk'[k])
<1>1. clerk \in [Clerks -> ClerkType] /\ next \in ClerkType
  BY DEF Typed, TypeOK, ClerkOK
<1>2. \A k \in Clerks : clerk'[k] = IF k = c THEN next ELSE clerk[k]
  BY <1>1 DEF Set
<1>3. QED
  BY <1>1, <1>2 DEF Set, Typed

\* A movement keeps the types, and takes no more than there is.
LEMMA MovedOK ==
    ASSUME Typed, NEW r \in Resources, NEW n \in Int, Moved(r, n)
    PROVE  /\ stock' \in [Resources -> Int] /\ \A q \in Resources \ Rationed : stock'[q] >= 0
           /\ ledger' \in [Resources -> Int] /\ uncovered' \in [Resources -> Int]
<1>1. /\ stock \in [Resources -> Int] /\ ledger \in [Resources -> Int]
      /\ uncovered \in [Resources -> Int]
      /\ \A q \in Resources \ Rationed : stock[q] >= 0
  BY DEF Typed, TypeOK
<1>2. ledger' \in [Resources -> Int]
  <2>1. ledger' = Add(ledger, r, n) /\ ledger \in [Resources -> Int]
    BY <1>1 DEF Moved
  <2>2. Add(ledger, r, n) \in [Resources -> Int]
    BY <2>1, AddType
  <2>. QED  BY <2>1, <2>2
<1>3. CASE Covers(r, n)
  <2>1. stock' = Add(stock, r, n) /\ uncovered' = uncovered
    BY <1>3 DEF Moved
  <2>2. /\ Add(stock, r, n) \in [Resources -> Int]
        /\ \A q \in Resources : Add(stock, r, n)[q] = IF q = r THEN stock[q] + n ELSE stock[q]
    <3>1. stock \in [Resources -> Int]
      BY <1>1
    <3>. QED  BY <3>1, AddType
  <2>3. \A q \in Resources \ Rationed : stock'[q] >= 0
    BY <1>1, <1>3, <2>1, <2>2 DEF Covers
  <2>. QED  BY <1>1, <1>2, <2>1, <2>2, <2>3
<1>4. CASE ~Covers(r, n)
  <2>1. PICK m \in Int : m = -n
    OBVIOUS
  <2>2. stock' = stock /\ uncovered' = Add(uncovered, r, m)
    BY <1>4, <2>1 DEF Moved
  <2>3. Add(uncovered, r, m) \in [Resources -> Int]
    <3>1. uncovered \in [Resources -> Int]
      BY <1>1
    <3>. QED  BY <2>1, <3>1, AddType
  <2>. QED  BY <1>1, <1>2, <2>2, <2>3
<1>. QED  BY <1>3, <1>4

LEMMA CycleTyped ==
    ASSUME Typed, NEW h \in Runs, Cycle(h)
    PROVE  Typed'
<1> USE DEF tables, drift, None
<1> DEFINE me == run[h]
<1>1. TypeOK /\ RunOK(me) /\ me \in RunType
  BY DEF Typed, TypeOK
<1>2. \A next : RunOK(next) /\ Become(h, next) =>
          run' \in [Runs -> RunType] /\ \A k \in Runs : RunOK(run'[k])
  BY BecomeOK
<1>3. CASE Starts(h)
  <2>1. PICK recorder \in BOOLEAN, rows \in SUBSET Workers :
             LET new == [RunRest EXCEPT !.day = day, !.recorder = recorder, !.rows = rows]
             IN  /\ Become(h, IF rows = {} THEN AfterRows(new) ELSE [new EXCEPT !.pc = "look"])
                 /\ disturbed' = (disturbed \/ Busy \/ ~recorder)
    BY <1>3 DEF Starts
  <2> DEFINE new == [RunRest EXCEPT !.day = day, !.recorder = recorder, !.rows = rows]
  <2>2. day \in Days /\ owed \in [Runs -> Nat]
    BY <1>1 DEF TypeOK
  <2>3. new \in RunType /\ new.rows = rows
    <3>1. RunRest \in RunType
      BY RestTypes DEF RunOK
    <3>2. QED
      BY <2>2, <3>1 DEF RunType
  <2>4. AfterRows(new) \in RunType /\ [new EXCEPT !.pc = "look"] \in RunType
    BY <2>3, InventoryAssumption DEF AfterRows, RunType
  <2>5. RunOK(AfterRows(new))
    BY <2>3, <2>4, InventoryAssumption DEF RunOK, AfterRows, RunType
  <2>6. rows # {} => RunOK([new EXCEPT !.pc = "look"])
    BY <2>3, <2>4 DEF RunOK, RunType, RunRest
  <2>7. run' \in [Runs -> RunType] /\ \A k \in Runs : RunOK(run'[k])
    BY <1>2, <2>1, <2>5, <2>6
  <2>8. owed' \in [Runs -> Nat]
    BY <1>3, <2>2 DEF Starts
  <2>9. disturbed' \in BOOLEAN
    BY <2>1, Zenon
  <2>10. QED
    BY <1>1, <1>3, <2>7, <2>8, <2>9 DEF Starts, Typed, TypeOK
<1>4. CASE Looks(h)
  <2>1. RunOK(IF Collected(First(me.rows), me.day) THEN NextRow(me) ELSE [me EXCEPT !.pc = "move"])
    <3>1. me.rows # {} /\ me.pc = "look"
      BY <1>1, <1>4 DEF Looks, At, RunOK
    <3>2. [me EXCEPT !.pc = "move"] \in RunType
      BY <1>1 DEF RunType
    <3>3. RunOK([me EXCEPT !.pc = "move"])
      BY <1>1, <3>1, <3>2 DEF RunOK, RunType
    <3>4. QED
      BY <1>1, <3>1, <3>3, NextRowOK
  <2>2. run' \in [Runs -> RunType] /\ \A k \in Runs : RunOK(run'[k])
    BY <1>2, <1>4, <2>1 DEF Looks
  <2>3. QED
    BY <1>1, <1>4, <2>2 DEF Looks, Typed, TypeOK
<1>5. CASE Collects(h)
  <2>1. me.pc = "move" /\ me.rows # {}
    BY <1>1, <1>5 DEF Collects, At, RunOK
  <2>2. First(me.rows) \in Workers /\ me.day \in Days
    BY <1>1, <2>1, FirstIn DEF RunType
  <2>3. [me EXCEPT !.pc = "record"] \in RunType
    BY <1>1 DEF RunType
  <2>4. RunOK([me EXCEPT !.pc = "record"])
    BY <1>1, <2>1, <2>3 DEF RunOK, RunType
  <2>5. run' \in [Runs -> RunType] /\ \A k \in Runs : RunOK(run'[k])
    BY <1>2, <1>5, <2>4 DEF Collects
  <2>6. collections' \in [Workers -> [Days -> Nat]]
    BY <1>1, <1>5, <2>2 DEF Collects, TypeOK
  <2>7. ledger' \in [Resources -> Int]
    <3>1. Makes[First(me.rows)] \in Resources /\ Output \in Int
      BY <2>2, InventoryAssumption
    <3>2. ledger \in [Resources -> Int] /\ ledger' = Add(ledger, Makes[First(me.rows)], Output)
      BY <1>1, <1>5 DEF Collects, TypeOK
    <3>3. QED
      BY <3>1, <3>2, AddType
  <2>8. QED
    BY <1>1, <1>5, <2>5, <2>6, <2>7 DEF Collects, Typed, TypeOK
<1>6. CASE Records(h)
  <2>1. me.pc = "record" /\ me.rows # {}
    BY <1>1, <1>6 DEF Records, At, RunOK
  <2>2. First(me.rows) \in Workers /\ me.day \in Days
    BY <1>1, <2>1, FirstIn DEF RunType
  <2>3. RunOK(NextRow(me)) /\ RunOK(RunRest)
    BY <1>1, <2>1, NextRowOK, RestTypes
  <2>4. run' \in [Runs -> RunType] /\ \A k \in Runs : RunOK(run'[k])
    BY <1>2, <1>6, <2>3 DEF Records
  <2>5. record' \in [Workers -> [Days -> Nat \cup {None}]]
    <3>1. Output \in Nat \cup {None}
      BY InventoryAssumption
    <3>2. record \in [Workers -> [Days -> Nat \cup {None}]]
      BY <1>1 DEF TypeOK
    <3>3. record' = record \/ record' = [record EXCEPT ![First(me.rows)][me.day] = Output]
      BY <1>6 DEF Records
    <3>4. QED
      BY <2>2, <3>1, <3>2, <3>3
  <2>6. QED
    BY <1>1, <1>6, <2>4, <2>5 DEF Records, Typed, TypeOK
<1>7. CASE ReadsStock(h)
  <2>1. me.pc = "read" /\ me.todo # {} /\ (~me.producing => me.todo \subseteq Rationed)
    BY <1>1, <1>7 DEF ReadsStock, At, RunOK
  <2> DEFINE next == [me EXCEPT !.pc = "save", !.seen = stock[First(me.todo)]]
  <2>2. First(me.todo) \in Resources
    BY <1>1, <2>1, FirstIn DEF RunType
  <2>3. stock[First(me.todo)] \in Int
        /\ (First(me.todo) \notin Rationed => stock[First(me.todo)] >= 0)
    BY <1>1, <2>2 DEF TypeOK
  <2>4. next \in RunType /\ next.pc = "save" /\ next.seen = stock[First(me.todo)]
        /\ next.todo = me.todo /\ next.producing = me.producing
    BY <1>1, <2>3 DEF RunType
  <2>5. RunOK(next)
    BY <2>1, <2>3, <2>4 DEF RunOK
  <2>6. run' \in [Runs -> RunType] /\ \A k \in Runs : RunOK(run'[k])
    BY <1>2, <1>7, <2>5 DEF ReadsStock
  <2>7. QED
    BY <1>1, <1>7, <2>6 DEF ReadsStock, Typed, TypeOK
<1>8. CASE SavesStock(h)
  <2> DEFINE r == First(me.todo)
  <2>1. me.pc = "save" /\ me.todo # {} /\ (~me.producing => me.todo \subseteq Rationed)
        /\ (r \notin Rationed => me.seen >= 0) /\ me.seen \in Int
    BY <1>1, <1>8 DEF SavesStock, At, RunOK, RunType
  <2>2. r \in Resources /\ (~me.producing => r \in Rationed)
    BY <1>1, <2>1, FirstIn DEF RunType
  <2>3. Change(me, r) \in Int /\ (me.producing => Change(me, r) >= 0)
    BY <1>1, ChangeType
  <2>4. me.seen + Change(me, r) \in Int
        /\ (r \notin Rationed => me.seen + Change(me, r) >= 0)
    BY <2>1, <2>2, <2>3
  <2>5. stock' = [stock EXCEPT ![r] = me.seen + Change(me, r)]
    BY <1>8 DEF SavesStock
  <2>6. stock' \in [Resources -> Int] /\ \A q \in Resources \ Rationed : stock'[q] >= 0
    BY <1>1, <2>2, <2>4, <2>5 DEF TypeOK
  <2> DEFINE next == [me EXCEPT !.pc = "book", !.seen = 0]
  <2>7. next \in RunType /\ next.pc = "book" /\ next.todo = me.todo
        /\ next.producing = me.producing
    <3>1. PICK zero \in Int : zero = 0
      OBVIOUS
    <3>2. next = [me EXCEPT !.pc = "book", !.seen = zero]
      BY <3>1
    <3>3. QED
      BY <1>1, <3>1, <3>2 DEF RunType
  <2>8. RunOK(next)
    BY <2>1, <2>7 DEF RunOK
  <2>9. run' \in [Runs -> RunType] /\ \A k \in Runs : RunOK(run'[k])
    BY <1>2, <1>8, <2>8 DEF SavesStock
  <2>10. QED
    BY <1>1, <1>8, <2>6, <2>9 DEF SavesStock, Typed, TypeOK
<1>9. CASE BooksChange(h)
  <2>1. me.pc = "book" /\ me.todo # {}
    BY <1>1, <1>9 DEF BooksChange, At, RunOK
  <2>2. First(me.todo) \in Resources
    BY <1>1, <2>1, FirstIn DEF RunType
  <2>3. Booked(me, First(me.todo)) \in Int
    BY <1>1, ChangeType DEF Booked
  <2>4. ledger' \in [Resources -> Int]
    BY <1>1, <1>9, <2>2, <2>3, AddType DEF BooksChange, TypeOK
  <2>5. PICK next \in AfterBook(me) : Become(h, next)
    BY <1>9 DEF BooksChange
  <2>6. RunOK(next)
    BY <1>1, <2>1, AfterBookOK
  <2>7. run' \in [Runs -> RunType] /\ \A k \in Runs : RunOK(run'[k])
    BY <1>2, <2>5, <2>6
  <2>8. QED
    BY <1>1, <1>9, <2>4, <2>7 DEF BooksChange, Typed, TypeOK
<1>10. CASE ReadsStocks(h)
  <2> DEFINE low == {r \in Touched(me) : stock[r] < Minimum[r]}
  <2>1. low \subseteq Resources
    BY <1>1, InventoryAssumption DEF Touched, RunType
  <2>2. low # {} => RunOK([me EXCEPT !.pc = "ask", !.todo = low])
    BY <1>1, <2>1 DEF RunOK, RunType
  <2>3. run' \in [Runs -> RunType] /\ \A k \in Runs : RunOK(run'[k])
    BY <1>2, <1>10, <2>2, RestTypes DEF ReadsStocks
  <2>4. QED
    BY <1>1, <1>10, <2>3 DEF ReadsStocks, Typed, TypeOK
<1>11. CASE AsksAlert(h)
  <2>1. me.pc = "ask" /\ me.todo # {}
    BY <1>1, <1>11 DEF AsksAlert, At, RunOK
  <2>2. [me EXCEPT !.pc = "raise"] \in RunType
    BY <1>1 DEF RunType
  <2>3. RunOK([me EXCEPT !.pc = "raise"])
    BY <1>1, <2>1, <2>2 DEF RunOK, RunType
  <2>4. run' \in [Runs -> RunType] /\ \A k \in Runs : RunOK(run'[k])
    BY <1>1, <1>2, <1>11, <2>3, NextAlertOK DEF AsksAlert
  <2>5. QED
    BY <1>1, <1>11, <2>4 DEF AsksAlert, Typed, TypeOK
<1>12. CASE Raises(h)
  <2>1. me.todo # {}
    BY <1>1, <1>12 DEF Raises, At, RunOK
  <2>2. First(me.todo) \in Resources
    BY <1>1, <2>1, FirstIn DEF RunType
  <2>3. alerts' \in [Resources -> Nat]
    BY <1>1, <1>12, <2>2 DEF Raises, TypeOK, Add
  <2>4. run' \in [Runs -> RunType] /\ \A k \in Runs : RunOK(run'[k])
    BY <1>1, <1>2, <1>12, NextAlertOK DEF Raises
  <2>5. QED
    BY <1>1, <1>12, <2>3, <2>4 DEF Raises, Typed, TypeOK
<1>13. QED
  BY <1>3, <1>4, <1>5, <1>6, <1>7, <1>8, <1>9, <1>10, <1>11, <1>12 DEF Cycle

LEMMA RequestTyped ==
    ASSUME Typed, NEW c \in Clerks,
           \/ WithdrawReads(c) \/ Withdraws(c) \/ AdjustReads(c) \/ AdjustSaves(c)
           \/ AdjustMoves(c) \/ EditFinds(c) \/ EditSaves(c)
    PROVE  Typed'
<1> USE DEF tables, drift, handlers, None, Requested
<1> DEFINE me == clerk[c]
<1>1. TypeOK /\ ClerkOK(me) /\ me \in ClerkType /\ requests \in Nat
  BY DEF Typed, TypeOK
<1>2. \A next : ClerkOK(next) /\ Set(c, next) =>
          clerk' \in [Clerks -> ClerkType] /\ \A k \in Clerks : ClerkOK(clerk'[k])
  BY SetOK
<1>3. ClerkOK(ClerkRest) /\ ClerkRest \in ClerkType
  BY RestTypes DEF ClerkOK
<1>4. ASSUME Requested
      PROVE  requests' \in Nat /\ disturbed' \in BOOLEAN
  <2>1. disturbed' \in BOOLEAN
    BY <1>4, Zenon DEF Requested
  <2>2. QED
    BY <1>1, <1>4, <2>1
<1>5. CASE AdjustReads(c)
  <2>1. PICK w \in Workers, d \in Days, n \in Amounts :
             /\ record[w][d] # None
             /\ Set(c, [ClerkRest EXCEPT !.pc = "adjust", !.w = w, !.day = d, !.amount = n,
                                         !.seen = record[w][d]])
    BY <1>5 DEF AdjustReads
  <2> DEFINE next == [ClerkRest EXCEPT !.pc = "adjust", !.w = w, !.day = d, !.amount = n,
                                       !.seen = record[w][d]]
  <2>2. n \in Nat /\ record[w][d] \in Nat
    BY <1>1, <2>1, InventoryAssumption DEF TypeOK
  <2>3. next \in ClerkType /\ next.pc = "adjust" /\ next.amount = n /\ next.seen = record[w][d]
    <3>1. PICK a \in Int, s \in Int : a = n /\ s = record[w][d]
      BY <2>2
    <3>2. next = [ClerkRest EXCEPT !.pc = "adjust", !.w = w, !.day = d, !.amount = a, !.seen = s]
      BY <3>1
    <3>3. next \in ClerkType
      BY <1>3, <3>2 DEF ClerkType
    <3>4. QED
      BY <1>3, <3>1, <3>2, <3>3 DEF ClerkType
  <2>4. ClerkOK(next)
    BY <2>2, <2>3 DEF ClerkOK
  <2>5. clerk' \in [Clerks -> ClerkType] /\ \A k \in Clerks : ClerkOK(clerk'[k])
    BY <1>2, <2>1, <2>4
  <2>6. requests' \in Nat /\ disturbed' \in BOOLEAN
    BY <1>4, <1>5 DEF AdjustReads
  <2>7. QED
    BY <1>1, <1>5, <2>5, <2>6 DEF AdjustReads, Typed, TypeOK
<1>6. CASE AdjustSaves(c)
  <2>1. me.pc = "adjust" /\ me.amount \in Nat /\ me.seen \in Nat /\ me.w \in Workers /\ me.day \in Days
    BY <1>1, <1>6 DEF AdjustSaves, ClerkOK, ClerkType
  <2>2. record' \in [Workers -> [Days -> Nat \cup {None}]]
    <3>1. record \in [Workers -> [Days -> Nat \cup {None}]]
      BY <1>1 DEF TypeOK
    <3>2. record' = [record EXCEPT ![me.w][me.day] = me.amount]
      BY <1>6 DEF AdjustSaves
    <3>3. QED
      BY <2>1, <3>1, <3>2
  <2>3. [me EXCEPT !.pc = "settle"] \in ClerkType
    BY <1>1 DEF ClerkType
  <2>4. ClerkOK([me EXCEPT !.pc = "settle"])
    BY <1>1, <2>1, <2>3 DEF ClerkOK, ClerkType
  <2>5. clerk' \in [Clerks -> ClerkType] /\ \A k \in Clerks : ClerkOK(clerk'[k])
    BY <1>2, <1>3, <1>6, <2>4 DEF AdjustSaves
  <2>6. QED
    BY <1>1, <1>6, <2>2, <2>5 DEF AdjustSaves, Typed, TypeOK
<1>7. CASE AdjustMoves(c)
  <2>1. me.amount - me.seen \in Int /\ Makes[me.w] \in Resources
    BY <1>1, <1>7, InventoryAssumption DEF AdjustMoves, ClerkOK, ClerkType
  <2>2. Moved(Makes[me.w], me.amount - me.seen)
    BY <1>7 DEF AdjustMoves
  <2>3. /\ stock' \in [Resources -> Int] /\ \A q \in Resources \ Rationed : stock'[q] >= 0
        /\ ledger' \in [Resources -> Int] /\ uncovered' \in [Resources -> Int]
    BY <2>1, <2>2, MovedOK
  <2>4. clerk' \in [Clerks -> ClerkType] /\ \A k \in Clerks : ClerkOK(clerk'[k])
    BY <1>2, <1>3, <1>7 DEF AdjustMoves
  <2>5. QED
    BY <1>1, <1>7, <2>3, <2>4 DEF AdjustMoves, Typed, TypeOK
<1>8. CASE EditFinds(c)
  <2>1. PICK r \in Resources : \E n \in Amounts \cup {stock[r]} :
             Set(c, [ClerkRest EXCEPT !.pc = "edit", !.r = r, !.amount = n])
    BY <1>8 DEF EditFinds
  <2>2. PICK n \in Amounts \cup {stock[r]} :
             Set(c, [ClerkRest EXCEPT !.pc = "edit", !.r = r, !.amount = n])
    BY <2>1
  <2> DEFINE next == [ClerkRest EXCEPT !.pc = "edit", !.r = r, !.amount = n]
  <2>3. n \in Int /\ (r \notin Rationed => n >= 0)
    BY <1>1, <2>2, InventoryAssumption DEF TypeOK
  <2>4. next \in ClerkType /\ next.pc = "edit" /\ next.r = r /\ next.amount = n
    BY <1>3, <2>3 DEF ClerkType
  <2>5. ClerkOK(next)
    BY <2>3, <2>4 DEF ClerkOK
  <2>6. clerk' \in [Clerks -> ClerkType] /\ \A k \in Clerks : ClerkOK(clerk'[k])
    BY <1>2, <2>2, <2>5
  <2>7. requests' \in Nat /\ disturbed' \in BOOLEAN
    BY <1>4, <1>8 DEF EditFinds
  <2>8. QED
    BY <1>1, <1>8, <2>6, <2>7 DEF EditFinds, Typed, TypeOK
<1>9. CASE EditSaves(c)
  <2>1. me.r \in Resources /\ me.amount \in Int /\ (me.r \notin Rationed => me.amount >= 0)
    BY <1>1, <1>9 DEF EditSaves, ClerkOK, ClerkType
  <2>2. stock' \in [Resources -> Int] /\ \A q \in Resources \ Rationed : stock'[q] >= 0
    BY <1>1, <1>9, <2>1 DEF EditSaves, TypeOK
  <2>3. edited' \in [Resources -> Int]
    <3>1. me.amount - stock[me.r] \in Int
      BY <1>1, <2>1 DEF TypeOK
    <3>2. edited' = Add(edited, me.r, me.amount - stock[me.r])
      BY <1>9 DEF EditSaves
    <3>3. QED
      BY <1>1, <2>1, <3>1, <3>2, AddType DEF TypeOK
  <2>4. clerk' \in [Clerks -> ClerkType] /\ \A k \in Clerks : ClerkOK(clerk'[k])
    BY <1>2, <1>3, <1>9 DEF EditSaves
  <2>5. QED
    BY <1>1, <1>9, <2>2, <2>3, <2>4 DEF EditSaves, Typed, TypeOK
<1>10. CASE WithdrawReads(c)
  <2>1. PICK r \in Resources, n \in Amounts :
             Set(c, [ClerkRest EXCEPT !.pc = "withdraw", !.r = r, !.amount = n])
    BY <1>10 DEF WithdrawReads
  <2>2. PICK next : next = [ClerkRest EXCEPT !.pc = "withdraw", !.r = r, !.amount = n]
    OBVIOUS
  <2>3. n \in Int
    BY InventoryAssumption
  <2>4. next \in ClerkType /\ next.pc = "withdraw"
    BY <1>3, <2>2, <2>3 DEF ClerkType
  <2>5. ClerkOK(next)
    BY <2>4 DEF ClerkOK
  <2>6. clerk' \in [Clerks -> ClerkType] /\ \A k \in Clerks : ClerkOK(clerk'[k])
    BY <1>2, <2>1, <2>2, <2>5
  <2>7. requests' \in Nat /\ disturbed' \in BOOLEAN
    BY <1>4, <1>10 DEF WithdrawReads
  <2>. QED  BY <1>1, <1>10, <2>6, <2>7 DEF WithdrawReads, Typed, TypeOK
<1>11. CASE Withdraws(c)
  <2>1. PICK n \in Int : n = -me.amount
    BY <1>1 DEF ClerkType
  <2>2. me.r \in Resources /\ Moved(me.r, n)
    BY <1>1, <1>11, <2>1 DEF Withdraws, ClerkType
  <2>3. /\ stock' \in [Resources -> Int] /\ \A q \in Resources \ Rationed : stock'[q] >= 0
        /\ ledger' \in [Resources -> Int] /\ uncovered' \in [Resources -> Int]
    BY <2>1, <2>2, MovedOK
  <2>4. clerk' \in [Clerks -> ClerkType] /\ \A k \in Clerks : ClerkOK(clerk'[k])
    BY <1>2, <1>3, <1>11 DEF Withdraws
  <2>. QED  BY <1>1, <1>11, <2>3, <2>4 DEF Withdraws, Typed, TypeOK
<1>12. QED
  BY <1>5, <1>6, <1>7, <1>8, <1>9, <1>10, <1>11

\* The other steps, by what they are.
LEMMA OtherTyped ==
    ASSUME Typed,
           \/ Tick
           \/ \E h \in Runs : Midnight(h) \/ (\E k \in Days \ {0} : Advances(h, k)) \/ CycleStops(h)
           \/ \E r \in Resources, n \in Amounts : Moves(r, n) \/ Moves(r, -n)
           \/ \E w \in Workers, d \in Days, n \in Amounts : Registers(w, d, n)
           \/ \E c \in Clerks : RequestStops(c)
           \/ \E r \in Resources : Resolves(r)
           \/ UNCHANGED vars
    PROVE  Typed'
<1> USE DEF tables, drift, handlers, None
<1>1. TypeOK /\ requests \in Nat /\ faults \in Nat /\ cycles \in Nat /\ day \in Days
      /\ owed \in [Runs -> Nat] /\ Days \subseteq Nat
  BY DEF Typed, TypeOK, Days
<1>2. ASSUME Requested
      PROVE  requests' \in Nat /\ disturbed' \in BOOLEAN
  <2>1. disturbed' \in BOOLEAN
    BY <1>2, Zenon DEF Requested
  <2>2. QED
    BY <1>1, <1>2, <2>1 DEF Requested
<1>3. CASE Tick
  BY <1>1, <1>3 DEF Tick, Typed, TypeOK
<1>4. ASSUME NEW h \in Runs, Midnight(h)
      PROVE  Typed'
  BY <1>1, <1>4 DEF Midnight, Typed, TypeOK
<1>5. ASSUME NEW h \in Runs, NEW k \in Days \ {0}, Advances(h, k)
      PROVE  Typed'
  <2>1. k \in Nat
    BY <1>1
  <2>2. owed' \in [Runs -> Nat] /\ cycles' \in Nat /\ day' \in Days
    BY <1>1, <1>5, <2>1 DEF Advances
  <2>3. QED
    BY <1>1, <1>5, <2>2 DEF Advances, Typed, TypeOK
<1>6. ASSUME NEW h \in Runs, CycleStops(h)
      PROVE  Typed'
  <2>1. run' \in [Runs -> RunType] /\ \A k \in Runs : RunOK(run'[k])
    BY <1>6, BecomeOK, RestTypes DEF CycleStops
  <2>2. owed' \in [Runs -> Nat] /\ faults' \in Nat /\ disturbed' \in BOOLEAN
    BY <1>1, <1>6 DEF CycleStops, Fault
  <2>3. QED
    BY <1>1, <1>6, <2>1, <2>2 DEF CycleStops, Fault, Typed, TypeOK
<1>7. ASSUME NEW r \in Resources, NEW n \in Int, Moves(r, n)
      PROVE  Typed'
  <2>1. /\ stock' \in [Resources -> Int] /\ \A q \in Resources \ Rationed : stock'[q] >= 0
        /\ ledger' \in [Resources -> Int] /\ uncovered' \in [Resources -> Int]
    BY <1>7, MovedOK DEF Moves
  <2>2. requests' \in Nat /\ disturbed' \in BOOLEAN
    BY <1>2, <1>7 DEF Moves
  <2>3. QED
    BY <1>1, <1>7, <2>1, <2>2 DEF Moves, Typed, TypeOK
<1>8. ASSUME NEW w \in Workers, NEW d \in Days, NEW n \in Amounts, Registers(w, d, n)
      PROVE  Typed'
  <2>1. record' \in [Workers -> [Days -> Nat \cup {None}]]
    <3>1. n \in Nat /\ record \in [Workers -> [Days -> Nat \cup {None}]]
      BY <1>1, InventoryAssumption DEF TypeOK
    <3>2. record' = [record EXCEPT ![w][d] = n]
      BY <1>8 DEF Registers
    <3>3. QED
      BY <3>1, <3>2
  <2>2. requests' \in Nat /\ disturbed' \in BOOLEAN
    BY <1>2, <1>8 DEF Registers
  <2>3. QED
    BY <1>1, <1>8, <2>1, <2>2 DEF Registers, Typed, TypeOK
<1>9. ASSUME NEW c \in Clerks, RequestStops(c)
      PROVE  Typed'
  <2>1. clerk' \in [Clerks -> ClerkType] /\ \A k \in Clerks : ClerkOK(clerk'[k])
    BY <1>9, SetOK, RestTypes DEF RequestStops
  <2>2. QED
    BY <1>1, <1>9, <2>1 DEF RequestStops, Fault, Typed, TypeOK
<1>10. ASSUME NEW r \in Resources, Resolves(r)
       PROVE  Typed'
  <2>1. alerts' \in [Resources -> Nat]
    BY <1>1, <1>10 DEF Resolves, Add, TypeOK
  <2>2. requests' \in Nat /\ disturbed' \in BOOLEAN
    BY <1>2, <1>10 DEF Resolves
  <2>3. QED
    BY <1>1, <1>10, <2>1, <2>2 DEF Resolves, Typed, TypeOK
<1>11. CASE UNCHANGED vars
  BY <1>1, <1>11 DEF vars, Typed, TypeOK
<1>12. \A n \in Amounts : n \in Int /\ -n \in Int
  <2>1. Amounts \subseteq Nat
    BY InventoryAssumption
  <2>2. \A n \in Nat : n \in Int /\ -n \in Int
    OBVIOUS
  <2>3. QED
    BY <2>1, <2>2
<1>13. ASSUME NEW r \in Resources, NEW n \in Amounts, Moves(r, n) \/ Moves(r, -n)
       PROVE  Typed'
  <2>1. CASE Moves(r, n)
    BY <1>7, <1>12, <2>1
  <2>2. PICK m \in Int : m = -n
    BY <1>12
  <2>3. CASE Moves(r, m)
    BY <1>7, <2>3
  <2>4. QED
    BY <1>13, <2>1, <2>2, <2>3
<1>14. QED
  BY <1>3, <1>4, <1>5, <1>6, <1>8, <1>9, <1>10, <1>11, <1>13, Zenon

LEMMA StepTyped == Typed /\ [Next]_vars => Typed'
BY CycleTyped, RequestTyped, OtherTyped DEF Next

\* For any resources, workers and cycles: every variable keeps its type, and the stock
\* of what is not rationed is never negative.
THEOREM TypeCorrect == Spec => []TypeOK
<1>1. Init => Typed
  BY InitTyped
<1>2. Typed /\ [Next]_vars => Typed'
  BY StepTyped
<1>3. Typed => TypeOK
  BY DEF Typed
<1>4. QED
  BY <1>1, <1>2, <1>3, PTL DEF Spec

-----------------------------------------------------------------------------
(* Counting cycles.                                                        *)

\* A set of cycles, when one of them has moved.
LEMMA Counting ==
    ASSUME NEW S \in SUBSET Runs, NEW T \in SUBSET Runs, NEW h \in Runs,
           \A k \in Runs \ {h} : k \in S <=> k \in T
    PROVE  /\ Cardinality(S) \in Nat /\ Cardinality(T) \in Nat
           /\ Cardinality(T) <= Cardinality(Runs) /\ Cardinality(Runs) \in Nat
           /\ Cardinality(T) <= Cardinality(S) + 1
           /\ h \notin T => Cardinality(T) <= Cardinality(S)
           /\ h \in S => Cardinality(T) <= Cardinality(S)
           /\ h \in S /\ h \notin T => Cardinality(T) = Cardinality(S) - 1
<1>1. IsFiniteSet(S) /\ IsFiniteSet(T) /\ IsFiniteSet(S \cup {h}) /\ IsFiniteSet(S \ {h})
  BY FS_Subset, InventoryAssumption
<1>2. /\ Cardinality(S) \in Nat /\ Cardinality(T) \in Nat /\ Cardinality(Runs) \in Nat
      /\ Cardinality(S \cup {h}) \in Nat /\ Cardinality(S \ {h}) \in Nat
  BY <1>1, FS_CardinalityType, InventoryAssumption
<1>3. Cardinality(T) <= Cardinality(Runs)
  BY FS_Subset, InventoryAssumption
<1>4. T \subseteq S \cup {h} /\ (h \notin T => T = S \ {h}) /\ (h \in S => T \subseteq S)
  OBVIOUS
<1>5. Cardinality(S \cup {h}) = IF h \in S THEN Cardinality(S) ELSE Cardinality(S) + 1
  BY <1>1, FS_AddElement
<1>6. Cardinality(S \ {h}) = IF h \in S THEN Cardinality(S) - 1 ELSE Cardinality(S)
  BY <1>1, FS_RemoveElement
<1>7. Cardinality(T) <= Cardinality(S \cup {h})
  BY <1>1, <1>4, FS_Subset
<1>8. h \in S => Cardinality(T) <= Cardinality(S)
  BY <1>1, <1>4, FS_Subset
<1>9. h \notin T => Cardinality(T) = Cardinality(S \ {h})
  BY <1>4
<1>10. Cardinality(T) <= Cardinality(S) + 1
  BY <1>2, <1>5, <1>7
<1>11. h \notin T => Cardinality(T) <= Cardinality(S)
  BY <1>2, <1>6, <1>9
<1>12. h \in S /\ h \notin T => Cardinality(T) = Cardinality(S) - 1
  BY <1>6, <1>9
<1>13. QED
  BY <1>2, <1>3, <1>8, <1>10, <1>11, <1>12

\* Two sets of cycles without one in common.
LEMMA CountingApart ==
    ASSUME NEW S \in SUBSET Runs, NEW T \in SUBSET Runs, S \cap T = {}
    PROVE  /\ Cardinality(S) \in Nat /\ Cardinality(T) \in Nat /\ Cardinality(Runs) \in Nat
           /\ Cardinality(S) + Cardinality(T) <= Cardinality(Runs)
<1>1. IsFiniteSet(S) /\ IsFiniteSet(T) /\ IsFiniteSet(S \cup T) /\ S \cup T \subseteq Runs
  BY FS_Subset, InventoryAssumption
<1>2. Cardinality(S \cup T) <= Cardinality(Runs)
  BY <1>1, FS_Subset, InventoryAssumption
<1>3. IsFiniteSet(S \cap T) /\ Cardinality(S \cap T) = 0
  BY FS_EmptySet
<1>4. Cardinality(S \cup T) = Cardinality(S) + Cardinality(T) - Cardinality(S \cap T)
  BY <1>1, FS_Union
<1>5. Cardinality(S) \in Nat /\ Cardinality(T) \in Nat /\ Cardinality(Runs) \in Nat
  BY <1>1, FS_CardinalityType, InventoryAssumption
<1>6. QED
  BY <1>2, <1>3, <1>4, <1>5

-----------------------------------------------------------------------------
(* Alerts.                                                                 *)

Raising(r) == {h \in Runs : run[h].pc = "raise" /\ First(run[h].todo) = r}

\* An alert and each cycle about to write one are of different cycles.
AlertsCounted == \A r \in Resources : alerts[r] + Cardinality(Raising(r)) <= Cardinality(Runs)

\* After the step of a cycle.
LEMMA RaisingStep ==
    ASSUME Typed, NEW h \in Runs, NEW next, Become(h, next), NEW r
    PROVE  /\ Raising(r) \in SUBSET Runs /\ Raising(r)' \in SUBSET Runs
           /\ \A k \in Runs \ {h} : k \in Raising(r) <=> k \in Raising(r)'
           /\ h \in Raising(r)' <=> next.pc = "raise" /\ First(next.todo) = r
<1>1. \A k \in Runs : run'[k] = IF k = h THEN next ELSE run[k]
  BY DEF Become, Typed, TypeOK
<1>2. QED
  BY <1>1 DEF Raising

\* A cycle that does not go to "raise" and leaves the alerts, or only resolves one.
LEMMA AlertsQuiet ==
    ASSUME Typed, AlertsCounted, NEW h \in Runs, NEW next, Become(h, next), next.pc # "raise",
           UNCHANGED alerts
    PROVE  AlertsCounted'
<1> SUFFICES ASSUME NEW r \in Resources
             PROVE  (alerts[r] + Cardinality(Raising(r)) <= Cardinality(Runs))'
  BY DEF AlertsCounted
<1>1. Cardinality(Raising(r)') <= Cardinality(Raising(r)) /\ Cardinality(Raising(r)) \in Nat
      /\ Cardinality(Raising(r)') \in Nat /\ Cardinality(Runs) \in Nat
  BY RaisingStep, Counting
<1>2. alerts[r] \in Nat /\ alerts[r] + Cardinality(Raising(r)) <= Cardinality(Runs)
  BY DEF Typed, TypeOK, AlertsCounted
<1>3. QED
  BY <1>1, <1>2

LEMMA CycleAlerts ==
    ASSUME Typed, AlertsCounted, NEW h \in Runs, Cycle(h)
    PROVE  AlertsCounted'
<1> DEFINE me == run[h]
<1>1. me \in RunType /\ (me.pc \in {"read", "save", "book", "ask", "raise"} => me.todo # {})
      /\ (me.pc \in {"look", "move", "record"} => me.rows # {})
  BY DEF Typed, RunOK
<1>2. ASSUME NEW next, Become(h, next), next.pc # "raise", UNCHANGED alerts
      PROVE  AlertsCounted'
  BY <1>2, AlertsQuiet
<1>3. RunRest.pc # "raise" /\ NextRow(me).pc # "raise" /\ NextAlert(me).pc # "raise"
  BY <1>1 DEF RunRest, NextRow, AfterRows, NextAlert, RunType
<1>4. CASE Starts(h)
  <2>1. PICK next : Become(h, next) /\ next.pc # "raise"
    <3>1. PICK recorder \in BOOLEAN, rows \in SUBSET Workers :
               LET new == [RunRest EXCEPT !.day = day, !.recorder = recorder, !.rows = rows]
               IN  Become(h, IF rows = {} THEN AfterRows(new) ELSE [new EXCEPT !.pc = "look"])
      BY <1>4 DEF Starts
    <3> DEFINE new == [RunRest EXCEPT !.day = day, !.recorder = recorder, !.rows = rows]
    <3>2. AfterRows(new).pc # "raise" /\ [new EXCEPT !.pc = "look"].pc # "raise"
      BY DEF AfterRows, RunRest
    <3>3. QED
      BY <3>1, <3>2
  <2>2. QED
    BY <1>2, <1>4, <2>1 DEF Starts, tables
<1>5. CASE Looks(h)
  <2>1. [me EXCEPT !.pc = "move"].pc # "raise"
    BY <1>1 DEF RunType
  <2>2. QED
    BY <1>2, <1>3, <1>5, <2>1 DEF Looks, tables
<1>6. CASE Collects(h)
  <2>1. [me EXCEPT !.pc = "record"].pc # "raise"
    BY <1>1 DEF RunType
  <2>2. QED
    BY <1>2, <1>6, <2>1 DEF Collects
<1>7. CASE Records(h)
  BY <1>2, <1>3, <1>7 DEF Records
<1>8. CASE ReadsStock(h)
  <2>1. [me EXCEPT !.pc = "save", !.seen = stock[First(me.todo)]].pc # "raise"
    BY <1>1 DEF RunType
  <2>2. QED
    BY <1>2, <1>8, <2>1 DEF ReadsStock, tables
<1>9. CASE SavesStock(h)
  <2>1. [me EXCEPT !.pc = "book", !.seen = 0].pc # "raise"
    BY <1>1 DEF RunType
  <2>2. QED
    BY <1>2, <1>9, <2>1 DEF SavesStock
<1>10. CASE BooksChange(h)
  <2>1. PICK next \in AfterBook(me) : Become(h, next)
    BY <1>10 DEF BooksChange
  <2>2. next.pc # "raise"
    BY <1>10, <2>1, AfterBookOK DEF BooksChange, At, Typed
  <2>3. QED
    BY <1>2, <1>10, <2>1, <2>2 DEF BooksChange
<1>11. CASE ReadsStocks(h)
  <2>1. \A S : [me EXCEPT !.pc = "ask", !.todo = S].pc # "raise"
    BY <1>1 DEF RunType
  <2>2. QED
    BY <1>2, <1>3, <1>11, <2>1 DEF ReadsStocks, tables
<1>12. CASE AsksAlert(h)
  <2>1. CASE Alerted(First(me.todo))
    BY <1>2, <1>3, <1>12, <2>1 DEF AsksAlert, tables
  <2>2. CASE ~Alerted(First(me.todo))
    <3> DEFINE next == [me EXCEPT !.pc = "raise"]
    <3>1. Become(h, next) /\ UNCHANGED alerts
      BY <1>12, <2>2 DEF AsksAlert, tables
    <3>2. next.todo = me.todo /\ me.pc # "raise"
      BY <1>1, <1>12 DEF RunType, AsksAlert, At
    <3> SUFFICES ASSUME NEW r \in Resources
                 PROVE  (alerts[r] + Cardinality(Raising(r)) <= Cardinality(Runs))'
      BY DEF AlertsCounted
    <3>3. alerts[r] \in Nat /\ alerts[r] + Cardinality(Raising(r)) <= Cardinality(Runs)
      BY DEF Typed, TypeOK, AlertsCounted
    <3>4. /\ Cardinality(Raising(r)) \in Nat /\ Cardinality(Raising(r)') \in Nat
          /\ Cardinality(Raising(r)') <= Cardinality(Runs) /\ Cardinality(Runs) \in Nat
          /\ (h \notin Raising(r)' => Cardinality(Raising(r)') <= Cardinality(Raising(r)))
      BY <3>1, RaisingStep, Counting
    <3>5. CASE r = First(me.todo)
      <4>1. alerts[r] = 0
        BY <2>2, <3>3, <3>5 DEF Alerted
      <4>2. QED
        BY <3>1, <3>4, <4>1
    <3>6. CASE r # First(me.todo)
      <4>1. h \notin Raising(r)'
        <5>1. First(next.todo) # r
          BY <3>2, <3>6
        <5>2. \A nx : Become(h, nx) /\ First(nx.todo) # r => h \notin Raising(r)'
          BY RaisingStep
        <5>3. QED
          BY <3>1, <5>1, <5>2
      <4>2. QED
        BY <3>1, <3>3, <3>4, <4>1
    <3>7. QED
      BY <3>5, <3>6
  <2>3. QED
    BY <2>1, <2>2
<1>13. CASE Raises(h)
  <2> DEFINE next == NextAlert(me)
  <2>1. Become(h, next) /\ alerts' = Add(alerts, First(me.todo), 1) /\ me.pc = "raise"
    BY <1>13 DEF Raises, At
  <2> SUFFICES ASSUME NEW r \in Resources
               PROVE  (alerts[r] + Cardinality(Raising(r)) <= Cardinality(Runs))'
    BY DEF AlertsCounted
  <2>2. alerts[r] \in Nat /\ alerts \in [Resources -> Nat]
        /\ alerts[r] + Cardinality(Raising(r)) <= Cardinality(Runs)
    BY DEF Typed, TypeOK, AlertsCounted
  <2>3. h \notin Raising(r)'
    BY <1>3, <2>1, RaisingStep
  <2>4. /\ Cardinality(Raising(r)) \in Nat /\ Cardinality(Raising(r)') \in Nat
        /\ Cardinality(Raising(r)') <= Cardinality(Raising(r)) /\ Cardinality(Runs) \in Nat
        /\ (h \in Raising(r) => Cardinality(Raising(r)') = Cardinality(Raising(r)) - 1)
    BY <2>1, <2>3, RaisingStep, Counting
  <2>5. CASE r = First(me.todo)
    <3>1. h \in Raising(r) /\ alerts'[r] = alerts[r] + 1
      BY <2>1, <2>2, <2>5 DEF Raising, Add
    <3>2. QED
      BY <2>2, <2>4, <3>1
  <2>6. CASE r # First(me.todo)
    <3>1. alerts'[r] = alerts[r]
      BY <2>1, <2>2, <2>6 DEF Add
    <3>2. QED
      BY <2>2, <2>4, <3>1
  <2>7. QED
    BY <2>5, <2>6
<1>14. QED
  BY <1>4, <1>5, <1>6, <1>7, <1>8, <1>9, <1>10, <1>11, <1>12, <1>13 DEF Cycle

LEMMA StepAlerts ==
    ASSUME Typed, AlertsCounted, [Next]_vars
    PROVE  AlertsCounted'
<1> USE DEF tables, drift, handlers
<1>1. ASSUME UNCHANGED <<run, alerts>>
      PROVE  AlertsCounted'
  BY <1>1 DEF AlertsCounted, Raising
<1>2. ASSUME NEW h \in Runs, CycleStops(h)
      PROVE  AlertsCounted'
  <2>1. RunRest.pc # "raise"
    BY DEF RunRest
  <2>2. QED
    BY <1>2, <2>1, AlertsQuiet DEF CycleStops, Fault
<1>3. ASSUME NEW r \in Resources, Resolves(r)
      PROVE  AlertsCounted'
  <2> SUFFICES ASSUME NEW q \in Resources
               PROVE  (alerts[q] + Cardinality(Raising(q)) <= Cardinality(Runs))'
    BY DEF AlertsCounted
  <2>1. alerts \in [Resources -> Nat] /\ alerts' = Add(alerts, r, -1)
        /\ alerts[q] + Cardinality(Raising(q)) <= Cardinality(Runs)
    BY <1>3 DEF Resolves, Typed, TypeOK, AlertsCounted
  <2>2. Raising(q)' = Raising(q)
    BY <1>3 DEF Resolves, Raising
  <2>3. Raising(q) \in SUBSET Runs
    BY DEF Raising
  <2>4. Cardinality(Raising(q)) \in Nat /\ Cardinality(Runs) \in Nat
    BY <2>3, FS_Subset, FS_CardinalityType, InventoryAssumption
  <2>5. alerts'[q] \in Int /\ alerts'[q] <= alerts[q] /\ alerts[q] \in Nat
    BY <2>1 DEF Add
  <2>6. QED
    BY <2>1, <2>2, <2>4, <2>5
<1>4. CASE Tick \/ UNCHANGED vars
  BY <1>1, <1>4 DEF Tick, vars
<1>5. ASSUME NEW h \in Runs, Midnight(h) \/ \E k \in Days \ {0} : Advances(h, k)
      PROVE  AlertsCounted'
  BY <1>1, <1>5 DEF Midnight, Advances
<1>6. ASSUME NEW r, NEW n, Moves(r, n)
      PROVE  AlertsCounted'
  BY <1>1, <1>6 DEF Moves
<1>7. ASSUME NEW w, NEW d, NEW n, Registers(w, d, n)
      PROVE  AlertsCounted'
  BY <1>1, <1>7 DEF Registers
<1>8. ASSUME NEW c \in Clerks,
             \/ WithdrawReads(c) \/ Withdraws(c) \/ AdjustReads(c) \/ AdjustSaves(c)
             \/ AdjustMoves(c) \/ EditFinds(c) \/ EditSaves(c) \/ RequestStops(c)
      PROVE  AlertsCounted'
  BY <1>1, <1>8 DEF WithdrawReads, Withdraws, AdjustReads, AdjustSaves, AdjustMoves, EditFinds, EditSaves, RequestStops, Fault
<1>9. QED
  BY <1>2, <1>3, <1>4, <1>5, <1>6, <1>7, <1>8, CycleAlerts DEF Next

\* For any resources and cycles: a resource has no more open alerts than cycles that
\* may be active at once.
THEOREM AlertsBounded == Spec => []OneAlertPerRun
<1>1. Init => Typed /\ AlertsCounted
  <2>1. ASSUME Init, NEW r \in Resources
        PROVE  alerts[r] + Cardinality(Raising(r)) <= Cardinality(Runs)
    <3>1. Raising(r) = {} /\ alerts[r] = 0
      BY <2>1 DEF Init, Raising, RunRest
    <3>2. Cardinality(Runs) \in Nat
      BY FS_CardinalityType, InventoryAssumption
    <3>3. QED
      BY <3>1, <3>2, FS_EmptySet
  <2>2. QED
    BY <2>1, InitTyped DEF AlertsCounted
<1>2. Typed /\ AlertsCounted /\ [Next]_vars => (Typed /\ AlertsCounted)'
  BY StepTyped, StepAlerts
<1>3. Typed /\ AlertsCounted => OneAlertPerRun
  <2> SUFFICES ASSUME Typed, AlertsCounted, NEW r \in Resources
               PROVE  alerts[r] <= Cardinality(Runs)
    BY DEF OneAlertPerRun
  <2>1. Raising(r) \in SUBSET Runs
    BY DEF Raising
  <2>2. Cardinality(Raising(r)) \in Nat /\ Cardinality(Runs) \in Nat
    BY <2>1, FS_Subset, FS_CardinalityType, InventoryAssumption
  <2>3. QED
    BY <2>2 DEF AlertsCounted, Typed, TypeOK
<1>4. QED
  BY <1>1, <1>2, <1>3, PTL DEF Spec

-----------------------------------------------------------------------------
(* Collections.                                                            *)

Moving(w, d) ==
    {h \in Runs : run[h].pc = "move" /\ run[h].day = d /\ First(run[h].rows) = w}

Recording(w, d) ==
    {h \in Runs : run[h].pc = "record" /\ run[h].day = d /\ First(run[h].rows) = w}

\* Until the record is there each collection is of a cycle about to record it, or of one
\* that stopped; after that only the cycles that had not found it still collect.
CountedAt(w, d) ==
    IF record[w][d] = None
    THEN collections[w][d] <= Cardinality(Recording(w, d)) + faults
    ELSE collections[w][d] + Cardinality(Moving(w, d)) <= Cardinality(Runs) + faults

CollectionsCounted == \A w \in Workers, d \in Days : CountedAt(w, d)

LEMMA CountTypes ==
    ASSUME NEW w, NEW d
    PROVE  /\ Moving(w, d) \in SUBSET Runs /\ Recording(w, d) \in SUBSET Runs
           /\ Cardinality(Moving(w, d)) \in Nat /\ Cardinality(Recording(w, d)) \in Nat
           /\ Cardinality(Runs) \in Nat
           /\ Cardinality(Recording(w, d)) + Cardinality(Moving(w, d)) <= Cardinality(Runs)
<1>1. Moving(w, d) \in SUBSET Runs /\ Recording(w, d) \in SUBSET Runs
  BY DEF Moving, Recording
<1>2. Recording(w, d) \cap Moving(w, d) = {}
  BY DEF Moving, Recording
<1>3. QED
  BY <1>1, <1>2, CountingApart

\* After the step of a cycle.
LEMMA CollectingStep ==
    ASSUME Typed, NEW h \in Runs, NEW next, Become(h, next), NEW w, NEW d
    PROVE  /\ \A k \in Runs \ {h} : k \in Moving(w, d) <=> k \in Moving(w, d)'
           /\ \A k \in Runs \ {h} : k \in Recording(w, d) <=> k \in Recording(w, d)'
           /\ h \in Moving(w, d)' <=> next.pc = "move" /\ next.day = d /\ First(next.rows) = w
           /\ h \in Recording(w, d)' <=> next.pc = "record" /\ next.day = d /\ First(next.rows) = w
           /\ Moving(w, d)' \in SUBSET Runs /\ Recording(w, d)' \in SUBSET Runs
           /\ Cardinality(Moving(w, d)') \in Nat /\ Cardinality(Recording(w, d)') \in Nat
<1>1. \A k \in Runs : run'[k] = IF k = h THEN next ELSE run[k]
  BY DEF Become, Typed, TypeOK
<1>2. Moving(w, d)' \in SUBSET Runs /\ Recording(w, d)' \in SUBSET Runs
  BY DEF Moving, Recording
<1>3. Cardinality(Moving(w, d)') \in Nat /\ Cardinality(Recording(w, d)') \in Nat
  BY <1>2, FS_Subset, FS_CardinalityType, InventoryAssumption
<1>4. QED
  BY <1>1, <1>2, <1>3 DEF Moving, Recording

\* Of a worker and day a cycle does not come to collect, and has not collected alone.
LEMMA CollectQuiet ==
    ASSUME Typed, NEW w \in Workers, NEW d \in Days, CountedAt(w, d),
           NEW h \in Runs, NEW next, Become(h, next),
           record'[w][d] = record[w][d], collections'[w][d] = collections[w][d],
           \/ faults' = faults /\ (h \notin Recording(w, d) \/ record[w][d] # None)
           \/ faults' = faults + 1,
           h \notin Moving(w, d)' \/ record[w][d] = None
    PROVE  CountedAt(w, d)'
<1> USE DEF None
<1>1. /\ collections[w][d] \in Nat /\ faults \in Nat
  BY DEF Typed, TypeOK
<1>2. /\ Moving(w, d) \in SUBSET Runs /\ Recording(w, d) \in SUBSET Runs
      /\ Cardinality(Moving(w, d)) \in Nat /\ Cardinality(Recording(w, d)) \in Nat
      /\ Cardinality(Runs) \in Nat
  BY CountTypes
<1>3. /\ \A k \in Runs \ {h} : k \in Moving(w, d) <=> k \in Moving(w, d)'
      /\ \A k \in Runs \ {h} : k \in Recording(w, d)' <=> k \in Recording(w, d)
      /\ Moving(w, d)' \in SUBSET Runs /\ Recording(w, d)' \in SUBSET Runs
      /\ Cardinality(Moving(w, d)') \in Nat /\ Cardinality(Recording(w, d)') \in Nat
  BY CollectingStep
<1>4. h \notin Moving(w, d)' => Cardinality(Moving(w, d)') <= Cardinality(Moving(w, d))
  BY <1>2, <1>3, Counting
<1>5. /\ Cardinality(Recording(w, d)) <= Cardinality(Recording(w, d)') + 1
      /\ h \notin Recording(w, d) => Cardinality(Recording(w, d)) <= Cardinality(Recording(w, d)')
  BY <1>2, <1>3, Counting
<1>6. CASE record[w][d] = None
  <2>1. collections[w][d] <= Cardinality(Recording(w, d)) + faults
    BY <1>6 DEF CountedAt
  <2>2. collections'[w][d] <= Cardinality(Recording(w, d)') + faults'
    BY <1>1, <1>2, <1>3, <1>5, <1>6, <2>1
  <2>3. QED
    BY <1>6, <2>2 DEF CountedAt
<1>7. CASE record[w][d] # None
  <2>1. collections[w][d] + Cardinality(Moving(w, d)) <= Cardinality(Runs) + faults
    BY <1>7 DEF CountedAt
  <2>2. collections'[w][d] + Cardinality(Moving(w, d)') <= Cardinality(Runs) + faults'
    BY <1>1, <1>2, <1>3, <1>4, <1>7, <2>1
  <2>3. QED
    BY <1>7, <2>2 DEF CountedAt
<1>8. QED
  BY <1>6, <1>7

\* A cycle that does not collect or record.
LEMMA CollectElsewhere ==
    ASSUME Typed, CollectionsCounted, NEW h \in Runs, NEW next, Become(h, next),
           next.pc \notin {"move", "record"}, run[h].pc # "record",
           UNCHANGED <<record, collections, faults>>
    PROVE  CollectionsCounted'
<1> SUFFICES ASSUME NEW w \in Workers, NEW d \in Days
             PROVE  CountedAt(w, d)'
  BY DEF CollectionsCounted
<1>1. CountedAt(w, d)
  BY DEF CollectionsCounted
<1>2. h \notin Recording(w, d)
  BY DEF Recording
<1>3. h \notin Moving(w, d)'
  BY CollectingStep
<1>4. QED
  BY <1>1, <1>2, <1>3, CollectQuiet

\* A record that is written by a request.
LEMMA RecordWritten ==
    ASSUME Typed, CollectionsCounted, NEW w \in Workers, NEW d \in Days, NEW n \in Nat,
           record' = [record EXCEPT ![w][d] = n], UNCHANGED <<run, collections, faults>>
    PROVE  CollectionsCounted'
<1> USE DEF None
<1> SUFFICES ASSUME NEW v \in Workers, NEW e \in Days
             PROVE  CountedAt(v, e)'
  BY DEF CollectionsCounted
<1>1. CountedAt(v, e) /\ collections[v][e] \in Nat /\ faults \in Nat
      /\ record \in [Workers -> [Days -> Nat \cup {None}]]
  BY DEF CollectionsCounted, Typed, TypeOK
<1>2. Moving(v, e)' = Moving(v, e) /\ Recording(v, e)' = Recording(v, e)
  BY DEF Moving, Recording
<1>3. CASE v = w /\ e = d
  <2>1. record'[v][e] # None
    BY <1>1, <1>3
  <2>2. collections[v][e] + Cardinality(Moving(v, e)) <= Cardinality(Runs) + faults
    BY <1>1, CountTypes DEF CountedAt
  <2>3. QED
    BY <1>2, <2>1, <2>2 DEF CountedAt
<1>4. CASE ~(v = w /\ e = d)
  <2>1. record'[v][e] = record[v][e]
    BY <1>1, <1>4
  <2>2. QED
    BY <1>1, <1>2, <2>1 DEF CountedAt
<1>5. QED
  BY <1>3, <1>4

LEMMA CycleCollections ==
    ASSUME Typed, CollectionsCounted, NEW h \in Runs, Cycle(h)
    PROVE  CollectionsCounted'
<1> USE DEF None
<1> DEFINE me == run[h]
           v == First(me.rows)
           e == me.day
<1>1. me \in RunType /\ (me.pc \in {"look", "move", "record"} => me.rows # {}) /\ RunOK(me)
  BY DEF Typed, RunOK
<1>2. ASSUME NEW next, Become(h, next), next.pc \notin {"move", "record"}, me.pc # "record",
             UNCHANGED <<record, collections, faults>>
      PROVE  CollectionsCounted'
  BY <1>2, CollectElsewhere
<1>3. /\ RunRest.pc \notin {"move", "record"} /\ NextRow(me).pc \notin {"move", "record"}
      /\ NextAlert(me).pc \notin {"move", "record"}
  BY <1>1 DEF RunRest, NextRow, AfterRows, NextAlert, RunType
<1>4. me.pc \in {"look", "move", "record"} => v \in Workers /\ e \in Days
  BY <1>1, FirstIn DEF RunType
<1>5. /\ record \in [Workers -> [Days -> Nat \cup {None}]]
      /\ collections \in [Workers -> [Days -> Nat]] /\ faults \in Nat
  BY DEF Typed, TypeOK
<1>6. CASE Starts(h)
  <2>1. PICK next : Become(h, next) /\ next.pc \notin {"move", "record"}
    <3>1. PICK recorder \in BOOLEAN, rows \in SUBSET Workers :
               LET new == [RunRest EXCEPT !.day = day, !.recorder = recorder, !.rows = rows]
               IN  Become(h, IF rows = {} THEN AfterRows(new) ELSE [new EXCEPT !.pc = "look"])
      BY <1>6 DEF Starts
    <3> DEFINE new == [RunRest EXCEPT !.day = day, !.recorder = recorder, !.rows = rows]
    <3>2. /\ AfterRows(new).pc \notin {"move", "record"}
          /\ [new EXCEPT !.pc = "look"].pc \notin {"move", "record"}
      BY DEF AfterRows, RunRest
    <3>3. QED
      BY <3>1, <3>2
  <2>2. QED
    BY <1>2, <1>6, <2>1 DEF Starts, tables, At
<1>7. CASE Looks(h)
  <2>1. CASE Collected(v, e)
    BY <1>2, <1>3, <1>7, <2>1 DEF Looks, tables, At
  <2>2. CASE ~Collected(v, e)
    <3> DEFINE next == [me EXCEPT !.pc = "move"]
    <3>1. Become(h, next) /\ UNCHANGED <<record, collections, faults>> /\ me.pc = "look"
      BY <1>7, <2>2 DEF Looks, tables, At
    <3>2. next.pc = "move" /\ next.day = e /\ next.rows = me.rows
      BY <1>1 DEF RunType
    <3> SUFFICES ASSUME NEW w \in Workers, NEW d \in Days
                 PROVE  CountedAt(w, d)'
      BY DEF CollectionsCounted
    <3>3. CountedAt(w, d) /\ h \notin Recording(w, d)
      BY <3>1 DEF CollectionsCounted, Recording
    <3>4. h \notin Moving(w, d)' \/ record[w][d] = None
      <4>1. h \in Moving(w, d)' => w = v /\ d = e
        <5>1. \A nx : Become(h, nx) =>
                  (h \in Moving(w, d)' => nx.day = d /\ First(nx.rows) = w)
          BY CollectingStep
        <5>2. next.day = e /\ First(next.rows) = v
          BY <3>2
        <5>3. QED
          BY <3>1, <5>1, <5>2
      <4>2. QED
        BY <2>2, <4>1 DEF Collected
    <3>5. QED
      BY <3>1, <3>3, <3>4, CollectQuiet
  <2>3. QED
    BY <2>1, <2>2
<1>8. CASE Collects(h)
  <2> DEFINE next == [me EXCEPT !.pc = "record"]
  <2>1. /\ Become(h, next) /\ UNCHANGED <<record, faults>> /\ me.pc = "move"
        /\ collections' = [collections EXCEPT ![v][e] = @ + 1]
    BY <1>8 DEF Collects, At
  <2>2. next.pc = "record" /\ next.day = e /\ next.rows = me.rows /\ v \in Workers /\ e \in Days
    BY <1>1, <1>4, <2>1 DEF RunType
  <2> SUFFICES ASSUME NEW w \in Workers, NEW d \in Days
               PROVE  CountedAt(w, d)'
    BY DEF CollectionsCounted
  <2>3. CountedAt(w, d) /\ h \notin Recording(w, d)
    BY <2>1 DEF CollectionsCounted, Recording
  <2>4. h \notin Moving(w, d)' /\ (w = v /\ d = e => h \in Recording(w, d)')
    <3>1. \A nx : Become(h, nx) /\ nx.pc = "record" =>
              /\ h \notin Moving(w, d)'
              /\ nx.day = d /\ First(nx.rows) = w => h \in Recording(w, d)'
      BY CollectingStep
    <3>2. next.day = e /\ First(next.rows) = v /\ next.pc = "record"
      BY <2>2
    <3>3. QED
      BY <2>1, <3>1, <3>2
  <2>5. CASE w = v /\ d = e
    <3>1. h \in Moving(w, d)
      BY <2>1, <2>5 DEF Moving
    <3>2. h \in Recording(w, d)'
      BY <2>4, <2>5
    <3>3. collections'[w][d] = collections[w][d] + 1 /\ collections[w][d] \in Nat
      BY <1>5, <2>1, <2>2, <2>5
    <3>4. /\ \A k \in Runs \ {h} : k \in Moving(w, d) <=> k \in Moving(w, d)'
          /\ \A k \in Runs \ {h} : k \in Recording(w, d)' <=> k \in Recording(w, d)
          /\ Moving(w, d)' \in SUBSET Runs /\ Recording(w, d)' \in SUBSET Runs
          /\ Cardinality(Moving(w, d)') \in Nat /\ Cardinality(Recording(w, d)') \in Nat
      BY <2>1, CollectingStep
    <3>5. /\ Moving(w, d) \in SUBSET Runs /\ Recording(w, d) \in SUBSET Runs
          /\ Cardinality(Moving(w, d)) \in Nat /\ Cardinality(Recording(w, d)) \in Nat
          /\ Cardinality(Runs) \in Nat
      BY CountTypes
    <3>6. Cardinality(Moving(w, d)') = Cardinality(Moving(w, d)) - 1
      BY <2>4, <3>1, <3>4, <3>5, Counting
    <3>7. Cardinality(Recording(w, d)) = Cardinality(Recording(w, d)') - 1
      BY <2>3, <3>2, <3>4, <3>5, Counting
    <3>8. CASE record[w][d] = None
      <4>1. collections[w][d] <= Cardinality(Recording(w, d)) + faults
        BY <2>3, <3>8 DEF CountedAt
      <4>2. collections'[w][d] <= Cardinality(Recording(w, d)') + faults'
        BY <1>5, <2>1, <3>3, <3>4, <3>5, <3>7, <4>1
      <4>3. QED
        BY <2>1, <3>8, <4>2 DEF CountedAt
    <3>9. CASE record[w][d] # None
      <4>1. collections[w][d] + Cardinality(Moving(w, d)) <= Cardinality(Runs) + faults
        BY <2>3, <3>9 DEF CountedAt
      <4>2. collections'[w][d] + Cardinality(Moving(w, d)') <= Cardinality(Runs) + faults'
        BY <1>5, <2>1, <3>3, <3>4, <3>5, <3>6, <4>1
      <4>3. QED
        BY <2>1, <3>9, <4>2 DEF CountedAt
    <3>10. QED
      BY <3>8, <3>9
  <2>6. CASE ~(w = v /\ d = e)
    <3>1. collections'[w][d] = collections[w][d]
      BY <1>5, <2>1, <2>6
    <3>2. QED
      BY <2>1, <2>3, <2>4, <3>1, CollectQuiet
  <2>7. QED
    BY <2>5, <2>6
<1>9. CASE Records(h)
  <2>1. PICK next : Become(h, next) /\ next.pc \notin {"move", "record"}
    BY <1>3, <1>9 DEF Records
  <2>2. /\ UNCHANGED <<collections, faults>> /\ me.pc = "record" /\ v \in Workers /\ e \in Days
        /\ IF record[v][e] # None THEN record' = record
           ELSE record' = [record EXCEPT ![v][e] = Output]
    BY <1>4, <1>9 DEF Records, At
  <2>3. Output \in Nat
    BY InventoryAssumption
  <2> SUFFICES ASSUME NEW w \in Workers, NEW d \in Days
               PROVE  CountedAt(w, d)'
    BY DEF CollectionsCounted
  <2>4. CountedAt(w, d)
    BY DEF CollectionsCounted
  <2>5. h \notin Moving(w, d)'
    BY <2>1, CollectingStep
  <2>6. CASE w = v /\ d = e /\ record[v][e] = None
    <3>1. record'[w][d] # None
      BY <1>5, <2>2, <2>3, <2>6
    <3>2. collections[w][d] <= Cardinality(Recording(w, d)) + faults /\ collections[w][d] \in Nat
      BY <1>5, <2>4, <2>6 DEF CountedAt
    <3>3. Moving(w, d)' \in SUBSET Runs /\ Recording(w, d) \in SUBSET Runs
      BY DEF Moving, Recording
    <3>4. Recording(w, d) \cap Moving(w, d)' = {}
      <4>1. \A k \in Runs \ {h} : k \in Moving(w, d) <=> k \in Moving(w, d)'
        BY <2>1, CollectingStep
      <4>2. QED
        BY <2>5, <3>3, <4>1 DEF Moving, Recording
    <3>5. /\ Cardinality(Recording(w, d)) \in Nat /\ Cardinality(Moving(w, d)') \in Nat
          /\ Cardinality(Runs) \in Nat
          /\ Cardinality(Recording(w, d)) + Cardinality(Moving(w, d)') <= Cardinality(Runs)
      BY <3>3, <3>4, CountingApart
    <3>6. collections'[w][d] + Cardinality(Moving(w, d)') <= Cardinality(Runs) + faults'
      BY <1>5, <2>2, <3>2, <3>5
    <3>7. QED
      BY <3>1, <3>6 DEF CountedAt
  <2>7. CASE ~(w = v /\ d = e /\ record[v][e] = None)
    <3>1. record'[w][d] = record[w][d]
      BY <1>5, <2>2, <2>7
    <3>2. h \notin Recording(w, d) \/ record[w][d] # None
      BY <2>7 DEF Recording
    <3>3. QED
      BY <2>1, <2>2, <2>4, <2>5, <3>1, <3>2, CollectQuiet
  <2>8. QED
    BY <2>6, <2>7
<1>10. CASE ReadsStock(h)
  <2>1. [me EXCEPT !.pc = "save", !.seen = stock[First(me.todo)]].pc \notin {"move", "record"}
    BY <1>1 DEF RunType
  <2>2. QED
    BY <1>2, <1>10, <2>1 DEF ReadsStock, tables, At
<1>11. CASE SavesStock(h)
  <2>1. [me EXCEPT !.pc = "book", !.seen = 0].pc \notin {"move", "record"}
    BY <1>1 DEF RunType
  <2>2. QED
    BY <1>2, <1>11, <2>1 DEF SavesStock, At
<1>12. CASE BooksChange(h)
  <2>1. PICK next \in AfterBook(me) : Become(h, next)
    BY <1>12 DEF BooksChange
  <2>2. next.pc \notin {"move", "record"}
    BY <1>1, <1>12, <2>1, AfterBookOK DEF BooksChange, At
  <2>3. QED
    BY <1>2, <1>12, <2>1, <2>2 DEF BooksChange, At
<1>13. CASE ReadsStocks(h)
  <2>1. \A S : [me EXCEPT !.pc = "ask", !.todo = S].pc \notin {"move", "record"}
    BY <1>1 DEF RunType
  <2>2. QED
    BY <1>2, <1>3, <1>13, <2>1 DEF ReadsStocks, tables, At
<1>14. CASE AsksAlert(h)
  <2>1. [me EXCEPT !.pc = "raise"].pc \notin {"move", "record"}
    BY <1>1 DEF RunType
  <2>2. QED
    BY <1>2, <1>3, <1>14, <2>1 DEF AsksAlert, tables, At
<1>15. CASE Raises(h)
  BY <1>2, <1>3, <1>15 DEF Raises, At
<1>16. QED
  BY <1>6, <1>7, <1>8, <1>9, <1>10, <1>11, <1>12, <1>13, <1>14, <1>15 DEF Cycle

LEMMA StepCollections ==
    ASSUME Typed, CollectionsCounted, [Next]_vars
    PROVE  CollectionsCounted'
<1> USE DEF tables, drift, handlers
<1>1. ASSUME UNCHANGED <<run, record, collections, faults>>
      PROVE  CollectionsCounted'
  BY <1>1 DEF CollectionsCounted, CountedAt, Moving, Recording
<1>2. ASSUME NEW h \in Runs, CycleStops(h)
      PROVE  CollectionsCounted'
  <2> SUFFICES ASSUME NEW w \in Workers, NEW d \in Days
               PROVE  CountedAt(w, d)'
    BY DEF CollectionsCounted
  <2>1. CountedAt(w, d) /\ Become(h, RunRest) /\ faults' = faults + 1 /\ UNCHANGED <<record, collections>>
    BY <1>2 DEF CycleStops, Fault, CollectionsCounted
  <2>2. RunRest.pc # "move"
    BY DEF RunRest
  <2>3. h \notin Moving(w, d)'
    BY <2>1, <2>2, CollectingStep
  <2>4. QED
    BY <2>1, <2>3, CollectQuiet
<1>3. ASSUME NEW w \in Workers, NEW d \in Days, NEW n \in Amounts, Registers(w, d, n)
      PROVE  CollectionsCounted'
  BY <1>3, RecordWritten, InventoryAssumption DEF Registers
<1>4. ASSUME NEW c \in Clerks, AdjustSaves(c)
      PROVE  CollectionsCounted'
  <2>1. clerk[c].w \in Workers /\ clerk[c].day \in Days /\ clerk[c].amount \in Nat
    BY <1>4 DEF AdjustSaves, Typed, ClerkOK, ClerkType
  <2>2. QED
    BY <1>4, <2>1, RecordWritten DEF AdjustSaves
<1>5. ASSUME NEW c \in Clerks, RequestStops(c)
      PROVE  CollectionsCounted'
  <2> SUFFICES ASSUME NEW w \in Workers, NEW d \in Days
               PROVE  CountedAt(w, d)'
    BY DEF CollectionsCounted
  <2>1. CountedAt(w, d) /\ faults' = faults + 1 /\ UNCHANGED <<run, record, collections>>
    BY <1>5 DEF RequestStops, Fault, CollectionsCounted
  <2>2. Moving(w, d)' = Moving(w, d) /\ Recording(w, d)' = Recording(w, d)
    BY <2>1 DEF Moving, Recording
  <2>3. collections[w][d] \in Nat /\ faults \in Nat
    BY DEF Typed, TypeOK
  <2>4. QED
    BY <2>1, <2>2, <2>3, CountTypes DEF CountedAt
<1>6. CASE Tick \/ UNCHANGED vars
  BY <1>1, <1>6 DEF Tick, vars
<1>7. ASSUME NEW h \in Runs, Midnight(h) \/ \E k \in Days \ {0} : Advances(h, k)
      PROVE  CollectionsCounted'
  BY <1>1, <1>7 DEF Midnight, Advances
<1>8. ASSUME NEW r, NEW n, Moves(r, n)
      PROVE  CollectionsCounted'
  BY <1>1, <1>8 DEF Moves
<1>9. ASSUME NEW r, Resolves(r)
      PROVE  CollectionsCounted'
  BY <1>1, <1>9 DEF Resolves
<1>10. ASSUME NEW c \in Clerks,
              \/ WithdrawReads(c) \/ Withdraws(c) \/ AdjustReads(c) \/ AdjustMoves(c)
              \/ EditFinds(c) \/ EditSaves(c)
       PROVE  CollectionsCounted'
  BY <1>1, <1>10 DEF WithdrawReads, Withdraws, AdjustReads, AdjustMoves, EditFinds, EditSaves
<1>11. QED
  BY <1>2, <1>3, <1>4, <1>5, <1>6, <1>7, <1>8, <1>9, <1>10, CycleCollections DEF Next

\* For any workers and cycles: the collection of a worker and day is booked once for
\* each cycle that may be active at once and each handler that stopped, however many
\* cycles run.
THEOREM CollectionsBounded == Spec => []CollectedOnce
<1>1. Init => Typed /\ CollectionsCounted
  <2>1. ASSUME Init, NEW w \in Workers, NEW d \in Days
        PROVE  CountedAt(w, d)
    BY <2>1, CountTypes DEF Init, CountedAt, None
  <2>2. QED
    BY <2>1, InitTyped DEF CollectionsCounted
<1>2. Typed /\ CollectionsCounted /\ [Next]_vars => (Typed /\ CollectionsCounted)'
  BY StepTyped, StepCollections
<1>3. Typed /\ CollectionsCounted => CollectedOnce
  <2> SUFFICES ASSUME Typed, CollectionsCounted, NEW w \in Workers, NEW d \in Days
               PROVE  collections[w][d] <= Cardinality(Runs) + faults
    BY DEF CollectedOnce
  <2>1. collections[w][d] \in Nat /\ faults \in Nat
    BY DEF Typed, TypeOK
  <2>2. QED
    BY <2>1, CountTypes DEF CollectionsCounted, CountedAt
<1>4. QED
  BY <1>1, <1>2, <1>3, PTL DEF Spec


-----------------------------------------------------------------------------
(* Sums over workers and days: what MapThenSumSet returns is the summand it *)
(* picks first and the sum of the others.                                  *)

Of(c, p) == c[p[1]][p[2]]

Total(f, S) == MapThenSumSet(LAMBDA p : f[p[1]][p[2]], S)

Some(S) == CHOOSE x \in S : TRUE

\* The function that MapThenSumSet defines by recursion.
Sums(g, f, S) == g = [s \in SUBSET S |-> IF s = {} THEN 0 ELSE Of(f, Some(s)) + g[s \ {Some(s)}]]

LEMMA TotalIs == ASSUME NEW f, NEW S PROVE Total(f, S) = (CHOOSE g : Sums(g, f, S))[S]
BY DEF Total, MapThenSumSet, MapThenFoldSet, Sums, Some, Of

LEMMA SomeIn == ASSUME NEW S, S # {} PROVE Some(S) \in S
BY DEF Some

\* Of subsets of a finite set one is the smallest.
LEMMA Smallest ==
    ASSUME NEW S, IsFiniteSet(S), NEW B \in SUBSET (SUBSET S), B # {}
    PROVE  \E s \in B : \A t \in B : t \subseteq s => t = s
<1>1. IsWellFoundedOn(StrictSubsetOrdering(S), SUBSET S)
  BY FS_StrictSubsetOrderingWellFounded, FS_FiniteSubsetsOfFinite
<1>2. PICK s \in B : \A t \in B : ~(<<t, s>> \in StrictSubsetOrdering(S))
  BY <1>1, WFMin
<1>. QED  BY <1>2 DEF StrictSubsetOrdering

LEMMA SumsAgree ==
    ASSUME NEW f, NEW g, NEW h, NEW S, NEW T, NEW U, IsFiniteSet(S),
           Sums(g, f, T), Sums(h, f, U), S \subseteq T, S \subseteq U
    PROVE  g[S] = h[S]
<1>0. PICK Bad \in SUBSET (SUBSET S) :
        Bad = {s \in SUBSET S : g[s] # h[s]}
  OBVIOUS
<1>1. ASSUME Bad # {} PROVE FALSE
  <2>1. PICK s \in Bad : \A t \in Bad : t \subseteq s => t = s
    BY <1>1, Smallest
  <2>2. /\ g[s] = IF s = {} THEN 0 ELSE Of(f, Some(s)) + g[s \ {Some(s)}]
        /\ h[s] = IF s = {} THEN 0 ELSE Of(f, Some(s)) + h[s \ {Some(s)}]
    BY DEF Sums
  <2>3. s # {}
    BY <1>0, <2>2
  <2>4. s \ {Some(s)} \notin Bad
    BY <2>1, <2>3, SomeIn
  <2>. QED  BY <1>0, <2>1, <2>2, <2>3, <2>4
<1>. QED  BY <1>0, <1>1

LEMMA SumsExist ==
    ASSUME NEW f, NEW S, IsFiniteSet(S)
    PROVE  \E g : Sums(g, f, S)
<1>0. PICK Bad \in SUBSET (SUBSET S) :
        Bad = {s \in SUBSET S : ~\E g : Sums(g, f, s)}
  OBVIOUS
<1>1. ASSUME Bad # {} PROVE FALSE
  <2>1. PICK t \in Bad : \A s \in Bad : s \subseteq t => s = t
    BY <1>1, Smallest
  <2>. DEFINE G(s) == CHOOSE g : Sums(g, f, s)
  <2>0. PICK sum :
          sum = [s \in SUBSET t |-> IF s = {} THEN 0 ELSE Of(f, Some(s)) + G(s \ {Some(s)})[s \ {Some(s)}]]
    OBVIOUS
  <2>2. ASSUME NEW s \in SUBSET t, s # t PROVE Sums(G(s), f, s)
    <3>1. \E g : Sums(g, f, s)
      BY <1>0, <2>1, <2>2
    <3>. QED  BY <3>1
  <2>3. ASSUME NEW s \in SUBSET t, s # t PROVE sum[s] = G(s)[s]
    <3>1. Sums(G(s), f, s)
      BY <2>2, <2>3
    <3>2. G(s)[s] = IF s = {} THEN 0 ELSE Of(f, Some(s)) + G(s)[s \ {Some(s)}]
      BY <3>1 DEF Sums
    <3>3. CASE s # {}
      <4>1. PICK v \in SUBSET t : v = s \ {Some(s)}
        OBVIOUS
      <4>2. v # t /\ v \subseteq s
        BY <2>3, <3>3, <4>1, SomeIn
      <4>3. Sums(G(v), f, v) /\ IsFiniteSet(v)
        BY <2>2, <4>2, FS_Subset
      <4>4. G(s)[v] = G(v)[v]
        BY <3>1, <4>2, <4>3, SumsAgree
      <4>. QED  BY <2>0, <3>2, <3>3, <4>1, <4>4
    <3>4. CASE s = {}
      BY <2>0, <3>2, <3>4
    <3>. QED  BY <3>3, <3>4
  <2>4. ASSUME NEW s \in SUBSET t, s # {}
        PROVE  sum[s] = Of(f, Some(s)) + sum[s \ {Some(s)}]
    <3>1. s \ {Some(s)} \in SUBSET t /\ s \ {Some(s)} # t
      BY <2>4, SomeIn
    <3>. QED  BY <2>0, <2>3, <2>4, <3>1
  <2>5. Sums(sum, f, t)
    BY <2>0, <2>4 DEF Sums
  <2>. QED  BY <1>0, <2>1, <2>5
<1>. QED  BY <1>0, <1>1

LEMMA TotalSome ==
    ASSUME NEW f, NEW S, IsFiniteSet(S)
    PROVE  /\ S = {} => Total(f, S) = 0
           /\ S # {} => Total(f, S) = Of(f, Some(S)) + Total(f, S \ {Some(S)})
<1>. DEFINE G(s) == CHOOSE g : Sums(g, f, s)
<1>1. ASSUME NEW s \in SUBSET S PROVE Sums(G(s), f, s)
  <2>1. IsFiniteSet(s)
    BY FS_Subset
  <2>2. \E g : Sums(g, f, s)
    BY <2>1, SumsExist
  <2>. QED  BY <2>2
<1>2. \A s : Total(f, s) = G(s)[s]
  BY TotalIs
<1>. HIDE DEF G
<1>3. G(S)[S] = IF S = {} THEN 0 ELSE Of(f, Some(S)) + G(S)[S \ {Some(S)}]
  BY <1>1 DEF Sums
<1>4. G(S)[S \ {Some(S)}] = G(S \ {Some(S)})[S \ {Some(S)}]
  <2>1. IsFiniteSet(S \ {Some(S)})
    BY FS_Subset
  <2>. QED  BY <1>1, <2>1, SumsAgree
<1>. QED  BY <1>2, <1>3, <1>4

LEMMA TotalType ==
    ASSUME NEW f, NEW S, IsFiniteSet(S), \A x \in S : Of(f, x) \in Nat
    PROVE  Total(f, S) \in Nat
<1>0. PICK Bad \in SUBSET (SUBSET S) :
        Bad = {s \in SUBSET S : Total(f, s) \notin Nat}
  OBVIOUS
<1>1. ASSUME Bad # {} PROVE FALSE
  <2>1. PICK s \in Bad : \A t \in Bad : t \subseteq s => t = s
    BY <1>1, Smallest
  <2>2. IsFiniteSet(s)
    BY FS_Subset
  <2>3. s # {} /\ Total(f, s) = Of(f, Some(s)) + Total(f, s \ {Some(s)})
    BY <1>0, <2>1, <2>2, TotalSome
  <2>4. Of(f, Some(s)) \in Nat /\ Total(f, s \ {Some(s)}) \in Nat
    BY <1>0, <2>1, <2>3, SomeIn
  <2>. QED  BY <1>0, <2>1, <2>3, <2>4
<1>. QED  BY <1>0, <1>1

LEMMA TotalZero ==
    ASSUME NEW f, NEW S, IsFiniteSet(S), \A x \in S : Of(f, x) = 0
    PROVE  Total(f, S) = 0
<1>0. PICK Bad \in SUBSET (SUBSET S) : Bad = {s \in SUBSET S : Total(f, s) # 0}
  OBVIOUS
<1>1. ASSUME Bad # {} PROVE FALSE
  <2>1. PICK s \in Bad : \A t \in Bad : t \subseteq s => t = s
    BY <1>1, Smallest
  <2>2. IsFiniteSet(s)
    BY FS_Subset
  <2>3. s # {} /\ Total(f, s) = Of(f, Some(s)) + Total(f, s \ {Some(s)})
    BY <1>0, <2>1, <2>2, TotalSome
  <2>4. Of(f, Some(s)) = 0 /\ Total(f, s \ {Some(s)}) = 0
    BY <1>0, <2>1, <2>3, SomeIn
  <2>. QED  BY <1>0, <2>1, <2>3, <2>4
<1>. QED  BY <1>0, <1>1

\* One more in one place is one more in all.
OneMore(g, f, S, z) ==
    \A x \in S : Of(f, x) \in Nat /\ Of(g, x) = IF x = z THEN Of(f, x) + 1 ELSE Of(f, x)

LEMMA TotalMore ==
    ASSUME NEW f, NEW g, NEW S, IsFiniteSet(S), NEW z, OneMore(g, f, S, z)
    PROVE  Total(g, S) = IF z \in S THEN Total(f, S) + 1 ELSE Total(f, S)
<1>. USE DEF OneMore
<1>0. PICK Bad \in SUBSET (SUBSET S) :
        Bad = {s \in SUBSET S : Total(g, s) # IF z \in s THEN Total(f, s) + 1 ELSE Total(f, s)}
  OBVIOUS
<1>1. ASSUME Bad # {} PROVE FALSE
  <2>1. PICK s \in Bad : \A t \in Bad : t \subseteq s => t = s
    BY <1>1, Smallest
  <2>2. IsFiniteSet(s) /\ s \subseteq S
    BY FS_Subset
  <2>3. s # {}
    <3>1. s = {} => Total(f, s) = 0 /\ Total(g, s) = 0
      BY <2>2, TotalSome
    <3>. QED  BY <1>0, <3>1
  <2>4. PICK y \in s : y = Some(s)
    BY <2>3, SomeIn
  <2>5. PICK t \in SUBSET S : t = s \ {y}
    BY <2>2
  <2>6. Total(f, s) = Of(f, y) + Total(f, t) /\ Total(g, s) = Of(g, y) + Total(g, t)
    BY <2>2, <2>3, <2>4, <2>5, TotalSome
  <2>7. IsFiniteSet(t) /\ Total(f, t) \in Nat /\ Of(f, y) \in Nat
    <3>1. IsFiniteSet(t) /\ \A x \in t : Of(f, x) \in Nat
      BY FS_Subset
    <3>. QED  BY <2>2, <3>1, TotalType
  <2>8. t \notin Bad
    BY <2>1, <2>4, <2>5
  <2>9. Total(g, t) = IF z \in t THEN Total(f, t) + 1 ELSE Total(f, t)
    BY <1>0, <2>8
  <2>10. Of(g, y) = IF y = z THEN Of(f, y) + 1 ELSE Of(f, y)
    BY <2>2
  <2>. QED  BY <1>0, <2>1, <2>4, <2>5, <2>6, <2>7, <2>9, <2>10
<1>. QED  BY <1>0, <1>1

-----------------------------------------------------------------------------
(* The books.  While handlers come one after the other, the stock and what *)
(* was written about it differ by what the cycle at work has saved and is  *)
(* yet to book.                                                            *)

Gathered(c, r) == Output * Total(c, {w \in Workers : Makes[w] = r} \X Days)

Spread(s, l, c, e, u, r) == s[r] - (Opening[r] + l[r] - Gathered(c, r) + e[r] + u[r])

Gap(r) == Spread(stock, ledger, collections, edited, uncovered, r)

OnlyRun(h) == /\ \A g \in Runs \ {h} : At(g, "idle")
              /\ \A c \in Clerks : clerk[c].pc = "idle"

OnlyClerk(c) == /\ \A h \in Runs : At(h, "idle")
                /\ \A d \in Clerks \ {c} : clerk[d].pc = "idle"

\* What a cycle has read is still the stock, and what it has saved is not booked yet.
Tidy(h) ==
    /\ run[h].recorder
    /\ At(h, "save") => run[h].seen = stock[First(run[h].todo)]
    /\ \A r \in Resources :
         Gap(r) = IF At(h, "book") /\ r = First(run[h].todo) THEN Change(run[h], r) ELSE 0

Even == \A r \in Resources : Gap(r) = 0

Balanced ==
    ~disturbed => \/ ~Busy /\ Even
                  \/ \E h \in Runs : OnlyRun(h) /\ Tidy(h)
                  \/ \E c \in Clerks : OnlyClerk(c) /\ Even

LEMMA Gathering ==
    ASSUME NEW c \in [Workers -> [Days -> Nat]], NEW r,
           NEW S, S = {w \in Workers : Makes[w] = r} \X Days
    PROVE  IsFiniteSet(S) /\ \A x \in S : Of(c, x) \in Nat
<1>1. IsFiniteSet({w \in Workers : Makes[w] = r}) /\ IsFiniteSet(Days)
  BY FS_Subset, FS_Interval, InventoryAssumption DEF Days
<1>2. IsFiniteSet(S)
  BY <1>1, FS_Product
<1>. QED  BY <1>2 DEF Of

LEMMA GatheredType ==
    ASSUME NEW c \in [Workers -> [Days -> Nat]], NEW r
    PROVE  Gathered(c, r) \in Nat
<1>1. PICK S : S = {w \in Workers : Makes[w] = r} \X Days
  OBVIOUS
<1>2. Total(c, S) \in Nat
  BY <1>1, Gathering, TotalType
<1>. QED  BY <1>1, <1>2, InventoryAssumption DEF Gathered

\* A collection is booked in the movements and gathered from them.
Collecting(c, v, d) == [c EXCEPT ![v][d] = @ + 1]

LEMMA GatheredMore ==
    ASSUME NEW c \in [Workers -> [Days -> Nat]], NEW v \in Workers, NEW d \in Days, NEW r,
           NEW n, n = Collecting(c, v, d)
    PROVE  Gathered(n, r) = Gathered(c, r) + IF Makes[v] = r THEN Output ELSE 0
<1>1. PICK S : S = {w \in Workers : Makes[w] = r} \X Days
  OBVIOUS
<1>2. IsFiniteSet(S) /\ \A x \in S : Of(c, x) \in Nat
  BY <1>1, Gathering
<1>3. PICK z : z = <<v, d>>
  OBVIOUS
<1>4. ASSUME NEW x \in S PROVE Of(n, x) = IF x = z THEN Of(c, x) + 1 ELSE Of(c, x)
  <2>1. PICK w \in Workers, a \in Days : x = <<w, a>>
    BY <1>1, <1>4
  <2>2. n[w][a] = IF w = v /\ a = d THEN c[w][a] + 1 ELSE c[w][a]
    <3>1. n = [c EXCEPT ![v] = [c[v] EXCEPT ![d] = c[v][d] + 1]]
      BY DEF Collecting
    <3>2. n[w] = IF w = v THEN [c[v] EXCEPT ![d] = c[v][d] + 1] ELSE c[w]
      BY <3>1
    <3>3. c[v] \in [Days -> Nat]
      OBVIOUS
    <3>. QED  BY <3>2, <3>3
  <2>3. Of(n, x) = n[w][a] /\ Of(c, x) = c[w][a]
    BY <2>1 DEF Of
  <2>4. x = z <=> w = v /\ a = d
    BY <1>3, <2>1
  <2>. QED  BY <2>2, <2>3, <2>4
<1>5. Total(n, S) = IF z \in S THEN Total(c, S) + 1 ELSE Total(c, S)
  <2>1. OneMore(n, c, S, z)
    BY <1>2, <1>4 DEF OneMore
  <2>. QED  BY <1>2, <2>1, TotalMore
<1>6. z \in S <=> Makes[v] = r
  BY <1>1, <1>3
<1>7. Total(c, S) \in Nat
  BY <1>2, TotalType
<1>8. \A m \in Nat : Output * (m + 1) = Output * m + Output /\ Output * m \in Nat
  BY InventoryAssumption
<1>. QED  BY <1>1, <1>5, <1>6, <1>7, <1>8 DEF Gathered

LEMMA GapIs ==
    ASSUME Typed, NEW r \in Resources
    PROVE  /\ Gathered(collections, r) \in Nat /\ Opening[r] \in Int
           /\ stock[r] \in Int /\ ledger[r] \in Int /\ edited[r] \in Int /\ uncovered[r] \in Int
           /\ Gap(r) = stock[r] - (Opening[r] + ledger[r] - Gathered(collections, r) + edited[r] + uncovered[r])
<1>1. /\ stock \in [Resources -> Int] /\ ledger \in [Resources -> Int]
      /\ edited \in [Resources -> Int] /\ uncovered \in [Resources -> Int]
      /\ collections \in [Workers -> [Days -> Nat]]
  BY DEF Typed, TypeOK
<1>. QED  BY <1>1, GatheredType, InventoryAssumption DEF Gap, Spread

\* Who has not moved stock, movements or edits has not moved the books.
LEMMA GapSame ==
    ASSUME UNCHANGED <<stock, ledger, collections, edited, uncovered>>, NEW r
    PROVE  Gap(r)' = Gap(r)
BY DEF Gap

LEMMA FreeIsEven ==
    ASSUME ~disturbed, Balanced, ~Busy PROVE Even
<1>1. CASE \E h \in Runs : OnlyRun(h) /\ Tidy(h)
  <2>1. PICK h \in Runs : Tidy(h)
    BY <1>1
  <2>2. run[h].pc = "idle"
    BY DEF Busy, At
  <2>. QED  BY <2>1, <2>2 DEF Tidy, Even, At
<1>. QED  BY <1>1 DEF Balanced

LEMMA BusyRun ==
    ASSUME ~disturbed, Balanced, NEW h \in Runs, ~At(h, "idle")
    PROVE  OnlyRun(h) /\ Tidy(h)
BY DEF Balanced, Busy, OnlyRun, OnlyClerk

LEMMA BusyClerk ==
    ASSUME ~disturbed, Balanced, NEW c \in Clerks, clerk[c].pc # "idle"
    PROVE  OnlyClerk(c) /\ Even
BY DEF Balanced, Busy, OnlyRun, OnlyClerk

\* A cycle that goes on with the books even, and nothing read that it is to save.
LEMMA GoesOn ==
    ASSUME Typed, NEW h \in Runs, OnlyRun(h), NEW next, Become(h, next), clerk' = clerk,
           next.recorder, next.pc \notin {"save", "book"}, \A r \in Resources : Gap(r)' = 0
    PROVE  OnlyRun(h)' /\ Tidy(h)'
<1>1. run'[h] = next /\ \A g \in Runs \ {h} : run'[g] = run[g]
  BY DEF Become, Typed, TypeOK
<1>2. OnlyRun(h)'
  BY <1>1 DEF OnlyRun, At
<1>. QED  BY <1>1, <1>2 DEF Tidy, At

LEMMA NextsAre ==
    ASSUME NEW me \in RunType
    PROVE  /\ NextRow(me).recorder = me.recorder /\ NextRow(me).pc \in {"look", "read"}
           /\ me.recorder => NextAlert(me).recorder
           /\ NextAlert(me).pc \in {"ask", "idle"}
           /\ RunRest.recorder /\ RunRest.pc = "idle"
           /\ AfterRows(me).recorder = me.recorder /\ AfterRows(me).pc = "read"
           /\ \A pc : /\ [me EXCEPT !.pc = pc].recorder = me.recorder
                      /\ [me EXCEPT !.pc = pc].pc = pc
           /\ \A next \in AfterBook(me) : next.recorder = me.recorder /\ next.pc \in {"read", "alert"}
<1>1. /\ AfterRows(me).recorder = me.recorder /\ AfterRows(me).pc = "read"
  BY DEF AfterRows, RunType
<1>2. NextRow(me).recorder = me.recorder /\ NextRow(me).pc \in {"look", "read"}
  BY <1>1 DEF NextRow, RunType
<1>3. RunRest.recorder /\ RunRest.pc = "idle"
  BY DEF RunRest
<1>4. (me.recorder => NextAlert(me).recorder) /\ NextAlert(me).pc \in {"ask", "idle"}
  BY <1>3 DEF NextAlert, RunType
<1>5. \A pc : /\ [me EXCEPT !.pc = pc].recorder = me.recorder
              /\ [me EXCEPT !.pc = pc].pc = pc
  BY DEF RunType
<1>6. ASSUME NEW next \in AfterBook(me)
      PROVE  next.recorder = me.recorder /\ next.pc \in {"read", "alert"}
  <2>1. \E pc \in {"read", "alert"} : \E people, producing, todo :
          next = [me EXCEPT !.pc = pc, !.people = people, !.producing = producing, !.todo = todo]
    <3>1. PICK todo : todo = me.todo \ {First(me.todo)}
      OBVIOUS
    <3>2. CASE todo # {}
      <4>1. next = [me EXCEPT !.pc = "read", !.todo = todo]
        BY <1>6, <3>1, <3>2 DEF AfterBook
      <4>2. next = [me EXCEPT !.pc = "read", !.people = me.people, !.producing = me.producing, !.todo = todo]
        BY <4>1 DEF RunType
      <4>. QED  BY <4>2
    <3>3. CASE todo = {} /\ me.producing
      <4>1. next = [me EXCEPT !.pc = "alert", !.todo = {}]
        BY <1>6, <3>1, <3>3 DEF AfterBook
      <4>2. next = [me EXCEPT !.pc = "alert", !.people = me.people, !.producing = me.producing, !.todo = {}]
        BY <4>1 DEF RunType
      <4>. QED  BY <4>2
    <3>4. CASE todo = {} /\ ~me.producing
      <4>1. PICK ps \in SUBSET Workers :
               next = [me EXCEPT !.pc = IF ps = {} THEN "alert" ELSE "read", !.people = ps,
                                 !.producing = TRUE, !.todo = {Makes[w] : w \in ps}]
        BY <1>6, <3>1, <3>4 DEF AfterBook
      <4>2. PICK pc \in {"read", "alert"} : pc = IF ps = {} THEN "alert" ELSE "read"
        OBVIOUS
      <4>. QED  BY <4>1, <4>2
    <3>. QED  BY <3>2, <3>3, <3>4
  <2>. QED  BY <2>1 DEF RunType
<1>. QED  BY <1>1, <1>2, <1>3, <1>4, <1>5, <1>6

LEMMA CycleBalanced ==
    ASSUME Typed, Balanced, ~disturbed, ~disturbed', NEW h \in Runs, Cycle(h)
    PROVE  OnlyRun(h)' /\ Tidy(h)'
<1>. USE DEF drift
<1>. DEFINE me == run[h]
<1>1. me \in RunType /\ RunOK(me) /\ run \in [Runs -> RunType]
  BY DEF Typed, TypeOK
<1>2. \A r \in Resources : Gap(r) \in Int
  BY GapIs
<1>3. ASSUME ~At(h, "idle") PROVE OnlyRun(h) /\ Tidy(h)
  BY <1>3, BusyRun
<1>4. CASE Starts(h)
  <2>1. PICK recorder \in BOOLEAN, rows \in SUBSET Workers :
             LET new == [RunRest EXCEPT !.day = day, !.recorder = recorder, !.rows = rows]
             IN  /\ Become(h, IF rows = {} THEN AfterRows(new) ELSE [new EXCEPT !.pc = "look"])
                 /\ disturbed' = (disturbed \/ Busy \/ ~recorder)
    BY <1>4 DEF Starts
  <2>2. PICK new : new = [RunRest EXCEPT !.day = day, !.recorder = recorder, !.rows = rows]
    OBVIOUS
  <2>3. PICK next : next = IF rows = {} THEN AfterRows(new) ELSE [new EXCEPT !.pc = "look"]
    OBVIOUS
  <2>4. Become(h, next) /\ recorder /\ ~Busy
    BY <2>1, <2>2, <2>3, Zenon
  <2>5. next.recorder = recorder /\ next.pc \in {"read", "look"}
    BY <2>2, <2>3 DEF AfterRows, RunRest
  <2>6. UNCHANGED <<stock, ledger, collections, edited, uncovered, clerk>>
    BY <1>4 DEF Starts, tables
  <2>7. \A r \in Resources : Gap(r)' = 0
    BY <2>4, <2>6, FreeIsEven, GapSame DEF Even
  <2>8. OnlyRun(h)
    BY <2>4 DEF OnlyRun, Busy, At
  <2>9. next.recorder /\ next.pc \notin {"save", "book"}
    BY <2>4, <2>5
  <2>. QED  BY <2>4, <2>6, <2>7, <2>8, <2>9, GoesOn
<1>5. ASSUME UNCHANGED <<stock, ledger, collections, edited, uncovered, clerk>>, me.pc \notin {"idle", "book"},
             NEW next, Become(h, next), me.recorder => next.recorder, next.pc \notin {"save", "book"}
      PROVE  OnlyRun(h)' /\ Tidy(h)'
  <2>1. OnlyRun(h) /\ Tidy(h) /\ me.recorder
    BY <1>3, <1>5 DEF At, Tidy
  <2>2. \A r \in Resources : Gap(r)' = 0
    BY <1>5, <2>1, GapSame DEF Tidy, At
  <2>. QED  BY <1>5, <2>1, <2>2, GoesOn
<1>6. CASE Looks(h)
  <2>1. PICK next : next = IF Collected(First(me.rows), me.day) THEN NextRow(me) ELSE [me EXCEPT !.pc = "move"]
    OBVIOUS
  <2>2. me.pc = "look" /\ Become(h, next) /\ UNCHANGED <<stock, ledger, collections, edited, uncovered, clerk>>
    BY <1>6, <2>1 DEF Looks, At, tables
  <2>3. next.recorder = me.recorder /\ next.pc \in {"look", "read", "move"}
    BY <1>1, <2>1, NextsAre
  <2>. QED  BY <1>5, <2>2, <2>3
<1>7. CASE Collects(h)
  <2>1. me.pc = "move" /\ UNCHANGED <<stock, edited, uncovered, clerk>>
    BY <1>7 DEF Collects, At
  <2>2. First(me.rows) \in Workers /\ me.day \in Days
    BY <1>1, <2>1, FirstIn DEF RunOK, RunType
  <2>3. PICK v \in Workers, d \in Days : v = First(me.rows) /\ d = me.day
    BY <2>2
  <2>4. collections' = Collecting(collections, v, d) /\ ledger' = Add(ledger, Makes[v], Output)
    BY <1>7, <2>3 DEF Collects, Collecting
  <2>5. PICK next : next = [me EXCEPT !.pc = "record"]
    OBVIOUS
  <2>6. Become(h, next) /\ next.recorder = me.recorder /\ next.pc = "record"
    BY <1>1, <1>7, <2>5, NextsAre DEF Collects
  <2>7. OnlyRun(h) /\ Tidy(h) /\ me.recorder
    BY <1>3, <2>1 DEF At, Tidy
  <2>8. ASSUME NEW r \in Resources PROVE Gap(r)' = 0
    <3>1. Gap(r) = 0
      BY <2>1, <2>7 DEF Tidy, At
    <3>2. collections \in [Workers -> [Days -> Nat]] /\ ledger \in [Resources -> Int]
      BY DEF Typed, TypeOK
    <3>3. Gathered(collections', r) = Gathered(collections, r) + IF Makes[v] = r THEN Output ELSE 0
      BY <2>4, <3>2, GatheredMore
    <3>4. Output \in Int /\ Makes[v] \in Resources
      BY InventoryAssumption
    <3>5. ledger'[r] = IF Makes[v] = r THEN ledger[r] + Output ELSE ledger[r]
      BY <2>4, <3>2, <3>4, AddType
    <3>6. Gap(r)' = stock[r] - (Opening[r] + ledger'[r] - Gathered(collections', r) + edited[r] + uncovered[r])
      BY <2>1 DEF Gap, Spread
    <3>7. /\ Gap(r) = stock[r] - (Opening[r] + ledger[r] - Gathered(collections, r) + edited[r] + uncovered[r])
          /\ Gathered(collections, r) \in Nat /\ Opening[r] \in Int
          /\ stock[r] \in Int /\ ledger[r] \in Int /\ edited[r] \in Int /\ uncovered[r] \in Int
      BY GapIs
    <3>. QED  BY <3>1, <3>3, <3>4, <3>5, <3>6, <3>7
  <2>. QED  BY <2>1, <2>6, <2>7, <2>8, GoesOn
<1>8. CASE Records(h)
  <2>1. me.pc = "record" /\ UNCHANGED <<stock, ledger, collections, edited, uncovered, clerk>>
    BY <1>8 DEF Records, At
  <2>2. Become(h, RunRest) \/ Become(h, NextRow(me))
    BY <1>8 DEF Records
  <2>. QED  BY <1>1, <1>5, <2>1, <2>2, NextsAre
<1>9. CASE ReadsStock(h)
  <2>1. PICK next : next = [me EXCEPT !.pc = "save", !.seen = stock[First(me.todo)]]
    OBVIOUS
  <2>2. me.pc = "read" /\ Become(h, next) /\ UNCHANGED <<stock, ledger, collections, edited, uncovered, clerk>>
    BY <1>9, <2>1 DEF ReadsStock, At, tables
  <2>3. next.pc = "save" /\ next.seen = stock[First(me.todo)] /\ next.todo = me.todo
        /\ next.recorder = me.recorder
    BY <1>1, <2>1 DEF RunType
  <2>4. OnlyRun(h) /\ Tidy(h)
    BY <1>3, <2>2 DEF At
  <2>5. run'[h] = next /\ \A g \in Runs \ {h} : run'[g] = run[g]
    BY <1>1, <2>2 DEF Become
  <2>6. \A r \in Resources : Gap(r)' = 0
    BY <2>2, <2>4, GapSame DEF Tidy, At
  <2>. QED  BY <2>2, <2>3, <2>4, <2>5, <2>6 DEF OnlyRun, Tidy, At
<1>10. CASE SavesStock(h)
  <2>1. PICK next : next = [me EXCEPT !.pc = "book", !.seen = 0]
    OBVIOUS
  <2>2. me.pc = "save" /\ Become(h, next) /\ UNCHANGED <<ledger, collections, edited, uncovered, clerk>>
    BY <1>10, <2>1 DEF SavesStock, At
  <2>3. next.pc = "book" /\ next.todo = me.todo /\ next.recorder = me.recorder
        /\ next.producing = me.producing /\ next.people = me.people
    BY <1>1, <2>1 DEF RunType
  <2>4. OnlyRun(h) /\ Tidy(h) /\ me.seen = stock[First(me.todo)]
    BY <1>3, <2>2 DEF At, Tidy
  <2>5. run'[h] = next /\ \A g \in Runs \ {h} : run'[g] = run[g]
    BY <1>1, <2>2 DEF Become
  <2>6. First(me.todo) \in Resources
    BY <1>1, <2>2, FirstIn DEF RunOK, RunType
  <2>7. PICK q \in Resources : q = First(me.todo)
    BY <2>6
  <2>8. PICK n \in Int : n = Change(me, q)
    BY <1>1, ChangeType
  <2>9. stock' = [stock EXCEPT ![q] = stock[q] + n]
    BY <1>10, <2>4, <2>7, <2>8 DEF SavesStock
  <2>10. Change(next, q) = n
    BY <2>3, <2>8 DEF Change
  <2>11. ASSUME NEW r \in Resources PROVE Gap(r)' = IF r = q THEN n ELSE 0
    <3>1. Gap(r) = 0
      BY <2>2, <2>4 DEF Tidy, At
    <3>2. stock \in [Resources -> Int]
      BY DEF Typed, TypeOK
    <3>3. Gap(r)' = stock'[r] - (Opening[r] + ledger[r] - Gathered(collections, r) + edited[r] + uncovered[r])
      BY <2>2 DEF Gap, Spread
    <3>4. stock'[r] = IF r = q THEN stock[r] + n ELSE stock[r]
      BY <2>9, <3>2
    <3>5. /\ Gap(r) = stock[r] - (Opening[r] + ledger[r] - Gathered(collections, r) + edited[r] + uncovered[r])
          /\ Gathered(collections, r) \in Nat /\ Opening[r] \in Int
          /\ stock[r] \in Int /\ ledger[r] \in Int /\ edited[r] \in Int /\ uncovered[r] \in Int
      BY GapIs
    <3>. QED  BY <3>1, <3>3, <3>4, <3>5
  <2>12. OnlyRun(h)'
    BY <2>2, <2>4, <2>5 DEF OnlyRun, At
  <2>13. Tidy(h)'
    BY <2>3, <2>4, <2>5, <2>7, <2>10, <2>11 DEF Tidy, At
  <2>. QED  BY <2>12, <2>13
<1>11. CASE BooksChange(h)
  <2>1. me.pc = "book" /\ UNCHANGED <<stock, collections, edited, uncovered, clerk>>
    BY <1>11 DEF BooksChange, At
  <2>2. PICK next \in AfterBook(me) : Become(h, next)
    BY <1>11 DEF BooksChange
  <2>3. next.recorder = me.recorder /\ next.pc \in {"read", "alert"}
    BY <1>1, NextsAre
  <2>4. OnlyRun(h) /\ Tidy(h) /\ me.recorder
    BY <1>3, <2>1 DEF At, Tidy
  <2>5. First(me.todo) \in Resources
    BY <1>1, <2>1, FirstIn DEF RunOK, RunType
  <2>6. PICK q \in Resources : q = First(me.todo)
    BY <2>5
  <2>7. PICK n \in Int : n = Change(me, q)
    BY <1>1, ChangeType
  <2>8. ledger' = Add(ledger, q, n)
    BY <1>11, <2>4, <2>6, <2>7 DEF BooksChange, Booked
  <2>9. ASSUME NEW r \in Resources PROVE Gap(r)' = 0
    <3>1. Gap(r) = IF r = q THEN n ELSE 0
      BY <2>1, <2>4, <2>6, <2>7 DEF Tidy, At
    <3>2. ledger \in [Resources -> Int]
      BY DEF Typed, TypeOK
    <3>3. Gap(r)' = stock[r] - (Opening[r] + ledger'[r] - Gathered(collections, r) + edited[r] + uncovered[r])
      BY <2>1 DEF Gap, Spread
    <3>4. ledger'[r] = IF r = q THEN ledger[r] + n ELSE ledger[r]
      BY <2>8, <3>2, AddType
    <3>5. /\ Gap(r) = stock[r] - (Opening[r] + ledger[r] - Gathered(collections, r) + edited[r] + uncovered[r])
          /\ Gathered(collections, r) \in Nat /\ Opening[r] \in Int
          /\ stock[r] \in Int /\ ledger[r] \in Int /\ edited[r] \in Int /\ uncovered[r] \in Int
      BY GapIs
    <3>. QED  BY <3>1, <3>3, <3>4, <3>5
  <2>. QED  BY <2>1, <2>2, <2>3, <2>4, <2>9, GoesOn
<1>12. CASE ReadsStocks(h)
  <2>1. PICK low \in SUBSET Resources : low = {r \in Touched(me) : stock[r] < Minimum[r]}
    <3>1. Touched(me) \subseteq Resources
      BY <1>1, InventoryAssumption DEF Touched, RunType
    <3>. QED  BY <3>1
  <2>2. PICK next : next = IF low = {} THEN RunRest ELSE [me EXCEPT !.pc = "ask", !.todo = low]
    OBVIOUS
  <2>3. me.pc = "alert" /\ Become(h, next) /\ UNCHANGED <<stock, ledger, collections, edited, uncovered, clerk>>
    BY <1>12, <2>1, <2>2 DEF ReadsStocks, At, tables
  <2>4. (me.recorder => next.recorder) /\ next.pc \in {"ask", "idle"}
    BY <1>1, <2>2, NextsAre DEF RunType
  <2>. QED  BY <1>5, <2>3, <2>4
<1>13. CASE AsksAlert(h)
  <2>1. PICK next : next = IF Alerted(First(me.todo)) THEN NextAlert(me) ELSE [me EXCEPT !.pc = "raise"]
    OBVIOUS
  <2>2. me.pc = "ask" /\ Become(h, next) /\ UNCHANGED <<stock, ledger, collections, edited, uncovered, clerk>>
    BY <1>13, <2>1 DEF AsksAlert, At, tables
  <2>3. (me.recorder => next.recorder) /\ next.pc \in {"ask", "idle", "raise"}
    BY <1>1, <2>1, NextsAre
  <2>. QED  BY <1>5, <2>2, <2>3
<1>14. CASE Raises(h)
  <2>1. me.pc = "raise" /\ Become(h, NextAlert(me)) /\ UNCHANGED <<stock, ledger, collections, edited, uncovered, clerk>>
    BY <1>14 DEF Raises, At
  <2>. QED  BY <1>1, <1>5, <2>1, NextsAre
<1>. QED
  BY <1>4, <1>6, <1>7, <1>8, <1>9, <1>10, <1>11, <1>12, <1>13, <1>14 DEF Cycle

\* A movement changes the stock and the ledger alike, or counts as uncovered.
LEMMA MovedEven ==
    ASSUME Typed, Even, NEW r \in Resources, NEW n \in Int, Moved(r, n),
           UNCHANGED <<collections, edited>>
    PROVE  Even'
<1>. SUFFICES ASSUME NEW q \in Resources PROVE Gap(q)' = 0
  BY DEF Even
<1>1. Gap(q) = 0
  BY DEF Even
<1>2. /\ stock \in [Resources -> Int] /\ ledger \in [Resources -> Int]
      /\ uncovered \in [Resources -> Int]
  BY DEF Typed, TypeOK
<1>3. Gap(q)' = stock'[q] - (Opening[q] + ledger'[q] - Gathered(collections, q) + edited[q] + uncovered'[q])
  BY DEF Gap, Spread
<1>4. /\ Gap(q) = stock[q] - (Opening[q] + ledger[q] - Gathered(collections, q) + edited[q] + uncovered[q])
      /\ Gathered(collections, q) \in Nat /\ Opening[q] \in Int
      /\ stock[q] \in Int /\ ledger[q] \in Int /\ edited[q] \in Int /\ uncovered[q] \in Int
  BY GapIs
<1>5. ledger'[q] = IF q = r THEN ledger[q] + n ELSE ledger[q]
  BY <1>2 DEF Moved, Add
<1>6. CASE stock' = Add(stock, r, n) /\ uncovered' = uncovered
  <2>1. stock'[q] = IF q = r THEN stock[q] + n ELSE stock[q]
    BY <1>2, <1>6 DEF Add
  <2>. QED  BY <1>1, <1>3, <1>4, <1>5, <1>6, <2>1
<1>7. CASE uncovered' = Add(uncovered, r, -n) /\ stock' = stock
  <2>1. uncovered'[q] = IF q = r THEN uncovered[q] + (-n) ELSE uncovered[q]
    BY <1>2, <1>7 DEF Add
  <2>. QED  BY <1>1, <1>3, <1>4, <1>5, <1>7, <2>1
<1>. QED  BY <1>6, <1>7 DEF Moved

\* An edit changes the stock and what edits have changed alike.
LEMMA EditedEven ==
    ASSUME Typed, Even, NEW c \in Clerks, EditSaves(c)
    PROVE  Even'
<1>. SUFFICES ASSUME NEW q \in Resources PROVE Gap(q)' = 0
  BY DEF Even
<1>0. PICK r \in Resources, n \in Int : r = clerk[c].r /\ n = clerk[c].amount
  BY DEF Typed, TypeOK, ClerkType
<1>1. Gap(q) = 0
  BY DEF Even
<1>2. stock \in [Resources -> Int] /\ edited \in [Resources -> Int]
  BY DEF Typed, TypeOK
<1>3. Gap(q)' = stock'[q] - (Opening[q] + ledger[q] - Gathered(collections, q) + edited'[q] + uncovered[q])
  BY DEF Gap, Spread, EditSaves
<1>4. /\ Gap(q) = stock[q] - (Opening[q] + ledger[q] - Gathered(collections, q) + edited[q] + uncovered[q])
      /\ Gathered(collections, q) \in Nat /\ Opening[q] \in Int
      /\ stock[q] \in Int /\ ledger[q] \in Int /\ edited[q] \in Int /\ uncovered[q] \in Int
  BY GapIs
<1>5. stock' = [stock EXCEPT ![r] = n] /\ edited' = Add(edited, r, n - stock[r])
  BY <1>0 DEF EditSaves
<1>6. n - stock[r] \in Int
  BY <1>2
<1>7. /\ stock'[q] = IF q = r THEN n ELSE stock[q]
      /\ edited'[q] = IF q = r THEN edited[q] + (n - stock[r]) ELSE edited[q]
  BY <1>2, <1>5, <1>6 DEF Add
<1>. QED  BY <1>1, <1>3, <1>4, <1>7

\* A request begins where nobody else is active, and goes on alone.
LEMMA ClerkBalanced ==
    ASSUME Typed, Balanced, ~disturbed, ~disturbed', NEW c \in Clerks,
           \/ WithdrawReads(c) \/ Withdraws(c) \/ AdjustReads(c) \/ AdjustSaves(c)
           \/ AdjustMoves(c) \/ EditFinds(c) \/ EditSaves(c)
    PROVE  OnlyClerk(c)' /\ Even'
<1>1. run' = run
  BY DEF WithdrawReads, Withdraws, AdjustReads, AdjustSaves, AdjustMoves, EditFinds, EditSaves
<1>2. \E next : Set(c, next)
  BY DEF WithdrawReads, Withdraws, AdjustReads, AdjustSaves, AdjustMoves, EditFinds, EditSaves
<1>3. OnlyClerk(c) /\ Even
  <2>1. CASE clerk[c].pc = "idle"
    <3>1. ~Busy
      BY <2>1 DEF WithdrawReads, Withdraws, AdjustReads, AdjustSaves, AdjustMoves, EditFinds, EditSaves, Requested
    <3>. QED  BY <3>1, FreeIsEven DEF OnlyClerk, Busy
  <2>2. CASE clerk[c].pc # "idle"
    BY <2>2, BusyClerk
  <2>. QED  BY <2>1, <2>2
<1>4. OnlyClerk(c)'
  <2>1. \A d \in Clerks \ {c} : clerk'[d] = clerk[d]
    BY <1>2 DEF Set, Typed, TypeOK
  <2>. QED  BY <1>1, <1>3, <2>1 DEF OnlyClerk, At
<1>5. Even'
  <2>1. CASE WithdrawReads(c) \/ AdjustReads(c) \/ AdjustSaves(c) \/ EditFinds(c)
    BY <1>3, <2>1, GapSame DEF Even, drift, WithdrawReads, AdjustReads, AdjustSaves, EditFinds, tables
  <2>2. CASE AdjustMoves(c)
    <3>1. Makes[clerk[c].w] \in Resources /\ clerk[c].amount - clerk[c].seen \in Int
      BY InventoryAssumption DEF Typed, TypeOK, ClerkType
    <3>. QED  BY <1>3, <2>2, <3>1, MovedEven DEF AdjustMoves
  <2>3. CASE EditSaves(c)
    BY <1>3, <2>3, EditedEven
  <2>4. CASE Withdraws(c)
    <3>1. PICK n \in Int : n = -clerk[c].amount
      BY DEF Typed, TypeOK, ClerkType
    <3>2. clerk[c].r \in Resources /\ Moved(clerk[c].r, n)
      BY <2>4, <3>1 DEF Withdraws, Typed, TypeOK, ClerkType
    <3>. QED  BY <1>3, <2>4, <3>2, MovedEven DEF Withdraws
  <2>. QED  BY <2>1, <2>2, <2>3, <2>4
<1>. QED  BY <1>4, <1>5

LEMMA StepBalanced ==
    ASSUME Typed, Balanced, [Next]_vars
    PROVE  Balanced'
<1>. USE DEF tables, drift, handlers
<1>. SUFFICES ASSUME ~disturbed' PROVE Balanced'
  <2>1. disturbed' => Balanced'
    BY DEF Balanced
  <2>. QED  BY <2>1
<1>0. disturbed \in BOOLEAN
  BY DEF Typed, TypeOK
<1>1. ~disturbed
  <2>1. CASE UNCHANGED vars
    BY <2>1 DEF vars
  <2>2. CASE Next
    <3>1. ASSUME NEW h \in Runs, Cycle(h) PROVE ~disturbed
      <4>1. CASE Starts(h)
        BY <4>1 DEF Starts
      <4>2. CASE ~Starts(h)
        BY <3>1, <4>2 DEF Cycle, Looks, Collects, Records, ReadsStock, SavesStock, BooksChange, ReadsStocks,
                  AsksAlert, Raises
      <4>. QED  BY <4>1, <4>2
    <3>2. ASSUME NEW h \in Runs, Midnight(h) \/ (\E k \in Days \ {0} : Advances(h, k)) \/ CycleStops(h)
          PROVE  ~disturbed
      BY <3>2 DEF Midnight, Advances, CycleStops, Fault
    <3>3. ASSUME NEW c \in Clerks,
                 \/ WithdrawReads(c) \/ Withdraws(c) \/ AdjustReads(c) \/ AdjustSaves(c)
                 \/ AdjustMoves(c) \/ EditFinds(c) \/ EditSaves(c) \/ RequestStops(c)
          PROVE  ~disturbed
      BY <3>3 DEF WithdrawReads, Withdraws, AdjustReads, AdjustSaves, AdjustMoves, EditFinds, EditSaves, RequestStops, Requested, Fault
    <3>4. ASSUME NEW r, NEW n, Moves(r, n) PROVE ~disturbed
      BY <3>4 DEF Moves, Requested
    <3>5. ASSUME NEW r, Resolves(r) PROVE ~disturbed
      BY <3>5 DEF Resolves, Requested
    <3>6. ASSUME NEW w, NEW d, NEW n, Registers(w, d, n) PROVE ~disturbed
      BY <3>6 DEF Registers, Requested
    <3>7. Tick => ~disturbed
      BY DEF Tick
    <3>. QED  BY <2>2, <3>1, <3>2, <3>3, <3>4, <3>5, <3>6, <3>7 DEF Next
  <2>. QED  BY <2>1, <2>2
<1>2. ASSUME NEW h \in Runs, Cycle(h) PROVE Balanced'
  BY <1>1, <1>2, CycleBalanced DEF Balanced
<1>3. ASSUME UNCHANGED <<stock, ledger, collections, edited, uncovered, run, clerk>> PROVE Balanced'
  <2>1. (Busy' <=> Busy) /\ (Even' <=> Even)
    BY <1>3, GapSame DEF Busy, At, Even
  <2>2. ASSUME NEW h \in Runs, OnlyRun(h), Tidy(h) PROVE OnlyRun(h)' /\ Tidy(h)'
    <3>1. OnlyRun(h)'
      BY <1>3, <2>2 DEF OnlyRun, At
    <3>2. \A r : Gap(r)' = Gap(r) /\ Change(run[h], r)' = Change(run[h], r)
      BY <1>3, GapSame
    <3>3. Tidy(h)'
      BY <1>3, <2>2, <3>2 DEF Tidy, At
    <3>. QED  BY <3>1, <3>3
  <2>3. ASSUME NEW c \in Clerks, OnlyClerk(c) PROVE OnlyClerk(c)'
    BY <1>3, <2>3 DEF OnlyClerk, At
  <2>. QED  BY <1>1, <2>1, <2>2, <2>3 DEF Balanced
<1>4. ASSUME NEW c \in Clerks,
             \/ WithdrawReads(c) \/ Withdraws(c) \/ AdjustReads(c) \/ AdjustSaves(c)
             \/ AdjustMoves(c) \/ EditFinds(c) \/ EditSaves(c)
      PROVE  Balanced'
  BY <1>1, <1>4, ClerkBalanced DEF Balanced
<1>5. ASSUME NEW r \in Resources, NEW n \in Int, Moves(r, n) PROVE Balanced'
  <2>1. ~Busy /\ UNCHANGED <<run, clerk>>
    BY <1>5 DEF Moves, Requested
  <2>2. Even'
    BY <1>1, <1>5, <2>1, FreeIsEven, MovedEven DEF Moves
  <2>3. ~Busy'
    BY <2>1 DEF Busy, At
  <2>. QED  BY <2>2, <2>3 DEF Balanced
<1>6. ASSUME NEW h \in Runs, Midnight(h) \/ (\E k \in Days \ {0} : Advances(h, k)) PROVE Balanced'
  BY <1>3, <1>6 DEF Midnight, Advances
<1>7. ASSUME NEW w, NEW d, NEW n, Registers(w, d, n) PROVE Balanced'
  BY <1>3, <1>7 DEF Registers
<1>8. ASSUME NEW r, Resolves(r) PROVE Balanced'
  BY <1>3, <1>8 DEF Resolves
<1>9. CASE Tick \/ UNCHANGED vars
  BY <1>3, <1>9 DEF Tick, vars
<1>10. \A n \in Amounts : n \in Int /\ -n \in Int
  BY InventoryAssumption
<1>11. /\ \A h \in Runs : ~CycleStops(h)
       /\ \A c \in Clerks : ~RequestStops(c)
  BY DEF CycleStops, RequestStops, Fault
<1>. QED
  BY <1>2, <1>4, <1>5, <1>6, <1>7, <1>8, <1>9, <1>10, <1>11 DEF Next

LEMMA InitBalanced == Init => Balanced
<1>. SUFFICES ASSUME Init PROVE ~Busy /\ Even
  BY DEF Balanced
<1>1. ~Busy
  BY DEF Init, Busy, At, RunRest, ClerkRest
<1>2. ASSUME NEW r \in Resources PROVE Gap(r) = 0
  <2>1. PICK S : S = {w \in Workers : Makes[w] = r} \X Days
    OBVIOUS
  <2>2. \A x \in S : Of(collections, x) = 0
    BY <2>1 DEF Init, Of
  <2>3. IsFiniteSet(S)
    <3>1. collections \in [Workers -> [Days -> Nat]]
      BY InitTyped DEF Typed, TypeOK
    <3>. QED  BY <2>1, <3>1, Gathering
  <2>4. Total(collections, S) = 0
    BY <2>2, <2>3, TotalZero
  <2>5. Gathered(collections, r) = 0
    BY <2>1, <2>4, InventoryAssumption DEF Gathered
  <2>6. stock[r] = Opening[r] /\ ledger[r] = 0 /\ edited[r] = 0 /\ uncovered[r] = 0
        /\ Opening[r] \in Int
    BY InventoryAssumption DEF Init
  <2>. QED  BY <2>5, <2>6 DEF Gap, Spread
<1>. QED  BY <1>1, <1>2 DEF Even

\* While cycles and requests come one after the other and none stops half-way, the
\* stock is what was moved and edited, the automatic collections apart: for any
\* workers, resources and amounts, and however many cycles have run.
THEOREM BooksAreBalanced == Spec => []BooksBalance
<1>1. Init => Typed /\ Balanced
  BY InitTyped, InitBalanced
<1>2. Typed /\ Balanced /\ [Next]_vars => (Typed /\ Balanced)'
  BY StepTyped, StepBalanced
<1>3. Typed /\ Balanced => BooksBalance
  <2>. SUFFICES ASSUME Typed, Balanced, ~disturbed, ~Busy, NEW r \in Resources
                PROVE  stock[r] = Opening[r] + ledger[r] - TwiceBooked(r) + edited[r] + uncovered[r]
    BY DEF BooksBalance
  <2>1. Gap(r) = 0
    BY FreeIsEven DEF Even
  <2>2. TwiceBooked(r) = Gathered(collections, r)
    BY DEF TwiceBooked, Gathered, Total
  <2>. QED  BY <2>1, <2>2, GapIs
<1>. QED  BY <1>1, <1>2, <1>3, PTL DEF Spec

=============================================================================
