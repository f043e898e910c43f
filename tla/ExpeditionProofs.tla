-------------------------- MODULE ExpeditionProofs --------------------------
(***************************************************************************)
(* Theorems of module Expedition, for any expeditions, people, plans and   *)
(* handlers: its types and what a camp pays, however handlers overlap or   *)
(* stop, and what holds while they come one after the other.               *)
(*                                                                         *)
(* The argument of the second part (Serial): as long as one handler at     *)
(* most is active, what it has read is still so when it writes, and what   *)
(* the tables are short of is what it is about to do.                      *)
(***************************************************************************)
EXTENDS Expedition, FiniteSetTheorems, TLAPS

-----------------------------------------------------------------------------
(* Types of the operators the actions are built from.                      *)

LEMMA DivType == ASSUME NEW n \in Nat, NEW d \in Nat \ {0} PROVE n \div d \in Nat
OBVIOUS

\* Days of delay, whole and never negative.
LEMMA DaysLateType == ASSUME NEW p \in Plans, NEW t \in Nat PROVE DaysLate(p, t) \in Nat
<1>1. Returns[p] \in Nat /\ DayLength \in Nat \ {0}
  BY ExpeditionAssumption
<1>2. CASE t > Returns[p]
  <2>1. t - Returns[p] + DayLength - 1 \in Nat
    BY <1>1, <1>2
  <2>2. (t - Returns[p] + DayLength - 1) \div DayLength \in Nat
    BY <2>1, <1>1, DivType
  <2>. QED  BY <2>2, <1>2 DEF DaysLate
<1>3. CASE ~(t > Returns[p])
  BY <1>3 DEF DaysLate
<1>. QED  BY <1>2, <1>3

LEMMA UsedDaysType ==
  ASSUME NEW p \in Plans, NEW t \in Nat PROVE UsedDays(p, t) \in Nat
BY DaysLateType, ExpeditionAssumption DEF UsedDays

LEMMA ByClockType == \A p, t : ByClock(p, t) \in {"LOST", "DELAYED", "IN_PROGRESS", "PLANNED"}
BY DEF ByClock

LEMMA StatusTypes ==
  ASSUME NEW row \in RowType, NEW t
  PROVE  HourlyStatus(row, t) \in Statuses /\ ForcedStatus(row, t) \in Statuses
BY ByClockType DEF HourlyStatus, ForcedStatus, RowType, Statuses

LEMMA UpdatedType ==
  ASSUME NEW row \in RowType, NEW s \in Statuses, NEW t \in Nat
  PROVE  Updated(row, s, t) \in RowType
<1>1. row.plan \in Plans
  BY DEF RowType
<1>2. UsedDays(row.plan, t) \in Nat
  BY <1>1, UsedDaysType
<1>. QED  BY <1>2 DEF Updated, RowType

LEMMA NewRowType == NewRow \in RowType /\ NewRow.used = 0 /\ NewRow.status = "NEW"
BY ExpeditionAssumption DEF NewRow, RowType, Statuses

\* The record an idle handler holds.
LEMMA RestType == Rest \in HandlerType /\ Rest.pc = "idle"
<1>1. /\ (CHOOSE e \in Expeditions : TRUE) \in Expeditions
      /\ (CHOOSE p \in People : TRUE) \in People
  BY ExpeditionAssumption
<1>2. [e \in Expeditions |-> NewRow] \in [Expeditions -> RowType]
  BY NewRowType
<1>. QED  BY <1>1, <1>2 DEF Rest, HandlerType, Jobs, Statuses

\* A handler that becomes a handler record leaves the table well typed.
LEMMA BecomeType ==
  ASSUME TypeOK, NEW h \in Handlers, NEW next \in HandlerType, Become(h, next)
  PROVE  handler' \in [Handlers -> HandlerType]
BY DEF TypeOK, Become

LEMMA StartsType ==
  ASSUME TypeOK, NEW h \in Handlers, NEW job \in Jobs, NEW next \in HandlerType,
         Starts(h, job, next)
  PROVE  handler' \in [Handlers -> HandlerType] /\ disturbed' \in BOOLEAN
<1>1. [next EXCEPT !.job = job] \in HandlerType
  BY DEF HandlerType
<1>2. handler' \in [Handlers -> HandlerType]
  BY <1>1, BecomeType DEF Starts
<1>3. disturbed' \in BOOLEAN
  BY Zenon DEF Starts, TypeOK
<1>. QED  BY <1>2, <1>3

LEMMA AfterType ==
  ASSUME TypeOK, NEW h \in Handlers PROVE After(h) \in HandlerType /\ AfterProvision(h) \in HandlerType
<1>1. handler[h] \in HandlerType
  BY DEF TypeOK
<1>2. Rest.e \in Expeditions
  BY RestType DEF HandlerType
<1>. QED  BY <1>1, <1>2, RestType DEF After, AfterProvision, HandlerType

-----------------------------------------------------------------------------
(* Type correctness.                                                       *)

LEMMA RequestType ==
  ASSUME TypeOK, NEW h \in Handlers, Requests(h) \/ HourlyLoads(h)
  PROVE  TypeOK'
<1>. USE DEF tables
<1>0. /\ expedition \in [Expeditions -> RowType] /\ now \in Nat
      /\ \A e \in Expeditions : expedition[e].status \in Statuses
      /\ Jobs = {"create", "put", "force", "hourly", "complete", "enroll"}
  BY DEF TypeOK, RowType, Jobs
<1>1. CASE Creates(h)
  <2>1. PICK e \in Expeditions : \E plan \in PlansFor[e] :
          LET status == IF Departs[plan] <= now THEN "IN_PROGRESS" ELSE "PLANNED"
          IN  /\ expedition' = [expedition EXCEPT ![e] = [NewRow EXCEPT !.status = status, !.plan = plan]]
              /\ Starts(h, "create", IF status = "IN_PROGRESS"
                                       THEN [Rest EXCEPT !.pc = "provision", !.e = e] ELSE Rest)
    BY <1>1 DEF Creates
  <2>7. PICK plan \in PlansFor[e] :
          LET status == IF Departs[plan] <= now THEN "IN_PROGRESS" ELSE "PLANNED"
          IN  /\ expedition' = [expedition EXCEPT ![e] = [NewRow EXCEPT !.status = status, !.plan = plan]]
              /\ Starts(h, "create", IF status = "IN_PROGRESS"
                                       THEN [Rest EXCEPT !.pc = "provision", !.e = e] ELSE Rest)
    BY <2>1
  <2>. DEFINE status == IF Departs[plan] <= now THEN "IN_PROGRESS" ELSE "PLANNED"
              new == [NewRow EXCEPT !.status = status, !.plan = plan]
  <2>2. plan \in Plans /\ ExtraDays[plan] \in Nat
    BY ExpeditionAssumption
  <2>3. new \in RowType /\ new.used = 0 /\ new.plan = plan
    BY <2>2, NewRowType DEF RowType, Statuses
  <2>4. [Rest EXCEPT !.pc = "provision", !.e = e] \in HandlerType
    BY RestType DEF HandlerType
  <2>5. handler' \in [Handlers -> HandlerType] /\ disturbed' \in BOOLEAN
    BY <2>7, <2>4, <1>0, RestType, StartsType
  <2>. HIDE DEF new
  <2>6. /\ expedition' \in [Expeditions -> RowType]
        /\ \A f \in Expeditions : expedition'[f].used <= ExtraDays[expedition'[f].plan]
    BY <2>7, <2>2, <2>3, <1>0 DEF TypeOK, new
  <2>. QED  BY <2>5, <2>6, <1>1 DEF TypeOK, Creates
<1>2. CASE PutReads(h)
  <2>1. PICK e \in Expeditions : Starts(h, "put",
          [Rest EXCEPT !.pc = "find", !.e = e, !.before = expedition[e].status]) /\ edited' = edited \cup {e}
    BY <1>2 DEF PutReads
  <2>2. [Rest EXCEPT !.pc = "find", !.e = e, !.before = expedition[e].status] \in HandlerType
    BY <1>0, RestType DEF HandlerType
  <2>3. handler' \in [Handlers -> HandlerType] /\ disturbed' \in BOOLEAN
    BY <2>1, <2>2, <1>0, StartsType
  <2>. QED  BY <2>1, <2>3, <1>2 DEF TypeOK, PutReads
<1>3. CASE ForceReads(h)
  <2>1. PICK e \in Expeditions :
          Starts(h, "force", [Rest EXCEPT !.pc = "find", !.e = e,
                       !.entity[e] = Updated(expedition[e], ForcedStatus(expedition[e], now), now),
                       !.starts = IF Departing(expedition[e].status, ForcedStatus(expedition[e], now))
                                  THEN {e} ELSE {}])
    BY <1>3 DEF ForceReads
  <2>2. Updated(expedition[e], ForcedStatus(expedition[e], now), now) \in RowType
    BY <1>0, StatusTypes, UpdatedType
  <2>3. \A u \in RowType, s \in SUBSET Expeditions :
          [Rest EXCEPT !.pc = "find", !.e = e, !.entity[e] = u, !.starts = s] \in HandlerType
    BY RestType DEF HandlerType
  <2>4. (IF Departing(expedition[e].status, ForcedStatus(expedition[e], now)) THEN {e} ELSE {})
          \in SUBSET Expeditions
    OBVIOUS
  <2>5. handler' \in [Handlers -> HandlerType] /\ disturbed' \in BOOLEAN
    BY <2>1, <2>2, <2>3, <2>4, <1>0, StartsType
  <2>. QED  BY <2>5, <1>3 DEF TypeOK, ForceReads
<1>4. CASE CompleteReads(h)
  <2>1. PICK e \in Expeditions : Starts(h, "complete",
          [Rest EXCEPT !.pc = "loot", !.e = e, !.before = expedition[e].status])
    BY <1>4 DEF CompleteReads
  <2>2. [Rest EXCEPT !.pc = "loot", !.e = e, !.before = expedition[e].status] \in HandlerType
    BY <1>0, RestType DEF HandlerType
  <2>3. handler' \in [Handlers -> HandlerType] /\ disturbed' \in BOOLEAN
    BY <2>1, <2>2, <1>0, StartsType
  <2>. QED  BY <2>3, <1>4 DEF TypeOK, CompleteReads
<1>5. CASE EnrollReads(h)
  <2>1. PICK e \in Expeditions, p \in People :
          Starts(h, "enroll", [Rest EXCEPT !.pc = "enroll", !.e = e, !.p = p])
    BY <1>5 DEF EnrollReads
  <2>2. [Rest EXCEPT !.pc = "enroll", !.e = e, !.p = p] \in HandlerType
    BY RestType DEF HandlerType
  <2>3. handler' \in [Handlers -> HandlerType] /\ disturbed' \in BOOLEAN
    BY <2>1, <2>2, <1>0, StartsType
  <2>. QED  BY <2>3, <1>5 DEF TypeOK, EnrollReads
<1>6. CASE HourlyLoads(h)
  <2>1. PICK todo \in SUBSET Expeditions, starts \in SUBSET Expeditions :
          Starts(h, "hourly", [Rest EXCEPT !.pc = "next", !.todo = todo,
                  !.entity = [e \in Expeditions |-> IF e \in todo
                     THEN Updated(expedition[e], HourlyStatus(expedition[e], now), now) ELSE NewRow],
                  !.starts = starts])
    BY <1>6 DEF HourlyLoads
  <2>2. \A e \in Expeditions : Updated(expedition[e], HourlyStatus(expedition[e], now), now) \in RowType
    BY <1>0, StatusTypes, UpdatedType
  <2>3. [e \in Expeditions |-> IF e \in todo
                     THEN Updated(expedition[e], HourlyStatus(expedition[e], now), now) ELSE NewRow]
          \in [Expeditions -> RowType]
    BY <2>2, NewRowType
  <2>4. \A u \in [Expeditions -> RowType] :
          [Rest EXCEPT !.pc = "next", !.todo = todo, !.entity = u, !.starts = starts] \in HandlerType
    BY RestType DEF HandlerType
  <2>5. handler' \in [Handlers -> HandlerType] /\ disturbed' \in BOOLEAN
    BY <2>1, <2>3, <2>4, <1>0, StartsType
  <2>. QED  BY <2>5, <1>6 DEF TypeOK, HourlyLoads
<1>. QED  BY <1>1, <1>2, <1>3, <1>4, <1>5, <1>6 DEF Requests

LEMMA ContinueType ==
  ASSUME TypeOK, NEW h \in Handlers, Continues(h)
  PROVE  TypeOK'
<1>. USE DEF tables
<1>. DEFINE me == handler[h]
<1>0. /\ expedition \in [Expeditions -> RowType] /\ now \in Nat
      /\ me \in HandlerType /\ me.e \in Expeditions /\ me.p \in People
      /\ me.entity \in [Expeditions -> RowType] /\ expedition[me.e] \in RowType
  BY DEF TypeOK, HandlerType
<1>1. \A next \in HandlerType : Become(h, next) => handler' \in [Handlers -> HandlerType]
  BY BecomeType
<1>2. \A row \in RowType : row.status \in Statuses /\ row.plan \in Plans /\ row.used \in Nat
                           /\ row.returned \in BOOLEAN
  BY DEF RowType
<1>3. CASE PutFinds(h)
  <2>. DEFINE row == expedition[me.e]
  <2>1. PICK s \in EditedTo \cup {row.status}, plan \in Replans \cup {row.plan} :
          Become(h, [me EXCEPT !.pc = "save",
                     !.entity[me.e] = [row EXCEPT !.status = s, !.plan = plan],
                     !.starts = IF Departing(me.before, s) THEN {me.e} ELSE {}])
    BY <1>3 DEF PutFinds
  <2>2. s \in Statuses /\ plan \in Plans
    BY <1>0, <1>2, ExpeditionAssumption
  <2>3. [row EXCEPT !.status = s, !.plan = plan] \in RowType
    BY <1>0, <2>2 DEF RowType
  <2>4. \A u \in RowType, d \in SUBSET Expeditions :
          [me EXCEPT !.pc = "save", !.entity[me.e] = u, !.starts = d] \in HandlerType
    BY <1>0 DEF HandlerType
  <2>5. (IF Departing(me.before, s) THEN {me.e} ELSE {}) \in SUBSET Expeditions
    BY <1>0
  <2>6. handler' \in [Handlers -> HandlerType]
    BY <1>1, <2>1, <2>3, <2>4, <2>5
  <2>. QED  BY <2>6, <1>3 DEF TypeOK, PutFinds
<1>4. CASE ForceFinds(h)
  <2>1. [expedition[me.e] EXCEPT !.status = me.entity[me.e].status,
                                 !.used = me.entity[me.e].used] \in RowType
    BY <1>0, <1>2 DEF RowType
  <2>2. \A u \in RowType : [me EXCEPT !.pc = "save", !.entity[me.e] = u] \in HandlerType
    BY <1>0 DEF HandlerType
  <2>3. handler' \in [Handlers -> HandlerType]
    BY <1>1, <1>4, <2>1, <2>2 DEF ForceFinds
  <2>. QED  BY <2>3, <1>4 DEF TypeOK, ForceFinds
<1>5. CASE HourlyNext(h)
  <2>1. \A e \in Expeditions :
          [me EXCEPT !.pc = "save", !.e = e, !.todo = me.todo \ {e}] \in HandlerType
    BY <1>0 DEF HandlerType
  <2>2. me.todo \subseteq Expeditions
    BY <1>0 DEF HandlerType
  <2>3. handler' \in [Handlers -> HandlerType]
    BY <1>1, <1>5, <2>1, <2>2, RestType DEF HourlyNext
  <2>. QED  BY <2>3, <1>5 DEF TypeOK, HourlyNext
<1>6. CASE Saves(h)
  <2>. DEFINE row == me.entity[me.e]
  <2>1. row \in RowType
    BY <1>0
  <2>2. CASE Accepted(row)
    <3>1. expedition' = [expedition EXCEPT ![me.e] = row]
      BY <1>6, <2>2 DEF Saves
    <3>2. /\ expedition' \in [Expeditions -> RowType]
          /\ \A e \in Expeditions : expedition'[e].used <= ExtraDays[expedition'[e].plan]
      BY <3>1, <2>1, <2>2, <1>0 DEF TypeOK, Accepted
    <3>3. \A pc \in {"provision", "sync"} :
            [me EXCEPT !.entity[me.e] = NewRow, !.before = "NEW", !.pc = pc] \in HandlerType
      BY <1>0, NewRowType DEF HandlerType, Statuses
    <3>4. (IF me.e \in me.starts THEN "provision" ELSE "sync") \in {"provision", "sync"}
      OBVIOUS
    <3>5. \/ Become(h, Rest)
          \/ Become(h, [me EXCEPT !.entity[me.e] = NewRow, !.before = "NEW",
                                  !.pc = IF me.e \in me.starts THEN "provision" ELSE "sync"])
      BY <1>6, <2>2 DEF Saves
    <3>6. handler' \in [Handlers -> HandlerType]
      BY <3>3, <3>4, <3>5, <1>1, RestType
    <3>. QED  BY <3>2, <3>6, <1>6 DEF TypeOK, Saves
  <2>3. CASE ~Accepted(row)
    <3>1. Become(h, Rest) /\ UNCHANGED expedition
      BY <1>6, <2>3 DEF Saves
    <3>. QED  BY <3>1, <1>1, <1>6, RestType DEF TypeOK, Saves
  <2>. QED  BY <2>2, <2>3
<1>7. CASE ProvisionReads(h)
  <2>1. [me EXCEPT !.pc = "provide"] \in HandlerType
    BY <1>0 DEF HandlerType
  <2>2. handler' \in [Handlers -> HandlerType]
    BY <1>1, <1>7, <2>1, AfterType DEF ProvisionReads
  <2>. QED  BY <2>2, <1>7 DEF TypeOK, ProvisionReads
<1>8. CASE Provides(h)
  <2>1. handler' \in [Handlers -> HandlerType]
    BY <1>1, <1>8, AfterType DEF Provides
  <2>2. provisions' \in [Expeditions -> Nat]
    BY <1>8, <1>0 DEF Provides, TypeOK
  <2>. QED  BY <2>1, <2>2, <1>8 DEF TypeOK, Provides
<1>9. CASE Loots(h)
  <2>. DEFINE s == IF me.before = "LOST" THEN "RETURNED_AFTER_LOST" ELSE "COMPLETED"
  <2>1. [expedition[me.e] EXCEPT !.status = s, !.returned = TRUE] \in RowType
    BY <1>0 DEF RowType, Statuses
  <2>2. expedition' = [expedition EXCEPT ![me.e] = [expedition[me.e] EXCEPT !.status = s, !.returned = TRUE]]
    BY <1>9, <1>0 DEF Loots
  <2>3. /\ [expedition[me.e] EXCEPT !.status = s, !.returned = TRUE].used = expedition[me.e].used
        /\ [expedition[me.e] EXCEPT !.status = s, !.returned = TRUE].plan = expedition[me.e].plan
    BY <1>0 DEF RowType
  <2>. HIDE DEF s
  <2>4. /\ expedition' \in [Expeditions -> RowType]
        /\ \A e \in Expeditions : expedition'[e].used <= ExtraDays[expedition'[e].plan]
    BY <2>1, <2>2, <2>3, <1>0 DEF TypeOK
  <2>5. [me EXCEPT !.pc = "sync", !.before = "NEW"] \in HandlerType
    BY <1>0 DEF HandlerType, Statuses
  <2>6. handler' \in [Handlers -> HandlerType]
    BY <1>1, <1>9, <2>5 DEF Loots
  <2>7. loot' \in [Expeditions -> Nat]
    BY <1>9, <1>0 DEF Loots, TypeOK
  <2>. QED  BY <2>4, <2>6, <2>7, <1>9 DEF TypeOK, Loots
<1>10. CASE Enrolls(h)
  <2>1. [me EXCEPT !.pc = "sync"] \in HandlerType
    BY <1>0 DEF HandlerType
  <2>2. handler' \in [Handlers -> HandlerType]
    BY <1>1, <1>10, <2>1, RestType DEF Enrolls
  <2>3. participant' \in [Expeditions -> SUBSET People]
    BY <1>10, <1>0 DEF Enrolls, TypeOK
  <2>. QED  BY <2>2, <2>3, <1>10 DEF TypeOK, Enrolls
<1>11. CASE Syncs(h)
  <2>1. handler' \in [Handlers -> HandlerType]
    BY <1>1, <1>11, AfterType DEF Syncs
  <2>2. \A p \in People : StatusFor(p) \in PersonStatuses
    BY DEF StatusFor, PersonStatuses
  <2>3. person' \in [People -> PersonStatuses]
    BY <1>11, <2>2 DEF Syncs, TypeOK
  <2>. QED  BY <2>1, <2>3, <1>11 DEF TypeOK, Syncs
<1>. QED
  BY <1>3, <1>4, <1>5, <1>6, <1>7, <1>8, <1>9, <1>10, <1>11 DEF Continues

LEMMA TypeInductive == TypeOK /\ [Next]_vars => TypeOK'
<1>. SUFFICES ASSUME TypeOK, [Next]_vars PROVE TypeOK'
  OBVIOUS
<1>. USE DEF tables
<1>1. ASSUME NEW h \in Handlers, Requests(h) \/ HourlyLoads(h) \/ Continues(h) PROVE TypeOK'
  BY <1>1, RequestType, ContinueType
<1>2. CASE PersonEdited
  BY <1>2, ExpeditionAssumption DEF PersonEdited, TypeOK
<1>3. CASE Stops
  <2>1. handler' \in [Handlers -> HandlerType]
    BY <1>3, RestType DEF Stops, TypeOK
  <2>2. disturbed' \in BOOLEAN
    BY <1>3 DEF Stops
  <2>. QED  BY <1>3, <2>1, <2>2 DEF Stops, TypeOK
<1>4. CASE Tick
  BY <1>4 DEF Tick, TypeOK
<1>5. CASE UNCHANGED vars
  BY <1>5 DEF vars, TypeOK
<1>. QED  BY <1>1, <1>2, <1>3, <1>4, <1>5 DEF Next

LEMMA TypeInit == Init => TypeOK
<1>. SUFFICES ASSUME Init PROVE TypeOK
  OBVIOUS
<1>1. NewRow.used <= ExtraDays[NewRow.plan]
  BY NewRowType, ExpeditionAssumption DEF RowType
<1>2. disturbed \in BOOLEAN
  BY DEF Init
<1>. QED  BY <1>1, <1>2, NewRowType, RestType DEF Init, TypeOK, PersonStatuses

\* Every variable keeps its type, and no expedition uses more extra days than it
\* has, for any plans and however stale the row a handler saves.
THEOREM TypeCorrect == Spec => []TypeOK
<1>. QED  BY TypeInit, TypeInductive, PTL DEF Spec

-----------------------------------------------------------------------------
(* Provisioning.  The count of the movements and the insert are two steps: *)
(* while an expedition has none, every handler may be about to provision   *)
(* it, and once it has, only those that counted before can still do so.    *)

Providing(e) == {h \in Handlers : At(h, "provide") /\ handler[h].e = e}

OneActive ==
    Undisturbed => \A g, h \in Handlers : ~At(g, "idle") /\ ~At(h, "idle") => g = h

ProvisionInv ==
    \A e \in Expeditions :
        /\ provisions[e] > 0 =>
              provisions[e] + Cardinality(Providing(e)) <= Cardinality(Handlers)
        /\ Undisturbed /\ provisions[e] > 0 => provisions[e] = 1 /\ Providing(e) = {}

\* A handler that starts is not about to provision, and is alone unless it disturbs.
LEMMA StartsAlone ==
  ASSUME TypeOK, OneActive, NEW h \in Handlers, NEW job \in Jobs, NEW next \in HandlerType,
         Starts(h, job, next), next.pc # "provide"
  PROVE  /\ OneActive'
         /\ Undisturbed' => Undisturbed
         /\ handler'[h].pc # "provide"
         /\ \A g \in Handlers : g # h => handler'[g] = handler[g]
<1>1. /\ handler' = [handler EXCEPT ![h] = [next EXCEPT !.job = job]]
      /\ \/ (\A g \in Handlers : At(g, "idle")) /\ UNCHANGED disturbed
         \/ disturbed' = TRUE
  BY DEF Starts, Become
<1>2. /\ [next EXCEPT !.job = job].pc = next.pc
      /\ handler \in [Handlers -> HandlerType]
  BY DEF HandlerType, TypeOK
<1>3. /\ handler'[h].pc = next.pc
      /\ \A g \in Handlers : g # h => handler'[g] = handler[g]
  BY <1>1, <1>2
<1>4. Undisturbed' => Undisturbed /\ \A g \in Handlers : At(g, "idle")
  BY Zenon, <1>1 DEF Undisturbed
<1>5. OneActive'
  <2>1. ASSUME Undisturbed', NEW g \in Handlers, ~At(g, "idle")' PROVE g = h
    BY <2>1, <1>3, <1>4 DEF At
  <2>. QED  BY Zenon, <2>1 DEF OneActive
<1>. QED  BY <1>3, <1>4, <1>5

\* What a request or a run that starts does to the other state of this section.
LEMMA RequestAlone ==
  ASSUME TypeOK, OneActive, NEW h \in Handlers, Requests(h) \/ HourlyLoads(h)
  PROVE  /\ OneActive' /\ (Undisturbed' => Undisturbed) /\ UNCHANGED provisions
         /\ handler'[h].pc # "provide"
         /\ \A g \in Handlers : g # h => handler'[g] = handler[g]
<1>. USE DEF tables
<1>0. /\ expedition \in [Expeditions -> RowType] /\ now \in Nat
      /\ \A e \in Expeditions : expedition[e].status \in Statuses
      /\ Jobs = {"create", "put", "force", "hourly", "complete", "enroll"}
  BY DEF TypeOK, RowType, Jobs
<1>1. CASE Creates(h)
  <2>1. PICK e \in Expeditions : \E plan \in PlansFor[e] :
          Starts(h, "create", IF (IF Departs[plan] <= now THEN "IN_PROGRESS" ELSE "PLANNED") = "IN_PROGRESS"
                              THEN [Rest EXCEPT !.pc = "provision", !.e = e] ELSE Rest)
    BY <1>1 DEF Creates
  <2>2. /\ [Rest EXCEPT !.pc = "provision", !.e = e] \in HandlerType
        /\ [Rest EXCEPT !.pc = "provision", !.e = e].pc = "provision"
    BY RestType DEF HandlerType
  <2>3. PICK next \in HandlerType : next.pc # "provide" /\ Starts(h, "create", next)
    BY <2>1, <2>2, RestType
  <2>. QED  BY <2>3, <1>0, <1>1, StartsAlone DEF Creates
<1>2. CASE PutReads(h)
  <2>1. PICK e \in Expeditions : Starts(h, "put",
          [Rest EXCEPT !.pc = "find", !.e = e, !.before = expedition[e].status])
    BY <1>2 DEF PutReads
  <2>. DEFINE next == [Rest EXCEPT !.pc = "find", !.e = e, !.before = expedition[e].status]
  <2>2. next \in HandlerType /\ next.pc = "find"
    BY <1>0, RestType DEF HandlerType
  <2>. HIDE DEF next
  <2>. QED  BY <2>1, <2>2, <1>0, <1>2, StartsAlone DEF PutReads, next
<1>3. CASE ForceReads(h)
  <2>1. PICK e \in Expeditions :
          Starts(h, "force", [Rest EXCEPT !.pc = "find", !.e = e,
                       !.entity[e] = Updated(expedition[e], ForcedStatus(expedition[e], now), now),
                       !.starts = IF Departing(expedition[e].status, ForcedStatus(expedition[e], now))
                                  THEN {e} ELSE {}])
    BY <1>3 DEF ForceReads
  <2>2. Updated(expedition[e], ForcedStatus(expedition[e], now), now) \in RowType
    BY <1>0, StatusTypes, UpdatedType
  <2>3. \A u \in RowType, s \in SUBSET Expeditions :
          /\ [Rest EXCEPT !.pc = "find", !.e = e, !.entity[e] = u, !.starts = s] \in HandlerType
          /\ [Rest EXCEPT !.pc = "find", !.e = e, !.entity[e] = u, !.starts = s].pc = "find"
    BY RestType DEF HandlerType
  <2>4. (IF Departing(expedition[e].status, ForcedStatus(expedition[e], now)) THEN {e} ELSE {})
          \in SUBSET Expeditions
    OBVIOUS
  <2>5. PICK next \in HandlerType : next.pc # "provide" /\ Starts(h, "force", next)
    BY <2>1, <2>2, <2>3, <2>4
  <2>. QED  BY <2>5, <1>0, <1>3, StartsAlone DEF ForceReads
<1>4. CASE CompleteReads(h)
  <2>1. PICK e \in Expeditions : Starts(h, "complete",
          [Rest EXCEPT !.pc = "loot", !.e = e, !.before = expedition[e].status])
    BY <1>4 DEF CompleteReads
  <2>. DEFINE next == [Rest EXCEPT !.pc = "loot", !.e = e, !.before = expedition[e].status]
  <2>2. next \in HandlerType /\ next.pc = "loot"
    BY <1>0, RestType DEF HandlerType
  <2>. HIDE DEF next
  <2>. QED  BY <2>1, <2>2, <1>0, <1>4, StartsAlone DEF CompleteReads, next
<1>5. CASE EnrollReads(h)
  <2>1. PICK e \in Expeditions, p \in People :
          Starts(h, "enroll", [Rest EXCEPT !.pc = "enroll", !.e = e, !.p = p])
    BY <1>5 DEF EnrollReads
  <2>. DEFINE next == [Rest EXCEPT !.pc = "enroll", !.e = e, !.p = p]
  <2>2. next \in HandlerType /\ next.pc = "enroll"
    BY RestType DEF HandlerType
  <2>. HIDE DEF next
  <2>. QED  BY <2>1, <2>2, <1>0, <1>5, StartsAlone DEF EnrollReads, next
<1>6. CASE HourlyLoads(h)
  <2>1. PICK todo \in SUBSET Expeditions, starts \in SUBSET Expeditions :
          Starts(h, "hourly", [Rest EXCEPT !.pc = "next", !.todo = todo,
                  !.entity = [e \in Expeditions |-> IF e \in todo
                     THEN Updated(expedition[e], HourlyStatus(expedition[e], now), now) ELSE NewRow],
                  !.starts = starts])
    BY <1>6 DEF HourlyLoads
  <2>2. \A e \in Expeditions : Updated(expedition[e], HourlyStatus(expedition[e], now), now) \in RowType
    BY <1>0, StatusTypes, UpdatedType
  <2>3. [e \in Expeditions |-> IF e \in todo
                     THEN Updated(expedition[e], HourlyStatus(expedition[e], now), now) ELSE NewRow]
          \in [Expeditions -> RowType]
    BY <2>2, NewRowType
  <2>4. \A u \in [Expeditions -> RowType] :
          /\ [Rest EXCEPT !.pc = "next", !.todo = todo, !.entity = u, !.starts = starts] \in HandlerType
          /\ [Rest EXCEPT !.pc = "next", !.todo = todo, !.entity = u, !.starts = starts].pc = "next"
    BY RestType DEF HandlerType
  <2>5. PICK next \in HandlerType : next.pc # "provide" /\ Starts(h, "hourly", next)
    BY <2>1, <2>3, <2>4
  <2>. QED  BY <2>5, <1>0, <1>6, StartsAlone DEF HourlyLoads
<1>. QED  BY <1>1, <1>2, <1>3, <1>4, <1>5, <1>6 DEF Requests

\* A handler that goes on is active, and is about to provision only after it has
\* counted no movement.
LEMMA ContinueAlone ==
  ASSUME TypeOK, OneActive, NEW h \in Handlers, Continues(h)
  PROVE  /\ ~At(h, "idle") /\ OneActive' /\ UNCHANGED disturbed
         /\ \A g \in Handlers : g # h => handler'[g] = handler[g]
         /\ handler'[h].pc = "provide" =>
               provisions[handler'[h].e] = 0 /\ UNCHANGED provisions
<1>. USE DEF tables
<1>0. handler \in [Handlers -> HandlerType] /\ handler[h] \in HandlerType
  BY DEF TypeOK
<1>1. ~At(h, "idle") /\ UNCHANGED disturbed
  BY DEF Continues, PutFinds, ForceFinds, HourlyNext, Saves, ProvisionReads, Provides,
         Loots, Enrolls, Syncs, At
<1>2. \E next : handler' = [handler EXCEPT ![h] = next]
  BY Zenon DEF Continues, PutFinds, ForceFinds, HourlyNext, Saves, ProvisionReads, Provides,
         Loots, Enrolls, Syncs, Become
<1>3. \A g \in Handlers : g # h => handler'[g] = handler[g]
  BY <1>0, <1>2
<1>4. OneActive'
  <2>1. ASSUME NEW g \in Handlers, ~At(g, "idle")' PROVE ~At(g, "idle")
    BY <2>1, <1>1, <1>3 DEF At
  <2>. QED  BY Zenon, <1>1, <2>1 DEF OneActive, Undisturbed
<1>5. ASSUME handler'[h].pc = "provide"
      PROVE  provisions[handler'[h].e] = 0 /\ UNCHANGED provisions
  <2>1. \A next : Become(h, next) => handler'[h] = next
    BY <1>0 DEF Become
  <2>2. /\ Rest.pc # "provide" /\ After(h).pc # "provide" /\ AfterProvision(h).pc # "provide"
    BY <1>0, RestType DEF After, AfterProvision, HandlerType
  <2>3. ~PutFinds(h) /\ ~ForceFinds(h)
    BY <1>5, <1>0, <2>1 DEF PutFinds, ForceFinds, HandlerType
  <2>4. ~HourlyNext(h)
    BY <1>5, <1>0, <2>1, <2>2 DEF HourlyNext, HandlerType
  <2>5. ~Saves(h)
    <3>1. ASSUME Saves(h) PROVE FALSE
      <4>1. \/ handler'[h] = Rest
            \/ handler'[h] = [handler[h] EXCEPT !.entity[handler[h].e] = NewRow, !.before = "NEW",
                   !.pc = IF handler[h].e \in handler[h].starts THEN "provision" ELSE "sync"]
        BY <3>1, <2>1 DEF Saves
      <4>2. CASE handler'[h] = Rest
        BY <4>2, <1>5, <2>2
      <4>3. CASE handler'[h] # Rest
        <5>1. PICK pc \in {"provision", "sync"} : handler'[h] =
                [handler[h] EXCEPT !.entity[handler[h].e] = NewRow, !.before = "NEW", !.pc = pc]
          BY <4>1, <4>3
        <5>2. handler'[h].pc = pc
          BY <5>1, <1>0 DEF HandlerType
        <5>. QED  BY <5>1, <5>2, <1>5
      <4>. QED  BY <4>2, <4>3
    <3>. QED  BY <3>1
  <2>6. ~Provides(h) /\ ~Syncs(h)
    BY <1>5, <2>1, <2>2 DEF Provides, Syncs
  <2>7. ~Loots(h) /\ ~Enrolls(h)
    BY <1>5, <1>0, <2>1, <2>2 DEF Loots, Enrolls, HandlerType
  <2>8. ProvisionReads(h)
    BY <2>3, <2>4, <2>5, <2>6, <2>7 DEF Continues
  <2>9. NeedsProvisions(handler[h].e) /\ handler'[h] = [handler[h] EXCEPT !.pc = "provide"]
    BY <1>5, <2>1, <2>2, <2>8 DEF ProvisionReads
  <2>10. handler'[h].e = handler[h].e
    BY <1>0, <2>9 DEF HandlerType
  <2>. QED  BY <2>8, <2>9, <2>10 DEF ProvisionReads, NeedsProvisions
<1>. QED  BY <1>1, <1>3, <1>4, <1>5

\* A step that adds nobody to those about to provision an expedition, and does not
\* provision it, keeps the bound.
LEMMA ProvidingShrinks ==
  ASSUME TypeOK, ProvisionInv, UNCHANGED provisions, Undisturbed' => Undisturbed,
         \A e \in Expeditions : provisions[e] > 0 => Providing(e)' \subseteq Providing(e)
  PROVE  ProvisionInv'
<1>. SUFFICES ASSUME NEW e \in Expeditions, provisions[e] > 0
              PROVE  /\ provisions[e] + Cardinality(Providing(e)') <= Cardinality(Handlers)
                     /\ Undisturbed' => provisions[e] = 1 /\ Providing(e)' = {}
  BY DEF ProvisionInv
<1>1. IsFiniteSet(Providing(e))
  BY FS_Subset, ExpeditionAssumption DEF Providing
<1>2. /\ IsFiniteSet(Providing(e)')
      /\ Cardinality(Providing(e)') <= Cardinality(Providing(e))
  BY <1>1, FS_Subset
<1>3. /\ Cardinality(Providing(e)) \in Nat /\ Cardinality(Providing(e)') \in Nat
      /\ Cardinality(Handlers) \in Nat /\ provisions[e] \in Nat
  BY <1>1, <1>2, FS_CardinalityType, ExpeditionAssumption DEF TypeOK
<1>4. provisions[e] + Cardinality(Providing(e)) <= Cardinality(Handlers)
  BY DEF ProvisionInv
<1>5. Undisturbed' => provisions[e] = 1 /\ Providing(e) = {}
  BY DEF ProvisionInv
<1>6. Providing(e)' \subseteq Providing(e)
  OBVIOUS
<1>. QED  BY <1>2, <1>3, <1>4, <1>5, <1>6

LEMMA ProvidesOnce ==
  ASSUME TypeOK, OneActive, ProvisionInv, NEW h \in Handlers, Provides(h)
  PROVE  ProvisionInv'
<1>0. PICK e \in Expeditions : e = handler[h].e
  BY DEF TypeOK, HandlerType
<1>1. /\ e = handler[h].e /\ At(h, "provide") /\ UNCHANGED disturbed
      /\ provisions' = [provisions EXCEPT ![e] = provisions[e] + 1]
      /\ provisions \in [Expeditions -> Nat] /\ handler \in [Handlers -> HandlerType]
  BY <1>0 DEF Provides, TypeOK
<1>2. handler'[h].pc # "provide" /\ \A g \in Handlers : g # h => handler'[g] = handler[g]
  <2>1. AfterProvision(h).pc # "provide"
    BY <1>1, RestType DEF AfterProvision, HandlerType
  <2>. QED  BY <1>1, <2>1 DEF Provides, Become
<1>3. ASSUME NEW f \in Expeditions PROVE Providing(f)' = Providing(f) \ {h}
  BY <1>2 DEF Providing, At
<1>4. h \in Providing(e)
  BY <1>1 DEF Providing
<1>5. ASSUME NEW f \in Expeditions
      PROVE  /\ IsFiniteSet(Providing(f)) /\ Cardinality(Providing(f)) \in Nat
             /\ Cardinality(Providing(f)) <= Cardinality(Handlers) /\ Cardinality(Handlers) \in Nat
             /\ Cardinality(Providing(f)') = IF h \in Providing(f) THEN Cardinality(Providing(f)) - 1
                                                                   ELSE Cardinality(Providing(f))
  <2>1. Providing(f) \subseteq Handlers
    BY DEF Providing
  <2>2. /\ IsFiniteSet(Providing(f)) /\ Cardinality(Providing(f)) <= Cardinality(Handlers)
    BY <2>1, FS_Subset, ExpeditionAssumption
  <2>3. Cardinality(Providing(f)) \in Nat /\ Cardinality(Handlers) \in Nat
    BY <2>2, FS_CardinalityType, ExpeditionAssumption
  <2>. QED  BY <2>2, <2>3, <1>3, FS_RemoveElement
<1>6. ASSUME Undisturbed
      PROVE  provisions[e] = 0 /\ Providing(e)' = {}
  <2>1. \A g \in Handlers : g \in Providing(e) => g = h
    BY Zenon, <1>6, <1>4 DEF OneActive, Providing, At
  <2>2. Providing(e)' = {}
    BY <2>1, <1>3, <1>1 DEF Providing
  <2>3. ~(provisions[e] > 0)
    BY <1>1, <1>4, <1>6 DEF ProvisionInv
  <2>. QED  BY <2>2, <2>3, <1>1
<1>7. ASSUME NEW f \in Expeditions, provisions'[f] > 0
      PROVE  provisions'[f] + Cardinality(Providing(f)') <= Cardinality(Handlers)
  <2>1. CASE f = e
    <3>1. provisions[e] > 0 => provisions[e] + Cardinality(Providing(e)) <= Cardinality(Handlers)
      BY <1>1 DEF ProvisionInv
    <3>2. provisions'[f] = provisions[e] + 1 /\ provisions[e] \in Nat
      BY <1>1, <2>1
    <3>. QED  BY <1>4, <1>5, <2>1, <3>1, <3>2
  <2>2. CASE f # e
    <3>1. provisions'[f] = provisions[f] /\ provisions[f] \in Nat
      BY <1>1, <2>2
    <3>2. provisions[f] + Cardinality(Providing(f)) <= Cardinality(Handlers)
      BY <1>7, <3>1 DEF ProvisionInv
    <3>. QED  BY <1>5, <3>1, <3>2
  <2>. QED  BY <2>1, <2>2
<1>8. ASSUME NEW f \in Expeditions, provisions'[f] > 0, Undisturbed'
      PROVE  provisions'[f] = 1 /\ Providing(f)' = {}
  <2>1. Undisturbed
    BY <1>8, <1>1 DEF Undisturbed
  <2>2. CASE f = e
    BY <2>1, <2>2, <1>1, <1>6
  <2>3. CASE f # e
    <3>1. provisions'[f] = provisions[f] /\ provisions[f] > 0
      BY <1>1, <1>8, <2>3
    <3>2. provisions[f] = 1 /\ Providing(f) = {}
      BY <2>1, <3>1 DEF ProvisionInv
    <3>. QED  BY <3>1, <3>2, <1>3
  <2>. QED  BY <2>2, <2>3
<1>. QED  BY <1>7, <1>8 DEF ProvisionInv

LEMMA ProvisionInductive ==
  TypeOK /\ OneActive /\ ProvisionInv /\ [Next]_vars => OneActive' /\ ProvisionInv'
<1>. SUFFICES ASSUME TypeOK, OneActive, ProvisionInv, [Next]_vars PROVE OneActive' /\ ProvisionInv'
  OBVIOUS
<1>1. ASSUME NEW h \in Handlers, Requests(h) \/ HourlyLoads(h)
      PROVE  OneActive' /\ ProvisionInv'
  <2>1. \A e \in Expeditions : Providing(e)' \subseteq Providing(e)
    BY <1>1, RequestAlone DEF Providing, At
  <2>. QED  BY <1>1, <2>1, RequestAlone, ProvidingShrinks
<1>2. ASSUME NEW h \in Handlers, Continues(h) PROVE OneActive' /\ ProvisionInv'
  <2>1. OneActive' /\ (Undisturbed' => Undisturbed)
    BY <1>2, ContinueAlone DEF Undisturbed
  <2>2. CASE Provides(h)
    BY <2>1, <2>2, ProvidesOnce
  <2>3. CASE ~Provides(h)
    <3>1. UNCHANGED provisions
      BY <1>2, <2>3 DEF Continues, PutFinds, ForceFinds, HourlyNext, Saves, ProvisionReads,
                        Loots, Enrolls, Syncs, tables
    <3>2. \A e \in Expeditions : provisions[e] > 0 => Providing(e)' \subseteq Providing(e)
      BY <1>2, ContinueAlone DEF Providing, At
    <3>. QED  BY <2>1, <3>1, <3>2, ProvidingShrinks
  <2>. QED  BY <2>2, <2>3
<1>3. CASE PersonEdited \/ Tick \/ UNCHANGED vars
  <2>1. UNCHANGED <<provisions, handler, disturbed>>
    BY <1>3 DEF PersonEdited, Tick, vars, tables
  <2>. QED  BY <2>1 DEF OneActive, ProvisionInv, Providing, Undisturbed, At
<1>4. CASE Stops
  <2>1. PICK hs \in SUBSET Handlers :
          handler' = [h \in Handlers |-> IF h \in hs THEN Rest ELSE handler[h]]
    BY <1>4 DEF Stops
  <2>2. ~Undisturbed' /\ UNCHANGED provisions
    BY <1>4 DEF Stops, Undisturbed, tables
  <2>3. \A e \in Expeditions : Providing(e)' \subseteq Providing(e)
    BY <2>1, RestType DEF Providing, At
  <2>. QED  BY <2>2, <2>3, ProvidingShrinks DEF OneActive
<1>. QED  BY <1>1, <1>2, <1>3, <1>4 DEF Next

LEMMA ProvisionInit == Init => OneActive /\ ProvisionInv
<1>. SUFFICES ASSUME Init PROVE OneActive /\ ProvisionInv
  OBVIOUS
<1>1. \A h \in Handlers : At(h, "idle")
  BY RestType DEF Init, At
<1>2. OneActive
  BY <1>1 DEF OneActive
<1>. QED  BY <1>2 DEF Init, ProvisionInv

LEMMA ProvisionBound == TypeOK /\ ProvisionInv => ProvisionedOnce
<1>. SUFFICES ASSUME TypeOK, ProvisionInv, NEW e \in Expeditions
              PROVE  /\ provisions[e] <= Cardinality(Handlers)
                     /\ Undisturbed => provisions[e] <= 1
  BY DEF ProvisionedOnce
<1>1. Cardinality(Providing(e)) \in Nat
  BY FS_Subset, FS_CardinalityType, ExpeditionAssumption DEF Providing
<1>2. Cardinality(Handlers) \in Nat /\ provisions[e] \in Nat
  BY FS_CardinalityType, ExpeditionAssumption DEF TypeOK
<1>. QED  BY <1>1, <1>2 DEF ProvisionInv

\* A camp pays for an expedition at most once for each handler that can be active
\* at the same time, and once when they do not overlap.
THEOREM ProvisionsOnce == Spec => []ProvisionedOnce
<1>1. Spec => [](TypeOK /\ OneActive /\ ProvisionInv)
  BY TypeInit, TypeInductive, ProvisionInit, ProvisionInductive, PTL DEF Spec
<1>. QED  BY <1>1, ProvisionBound, PTL


-----------------------------------------------------------------------------
(* One handler after the other.                                            *)

\* What a handler is to save of an expedition goes with its row: the save leaves the
\* return as it is, ends only what has returned, starts provisioning when it must, and
\* nobody is overlooked.
Held(me, e) ==
    LET row == me.entity[e]
    IN  /\ row.returned = expedition[e].returned /\ row.status # "NEW"
        /\ e \notin edited => (row.status \in Ended <=> row.returned)
        /\ Departing(expedition[e].status, row.status) => e \in me.starts
        /\ me.before = row.status => row.status = expedition[e].status

\* The same before the row is found again.
Found(me, e) ==
    /\ Exists(e)
    /\ me.job = "put" => e \in edited /\ me.before = expedition[e].status
    /\ me.job = "force" =>
          /\ me.before = "NEW" /\ me.entity[e].status # "NEW"
          /\ me.entity[e].status \in Ended <=> expedition[e].returned
          /\ Departing(expedition[e].status, me.entity[e].status) => e \in me.starts

Provisioning == {"provision", "provide"}

\* What the only active handler has read is still so.
Fits(me) ==
    /\ me.pc = "find" => me.job \in {"put", "force"} /\ Found(me, me.e)
    /\ me.pc = "next" => me.job = "hourly"
    /\ me.pc = "save" => me.job \in {"put", "force", "hourly"} /\ Held(me, me.e)
    /\ me.pc \in Provisioning =>
          /\ me.job \in {"create", "put", "force", "hourly"}
          /\ me.job = "create" => participant[me.e] = {}
    /\ me.pc = "sync" => me.job # "create"
    /\ me.pc = "loot" => me.job = "complete" /\ Exists(me.e) /\ MayComplete(me.e)
    /\ me.pc = "enroll" =>
          /\ me.job = "enroll" /\ expedition[me.e].status = "PLANNED"
          /\ \A f \in Expeditions : me.p \in participant[f] => expedition[f].status \notin Unfinished
    /\ me.pc # "idle" =>
          /\ me.job = "hourly" \/ me.todo = {}
          /\ \A e \in me.todo : Held(me, e)
          /\ me.pc \in {"save", "sync"} \cup Provisioning => me.e \notin me.todo

\* Those whose status the handler is yet to bring in line.
Pending(me, p) ==
    /\ me.pc \in {"sync"} \cup Provisioning
    /\ IF me.job = "enroll" THEN p = me.p ELSE p \in participant[me.e]

\* What is so of an expedition,
RowOrderly(me, e) ==
    /\ participant[e] # {} => Exists(e)
    /\ loot[e] > 0 => expedition[e].returned /\ Exists(e)
    /\ e \notin edited => loot[e] <= 1 /\ (expedition[e].status \in Ended <=> expedition[e].returned)
    /\ expedition[e].status = "IN_PROGRESS" /\ participant[e] # {} =>
          provisions[e] > 0 \/ (me.pc \in Provisioning /\ me.e = e)

\* of a person,
PersonOrderly(me, p) ==
    p \notin touched /\ person[p] \in Managed => person[p] = StatusFor(p) \/ Pending(me, p)

\* and of two expeditions.
Exclusive ==
    edited = {} =>
        \A p \in People, e, f \in Expeditions :
            p \in participant[e] \cap participant[f] /\ e # f =>
                expedition[e].status \in Ended \/ expedition[f].status \in Ended

Orderly(me) ==
    /\ Fits(me)
    /\ \A e \in Expeditions : RowOrderly(me, e)
    /\ \A p \in People : PersonOrderly(me, p)
    /\ Exclusive

Alone(h) == \A k \in Handlers \ {h} : At(k, "idle")

Serial ==
    Undisturbed =>
        \/ Resting /\ Orderly(Rest)
        \/ \E h \in Handlers : Alone(h) /\ Orderly(handler[h])


LEMMA StatusForIs ==
  ASSUME NEW p
  PROVE  StatusFor(p) =
           IF \E e \in Expeditions : p \in participant[e] /\ expedition[e].status = "LOST"
           THEN "OUTSIDE_CAMP"
           ELSE IF \E e \in Expeditions : p \in participant[e] /\ expedition[e].status \in Ongoing
                THEN "ON_EXPEDITION" ELSE "ACTIVE"
BY DEF StatusFor

\* The status for a person depends on their own expeditions only.
LEMMA StatusForKept ==
  ASSUME NEW p,
         \A e \in Expeditions :
            /\ p \in participant'[e] <=> p \in participant[e]
            /\ p \in participant[e] => expedition'[e].status = expedition[e].status
  PROVE  StatusFor(p)' = StatusFor(p)
<1>1. StatusFor(p)' =
        IF \E e \in Expeditions : p \in participant'[e] /\ expedition'[e].status = "LOST"
        THEN "OUTSIDE_CAMP"
        ELSE IF \E e \in Expeditions : p \in participant'[e] /\ expedition'[e].status \in Ongoing
             THEN "ON_EXPEDITION" ELSE "ACTIVE"
  BY DEF StatusFor
<1>. QED  BY <1>1, StatusForIs

LEMMA FitsKept ==
  ASSUME NEW next, Fits(next), UNCHANGED <<expedition, participant, edited>>
  PROVE  Fits(next)'
BY DEF Fits, Found, Held, Exists, MayComplete, Departing

\* A step that writes no table: the handler keeps what it still has to do.
LEMMA OrderlyKept ==
  ASSUME NEW h \in Handlers, NEW next, handler'[h] = next, Orderly(handler[h]),
         UNCHANGED <<tables, touched>>, edited \subseteq edited', Fits(next)',
         handler[h].pc \in Provisioning =>
            \/ next.pc \in Provisioning /\ next.e = handler[h].e
            \/ provisions[handler[h].e] > 0 \/ participant[handler[h].e] = {},
         \A p \in People : Pending(handler[h], p) => Pending(next, p)
  PROVE  Orderly(handler[h])'
<1>. USE DEF tables
<1>1. Fits(handler[h])'
  BY DEF Fits, Found, Held, Exists, MayComplete
<1>2. ASSUME NEW e \in Expeditions PROVE RowOrderly(handler[h], e)'
  <2>1. RowOrderly(handler[h], e)
    BY DEF Orderly
  <2>. QED  BY <2>1 DEF RowOrderly, Exists
<1>3. ASSUME NEW p \in People PROVE PersonOrderly(handler[h], p)'
  <2>1. PersonOrderly(handler[h], p)
    BY DEF Orderly
  <2>2. StatusFor(p)' = StatusFor(p)
    BY StatusForKept
  <2>3. Pending(next, p) => Pending(handler[h], p)'
    BY DEF Pending
  <2>. QED  BY <2>1, <2>2, <2>3 DEF PersonOrderly
<1>4. Exclusive'
  BY DEF Orderly, Exclusive
<1>. QED  BY <1>1, <1>2, <1>3, <1>4 DEF Orderly

\* The record of a handler that starts.
LEMMA StartsAs ==
  ASSUME TypeOK, NEW h \in Handlers, NEW job \in Jobs, NEW next \in HandlerType,
         Starts(h, job, next)
  PROVE  /\ handler[h].pc = "idle" /\ handler'[h] = [next EXCEPT !.job = job]
         /\ \A k \in Handlers \ {h} : handler'[k] = handler[k]
         /\ Undisturbed' => Undisturbed /\ \A g \in Handlers : At(g, "idle")
<1>1. handler' = [handler EXCEPT ![h] = [next EXCEPT !.job = job]] /\ handler[h].pc = "idle"
  BY DEF Starts, Become, At
<1>2. \A k \in Handlers : handler'[k] = IF k = h THEN [next EXCEPT !.job = job] ELSE handler[k]
  BY <1>1 DEF TypeOK
<1>3. Undisturbed' => Undisturbed /\ \A g \in Handlers : At(g, "idle")
  BY Zenon DEF Starts, Undisturbed
<1>. QED  BY <1>1, <1>2, <1>3

\* A handler that starts by reading.
LEMMA StartOrderly ==
  ASSUME TypeOK, NEW h \in Handlers, NEW job \in Jobs, NEW next \in HandlerType,
         Starts(h, job, next), Orderly(handler[h]),
         UNCHANGED <<tables, touched>>, edited \subseteq edited', Fits([next EXCEPT !.job = job])'
  PROVE  Orderly(handler[h])'
<1>1. PICK new : new = [next EXCEPT !.job = job]
  OBVIOUS
<1>2. handler'[h] = new /\ handler[h].pc = "idle" /\ Fits(new)'
  BY <1>1, StartsAs
<1>. QED  BY <1>2, OrderlyKept DEF Provisioning, Pending


LEMMA RequestOrderly ==
  ASSUME TypeOK, NEW h \in Handlers, Requests(h) \/ HourlyLoads(h), Orderly(handler[h])
  PROVE  Orderly(handler[h])'
<1>0. /\ expedition \in [Expeditions -> RowType] /\ now \in Nat
      /\ \A e \in Expeditions : expedition[e].status \in Statuses
      /\ Jobs = {"create", "put", "force", "hourly", "complete", "enroll"}
      /\ Rest \in HandlerType /\ Rest.pc = "idle" /\ Rest.todo = {} /\ Rest.before = "NEW"
      /\ participant \in [Expeditions -> SUBSET People]
  BY RestType DEF TypeOK, RowType, Jobs, Rest
<1>1. CASE Creates(h)
  <2>1. PICK e \in Expeditions : \E plan \in PlansFor[e] :
          /\ ~Exists(e)
          /\ LET status == IF Departs[plan] <= now THEN "IN_PROGRESS" ELSE "PLANNED"
             IN  /\ expedition' = [expedition EXCEPT ![e] = [NewRow EXCEPT !.status = status, !.plan = plan]]
                 /\ Starts(h, "create", IF status = "IN_PROGRESS"
                                        THEN [Rest EXCEPT !.pc = "provision", !.e = e] ELSE Rest)
    BY <1>1 DEF Creates
  <2>2. PICK plan \in PlansFor[e], status \in {"IN_PROGRESS", "PLANNED"} :
          /\ expedition' = [expedition EXCEPT ![e] = [NewRow EXCEPT !.status = status, !.plan = plan]]
          /\ Starts(h, "create", IF status = "IN_PROGRESS"
                                 THEN [Rest EXCEPT !.pc = "provision", !.e = e] ELSE Rest)
    BY <2>1
  <2>. DEFINE row == [NewRow EXCEPT !.status = status, !.plan = plan]
              next == IF status = "IN_PROGRESS" THEN [Rest EXCEPT !.pc = "provision", !.e = e] ELSE Rest
  <2>3. row.status = status /\ row.returned = FALSE
    BY DEF NewRow
  <2>4. /\ next \in HandlerType /\ next.pc \in {"provision", "idle"} /\ next.todo = {}
        /\ next.pc = "provision" => next.e = e
    BY <1>0 DEF HandlerType
  <2>. HIDE DEF next, row
  <2>5. /\ handler'[h].pc \in {"provision", "idle"} /\ handler'[h].todo = {}
        /\ handler'[h].pc = "provision" => handler'[h].e = e
        /\ handler'[h].job = "create" /\ handler[h].pc = "idle"
    <3>1. handler'[h] = [next EXCEPT !.job = "create"] /\ handler[h].pc = "idle"
      BY <1>0, <2>2, <2>4, StartsAs DEF next
    <3>2. /\ [next EXCEPT !.job = "create"].pc = next.pc /\ [next EXCEPT !.job = "create"].todo = next.todo
          /\ [next EXCEPT !.job = "create"].e = next.e /\ [next EXCEPT !.job = "create"].job = "create"
      BY <2>4 DEF HandlerType
    <3>. QED  BY <2>4, <3>1, <3>2
  <2>6. /\ UNCHANGED <<participant, person, provisions, loot, edited, touched>>
        /\ \A f \in Expeditions : expedition'[f] = IF f = e THEN row ELSE expedition[f]
    BY <1>0, <1>1, <2>2 DEF Creates, row
  <2>7. participant[e] = {} /\ ~(loot[e] > 0)
    BY <2>1 DEF Orderly, RowOrderly
  <2>8. Fits(handler[h])'
    BY <2>5, <2>6, <2>7 DEF Fits, Provisioning
  <2>9. ASSUME NEW f \in Expeditions PROVE RowOrderly(handler[h], f)'
    <3>1. RowOrderly(handler[h], f) /\ (f \notin edited => loot[f] <= 1)
      BY DEF Orderly, RowOrderly
    <3>2. CASE f = e
      <4>1. /\ expedition'[f].status = status /\ expedition'[f].returned = FALSE
            /\ UNCHANGED <<participant, provisions, loot, edited, touched>>
        BY <2>6, <2>3, <3>2
      <4>. QED  BY <4>1, <2>7, <3>1, <3>2 DEF RowOrderly, Ended
    <3>3. CASE f # e
      BY <2>5, <2>6, <3>1, <3>3 DEF RowOrderly, Exists, Provisioning
    <3>. QED  BY <3>2, <3>3
  <2>10. ASSUME NEW p \in People PROVE PersonOrderly(handler[h], p)'
    <3>1. StatusFor(p)' = StatusFor(p)
      BY <2>6, <2>7, StatusForKept
    <3>2. PersonOrderly(handler[h], p) /\ ~Pending(handler[h], p)
      BY <2>5 DEF Orderly, Pending, Provisioning
    <3>. QED  BY <2>6, <3>1, <3>2 DEF PersonOrderly
  <2>11. Exclusive'
    BY <2>6, <2>7 DEF Orderly, Exclusive
  <2>. QED  BY <2>8, <2>9, <2>10, <2>11 DEF Orderly
<1>2. CASE PutReads(h)
  <2>1. PICK e \in Expeditions :
          /\ Exists(e) /\ edited' = edited \cup {e}
          /\ Starts(h, "put", [Rest EXCEPT !.pc = "find", !.e = e, !.before = expedition[e].status])
    BY <1>2 DEF PutReads
  <2>2. PICK next \in HandlerType :
          next = [Rest EXCEPT !.pc = "find", !.e = e, !.before = expedition[e].status]
    BY <1>0 DEF HandlerType
  <2>3. /\ [next EXCEPT !.job = "put"].pc = "find" /\ [next EXCEPT !.job = "put"].todo = {}
        /\ [next EXCEPT !.job = "put"].e = e /\ [next EXCEPT !.job = "put"].job = "put"
        /\ [next EXCEPT !.job = "put"].before = expedition[e].status
    BY <1>0, <2>2 DEF HandlerType
  <2>4. UNCHANGED <<tables, touched>> /\ edited \subseteq edited' /\ e \in edited' /\ expedition' = expedition
    BY <1>2, <2>1 DEF PutReads, tables
  <2>5. Fits([next EXCEPT !.job = "put"])'
    BY <2>1, <2>3, <2>4 DEF Fits, Found, Exists, Provisioning
  <2>. QED  BY <1>0, <2>1, <2>2, <2>4, <2>5, StartOrderly
<1>3. CASE ForceReads(h)
  <2>. DEFINE Status(e) == ForcedStatus(expedition[e], now)
  <2>1. PICK e \in Expeditions :
          /\ Exists(e)
          /\ Starts(h, "force", [Rest EXCEPT !.pc = "find", !.e = e,
                       !.entity[e] = Updated(expedition[e], Status(e), now),
                       !.starts = IF Departing(expedition[e].status, Status(e)) THEN {e} ELSE {}])
    BY <1>3 DEF ForceReads
  <2>2. PICK status \in Statuses, row \in RowType, starts \in SUBSET Expeditions :
          /\ status = Status(e) /\ row = Updated(expedition[e], status, now)
          /\ starts = IF Departing(expedition[e].status, status) THEN {e} ELSE {}
    <3>1. Status(e) \in Statuses /\ Updated(expedition[e], Status(e), now) \in RowType
      BY <1>0, StatusTypes, UpdatedType
    <3>. QED  BY <3>1
  <2>3. PICK next \in HandlerType :
          next = [Rest EXCEPT !.pc = "find", !.e = e, !.entity[e] = row, !.starts = starts]
    BY <1>0 DEF HandlerType
  <2>4. Starts(h, "force", next)
    BY <2>1, <2>2, <2>3
  <2>5. /\ [next EXCEPT !.job = "force"].pc = "find" /\ [next EXCEPT !.job = "force"].todo = {}
        /\ [next EXCEPT !.job = "force"].e = e /\ [next EXCEPT !.job = "force"].job = "force"
        /\ [next EXCEPT !.job = "force"].before = "NEW"
        /\ [next EXCEPT !.job = "force"].entity[e] = row
        /\ [next EXCEPT !.job = "force"].starts = starts
    BY <1>0, <2>3 DEF HandlerType
  <2>6. row.status = status
    BY <1>0, <2>2 DEF Updated, RowType
  <2>7. status # "NEW" /\ (status \in Ended <=> expedition[e].returned)
    <3>1. expedition[e].returned \in BOOLEAN
      BY <1>0 DEF RowType
    <3>. QED  BY <2>2, <3>1, ByClockType DEF ForcedStatus, Ended
  <2>8. UNCHANGED <<tables, touched>> /\ edited' = edited /\ expedition' = expedition
    BY <1>3 DEF ForceReads, tables
  <2>9. Fits([next EXCEPT !.job = "force"])
    BY <2>1, <2>2, <2>5, <2>6, <2>7 DEF Fits, Found, Provisioning
  <2>10. Fits([next EXCEPT !.job = "force"])'
    BY <2>5, <2>8, <2>9 DEF Fits, Found, Exists, Provisioning
  <2>. QED  BY <1>0, <2>4, <2>8, <2>10, StartOrderly
<1>4. CASE CompleteReads(h)
  <2>1. PICK e \in Expeditions :
          /\ Exists(e) /\ MayComplete(e)
          /\ Starts(h, "complete", [Rest EXCEPT !.pc = "loot", !.e = e, !.before = expedition[e].status])
    BY <1>4 DEF CompleteReads
  <2>2. PICK next \in HandlerType :
          next = [Rest EXCEPT !.pc = "loot", !.e = e, !.before = expedition[e].status]
    BY <1>0 DEF HandlerType
  <2>3. /\ [next EXCEPT !.job = "complete"].pc = "loot" /\ [next EXCEPT !.job = "complete"].todo = {}
        /\ [next EXCEPT !.job = "complete"].e = e /\ [next EXCEPT !.job = "complete"].job = "complete"
    BY <1>0, <2>2 DEF HandlerType
  <2>4. UNCHANGED <<tables, touched>> /\ edited' = edited /\ expedition' = expedition
    BY <1>4 DEF CompleteReads, tables
  <2>5. Fits([next EXCEPT !.job = "complete"])'
    BY <2>1, <2>3, <2>4 DEF Fits, Exists, MayComplete, Provisioning
  <2>. QED  BY <1>0, <2>1, <2>2, <2>4, <2>5, StartOrderly
<1>5. CASE EnrollReads(h)
  <2>1. PICK e \in Expeditions, p \in People :
          /\ expedition[e].status = "PLANNED"
          /\ \A f \in Expeditions : p \in participant[f] => expedition[f].status \notin Unfinished
          /\ Starts(h, "enroll", [Rest EXCEPT !.pc = "enroll", !.e = e, !.p = p])
    BY <1>5 DEF EnrollReads
  <2>2. PICK next \in HandlerType : next = [Rest EXCEPT !.pc = "enroll", !.e = e, !.p = p]
    BY <1>0 DEF HandlerType
  <2>3. /\ [next EXCEPT !.job = "enroll"].pc = "enroll" /\ [next EXCEPT !.job = "enroll"].todo = {}
        /\ [next EXCEPT !.job = "enroll"].e = e /\ [next EXCEPT !.job = "enroll"].job = "enroll"
        /\ [next EXCEPT !.job = "enroll"].p = p
    BY <1>0, <2>2 DEF HandlerType
  <2>4. UNCHANGED <<tables, touched>> /\ edited' = edited /\ expedition' = expedition /\ participant' = participant
    BY <1>5 DEF EnrollReads, tables
  <2>5. Fits([next EXCEPT !.job = "enroll"])'
    BY <2>1, <2>3, <2>4 DEF Fits, Provisioning
  <2>. QED  BY <1>0, <2>1, <2>2, <2>4, <2>5, StartOrderly
<1>6. CASE HourlyLoads(h)
  <2>. DEFINE Status(e) == HourlyStatus(expedition[e], now)
              Row(e) == Updated(expedition[e], Status(e), now)
  <2>1. PICK todo \in SUBSET Expeditions, starts \in SUBSET Expeditions :
          /\ \A e \in todo : expedition[e].status \in AutoUpdated
          /\ starts = {e \in todo : Departing(expedition[e].status, Status(e))}
          /\ Starts(h, "hourly", [Rest EXCEPT !.pc = "next", !.todo = todo,
                  !.entity = [e \in Expeditions |-> IF e \in todo THEN Row(e) ELSE NewRow],
                  !.starts = starts])
    BY <1>6 DEF HourlyLoads
  <2>2. \A e \in Expeditions : Status(e) \in Statuses /\ Row(e) \in RowType
    BY <1>0, StatusTypes, UpdatedType
  <2>3. PICK entity \in [Expeditions -> RowType] :
          entity = [e \in Expeditions |-> IF e \in todo THEN Row(e) ELSE NewRow]
    BY <2>2, NewRowType
  <2>4. PICK next \in HandlerType :
          next = [Rest EXCEPT !.pc = "next", !.todo = todo, !.entity = entity, !.starts = starts]
    BY <1>0 DEF HandlerType
  <2>5. Starts(h, "hourly", next)
    BY <2>1, <2>3, <2>4
  <2>6. /\ [next EXCEPT !.job = "hourly"].pc = "next" /\ [next EXCEPT !.job = "hourly"].todo = todo
        /\ [next EXCEPT !.job = "hourly"].entity = entity /\ [next EXCEPT !.job = "hourly"].job = "hourly"
        /\ [next EXCEPT !.job = "hourly"].starts = starts
        /\ [next EXCEPT !.job = "hourly"].before = "NEW"
    BY <1>0, <2>4 DEF HandlerType
  <2>7. UNCHANGED <<tables, touched>> /\ edited' = edited /\ expedition' = expedition
    BY <1>6 DEF HourlyLoads, tables
  <2>8. ASSUME NEW e \in todo
        PROVE  /\ entity[e].returned = expedition[e].returned /\ entity[e].status # "NEW"
               /\ entity[e].status \in Ended <=> entity[e].returned
               /\ Departing(expedition[e].status, entity[e].status) => e \in starts
    <3>1. entity[e] = Row(e) /\ expedition[e].returned \in BOOLEAN
      BY <1>0, <2>3 DEF RowType
    <3>2. Row(e).status = Status(e) /\ Row(e).returned = expedition[e].returned
      BY <1>0 DEF Updated, RowType
    <3>. HIDE DEF Row
    <3>3. Status(e) # "NEW" /\ (Status(e) \in Ended <=> expedition[e].returned)
      BY <3>1, ByClockType, <2>1 DEF HourlyStatus, Ended, AutoUpdated
    <3>. QED  BY <2>1, <3>1, <3>2, <3>3
  <2>9. \A e \in todo : Held([next EXCEPT !.job = "hourly"], e)'
    BY <2>6, <2>7, <2>8 DEF Held
  <2>10. Fits([next EXCEPT !.job = "hourly"])'
    BY <2>6, <2>9 DEF Fits, Provisioning
  <2>. QED  BY <1>0, <2>5, <2>7, <2>10, StartOrderly
<1>. QED  BY <1>1, <1>2, <1>3, <1>4, <1>5, <1>6 DEF Requests


\* A handler that goes on without writing.
LEMMA ReadOrderly ==
  ASSUME TypeOK, NEW h \in Handlers, Orderly(handler[h]),
         PutFinds(h) \/ ForceFinds(h) \/ HourlyNext(h) \/ ProvisionReads(h)
  PROVE  Orderly(handler[h])'
<1>. DEFINE me == handler[h]
<1>0. /\ me \in HandlerType /\ me.e \in Expeditions /\ expedition[me.e] \in RowType
      /\ me.entity \in [Expeditions -> RowType] /\ handler \in [Handlers -> HandlerType]
      /\ Rest \in HandlerType /\ Rest.pc = "idle" /\ provisions \in [Expeditions -> Nat]
      /\ me.todo \subseteq Expeditions
  BY RestType DEF TypeOK, HandlerType
<1>1. Fits(me) /\ UNCHANGED <<tables, touched>> /\ UNCHANGED edited
  BY DEF Orderly, PutFinds, ForceFinds, HourlyNext, ProvisionReads
<1>2. ASSUME NEW next, Become(h, next), Fits(next),
             me.pc \in Provisioning =>
                \/ next.pc \in Provisioning /\ next.e = me.e
                \/ provisions[me.e] > 0 \/ participant[me.e] = {},
             \A p \in People : Pending(me, p) => Pending(next, p)
      PROVE  Orderly(handler[h])'
  <2>1. handler'[h] = next
    BY <1>0, <1>2 DEF Become
  <2>2. Fits(next)'
    BY <1>1, <1>2, FitsKept DEF tables
  <2>. QED  BY <1>1, <1>2, <2>1, <2>2, OrderlyKept
<1>3. CASE PutFinds(h)
  <2>. DEFINE e == me.e
              row == expedition[e]
  <2>1. PICK s \in EditedTo \cup {row.status}, plan \in Replans \cup {row.plan} :
          Become(h, [me EXCEPT !.pc = "save",
                     !.entity[e] = [row EXCEPT !.status = s, !.plan = plan],
                     !.starts = IF Departing(me.before, s) THEN {e} ELSE {}])
    BY <1>3 DEF PutFinds
  <2>2. PICK saved : saved = [row EXCEPT !.status = s, !.plan = plan]
    OBVIOUS
  <2>3. saved.status = s /\ saved.returned = row.returned
    BY <1>0, <2>2 DEF RowType
  <2>. DEFINE next == [me EXCEPT !.pc = "save", !.entity[e] = saved,
                                 !.starts = IF Departing(me.before, s) THEN {e} ELSE {}]
  <2>4. /\ next.pc = "save" /\ next.e = e /\ next.entity[e] = saved /\ next.job = me.job
        /\ Departing(me.before, s) => e \in next.starts
        /\ next.before = me.before /\ next.todo = me.todo /\ Become(h, next)
    BY <1>0, <2>1, <2>2 DEF HandlerType
  <2>5. /\ me.job = "put" /\ me.pc = "find" /\ e \in edited /\ me.before = row.status /\ Exists(e)
        /\ me.todo = {}
    BY <1>1, <1>3 DEF PutFinds, At, Fits, Found
  <2>6. s # "NEW"
    BY <2>1, <2>5, ExpeditionAssumption DEF Exists
  <2>. HIDE DEF next
  <2>7. Fits(next)
    BY <2>3, <2>4, <2>5, <2>6 DEF Fits, Held, Provisioning
  <2>8. \A p \in People : ~Pending(me, p)
    BY <2>5 DEF Pending, Provisioning
  <2>. QED  BY <1>2, <2>4, <2>5, <2>7, <2>8 DEF Provisioning
<1>4. CASE ForceFinds(h)
  <2>. DEFINE e == me.e
              row == expedition[e]
              old == me.entity[e]
  <2>1. PICK saved : saved = [row EXCEPT !.status = old.status, !.used = old.used]
    OBVIOUS
  <2>2. saved.status = old.status /\ saved.returned = row.returned
    BY <1>0, <2>1 DEF RowType
  <2>. DEFINE next == [me EXCEPT !.pc = "save", !.entity[e] = saved]
  <2>3. /\ next.pc = "save" /\ next.e = e /\ next.entity[e] = saved /\ next.job = me.job
        /\ next.starts = me.starts /\ next.before = me.before /\ next.todo = me.todo
        /\ Become(h, next)
    BY <1>0, <1>4, <2>1 DEF HandlerType, ForceFinds
  <2>4. /\ me.job = "force" /\ me.pc = "find" /\ Found(me, e) /\ me.todo = {}
    BY <1>1, <1>4 DEF ForceFinds, At, Fits
  <2>. HIDE DEF next
  <2>5. Held(next, e)
    BY <2>2, <2>3, <2>4 DEF Found, Held
  <2>6. Fits(next)
    BY <2>3, <2>4, <2>5 DEF Fits, Provisioning
  <2>7. \A p \in People : ~Pending(me, p)
    BY <2>4 DEF Pending, Provisioning
  <2>. QED  BY <1>2, <2>3, <2>4, <2>6, <2>7 DEF Provisioning
<1>5. CASE HourlyNext(h)
  <2>1. me.pc = "next" /\ me.job = "hourly" /\ \A x \in me.todo : Held(me, x)
    BY <1>1, <1>5 DEF HourlyNext, At, Fits
  <2>2. \A p \in People : ~Pending(me, p)
    BY <2>1 DEF Pending, Provisioning
  <2>3. CASE Become(h, Rest)
    <3>1. Fits(Rest)
      BY <1>0 DEF Fits, Provisioning
    <3>. QED  BY <1>2, <2>1, <2>2, <2>3, <3>1 DEF Provisioning
  <2>4. ASSUME NEW x \in me.todo,
               Become(h, [me EXCEPT !.pc = "save", !.e = x, !.todo = me.todo \ {x}])
        PROVE  Orderly(handler[h])'
    <3>. DEFINE next == [me EXCEPT !.pc = "save", !.e = x, !.todo = me.todo \ {x}]
    <3>1. /\ next.pc = "save" /\ next.e = x /\ next.entity = me.entity /\ next.job = me.job
          /\ next.starts = me.starts /\ next.before = me.before /\ next.todo = me.todo \ {x}
          /\ Become(h, next)
      BY <1>0, <2>4 DEF HandlerType
    <3>. HIDE DEF next
    <3>2. \A y \in me.todo : Held(next, y)
      BY <2>1, <3>1 DEF Held
    <3>3. Fits(next)
      BY <2>1, <3>1, <3>2 DEF Fits, Provisioning
    <3>. QED  BY <1>2, <2>1, <2>2, <3>1, <3>3 DEF Provisioning
  <2>. QED  BY <1>5, <2>3, <2>4 DEF HourlyNext
<1>6. CASE ProvisionReads(h)
  <2>. DEFINE e == me.e
  <2>1. /\ me.pc = "provision" /\ me.job \in {"create", "put", "force", "hourly"}
        /\ me.job = "create" => participant[e] = {}
        /\ me.job = "hourly" \/ me.todo = {}
        /\ \A x \in me.todo : Held(me, x)
        /\ e \notin me.todo
    BY <1>1, <1>6 DEF ProvisionReads, At, Fits, Provisioning
  <2>2. ASSUME NEW pc \in {"provide", "sync"}, pc = "sync" => me.job # "create"
        PROVE  /\ [me EXCEPT !.pc = pc].pc = pc /\ [me EXCEPT !.pc = pc].e = e
               /\ Fits([me EXCEPT !.pc = pc])
               /\ \A p \in People : Pending(me, p) => Pending([me EXCEPT !.pc = pc], p)
    <3>. DEFINE next == [me EXCEPT !.pc = pc]
    <3>1. /\ next.pc = pc /\ next.e = e /\ next.entity = me.entity /\ next.job = me.job
          /\ next.starts = me.starts /\ next.before = me.before /\ next.todo = me.todo
          /\ next.p = me.p
      BY <1>0 DEF HandlerType
    <3>. HIDE DEF next
    <3>2. \A y \in me.todo : Held(next, y)
      BY <2>1, <3>1 DEF Held
    <3>3. Fits(next)
      BY <2>1, <2>2, <3>1, <3>2 DEF Fits, Provisioning
    <3>4. \A p \in People : Pending(me, p) => Pending(next, p)
      BY <2>2, <3>1 DEF Pending, Provisioning
    <3>. QED  BY <3>1, <3>3, <3>4 DEF next
  <2>3. CASE NeedsProvisions(e)
    <3>1. Become(h, [me EXCEPT !.pc = "provide"])
      BY <1>6, <2>3 DEF ProvisionReads
    <3>. QED  BY <1>2, <2>2, <3>1 DEF Provisioning
  <2>4. CASE ~NeedsProvisions(e)
    <3>1. Become(h, AfterProvision(h)) /\ (provisions[e] > 0 \/ participant[e] = {})
      BY <1>0, <1>6, <2>4 DEF ProvisionReads, NeedsProvisions
    <3>2. CASE me.job = "create"
      <4>1. Become(h, Rest) /\ Fits(Rest) /\ \A p \in People : ~Pending(me, p)
        BY <1>0, <2>1, <3>1, <3>2 DEF AfterProvision, Fits, Provisioning, Pending
      <4>. QED  BY <1>2, <3>1, <4>1
    <3>3. CASE me.job # "create"
      <4>1. Become(h, [me EXCEPT !.pc = "sync"])
        BY <3>1, <3>3 DEF AfterProvision
      <4>. QED  BY <1>2, <2>2, <3>1, <3>3, <4>1
    <3>. QED  BY <3>2, <3>3
  <2>. QED  BY <2>3, <2>4
<1>. QED  BY <1>3, <1>4, <1>5, <1>6

\* The status of an expedition is written, and the people on it are next.
LEMMA SaveOrderly ==
  ASSUME TypeOK, NEW h \in Handlers, Orderly(handler[h]), Saves(h)
  PROVE  Orderly(handler[h])'
<1>. DEFINE me == handler[h]
<1>0. PICK e \in Expeditions, row \in RowType :
        /\ e = me.e /\ row = me.entity[e]
        /\ me \in HandlerType /\ me.entity \in [Expeditions -> RowType]
        /\ handler \in [Handlers -> HandlerType] /\ expedition \in [Expeditions -> RowType]
        /\ Rest.pc = "idle" /\ me.todo \subseteq Expeditions
  BY RestType DEF TypeOK, HandlerType
<1>1. /\ me.pc = "save" /\ me.job \in {"put", "force", "hourly"} /\ Held(me, e)
      /\ me.job = "hourly" \/ me.todo = {}
      /\ \A x \in me.todo : Held(me, x)
      /\ e \notin me.todo
      /\ UNCHANGED <<participant, person, provisions, loot, edited, touched>>
  BY <1>0 DEF Saves, At, Orderly, Fits
<1>2. \A p \in People : ~Pending(me, p) /\ (p \notin touched /\ person[p] \in Managed => person[p] = StatusFor(p))
  BY <1>1 DEF Orderly, PersonOrderly, Pending, Provisioning
<1>3. CASE ~Accepted(row)
  <2>1. handler'[h] = Rest /\ UNCHANGED <<tables, touched>>
    BY <1>0, <1>3 DEF Saves, Become, tables
  <2>2. Fits(Rest)'
    BY <1>0 DEF Fits, Provisioning
  <2>. QED  BY <1>1, <1>2, <2>1, <2>2, OrderlyKept DEF Provisioning
<1>4. CASE Accepted(row)
  <2>1. PICK next :
          /\ handler'[h] = next
          /\ \/ /\ next = Rest /\ e \notin me.starts /\ me.before = row.status
             \/ \E pc \in {"provision", "sync"} :
                  /\ e \in me.starts => pc = "provision"
                  /\ next = [me EXCEPT !.entity[e] = NewRow, !.before = "NEW", !.pc = pc]
    <3>1. CASE e \notin me.starts /\ me.before = row.status
      <4>1. handler' = [handler EXCEPT ![h] = Rest]
        BY <1>0, <1>4, <3>1 DEF Saves, Become
      <4>. QED  BY <1>0, <3>1, <4>1
    <3>2. CASE ~(e \notin me.starts /\ me.before = row.status)
      <4>1. handler' = [handler EXCEPT ![h] =
                [me EXCEPT !.entity[e] = NewRow, !.before = "NEW",
                           !.pc = IF e \in me.starts THEN "provision" ELSE "sync"]]
        BY <1>0, <1>4, <3>2 DEF Saves, Become
      <4>2. CASE e \in me.starts
        BY <1>0, <4>1, <4>2
      <4>3. CASE e \notin me.starts
        BY <1>0, <4>1, <4>3
      <4>. QED  BY <4>2, <4>3
    <3>. QED  BY <3>1, <3>2
  <2>2. \A f \in Expeditions : expedition'[f] = IF f = e THEN row ELSE expedition[f]
    BY <1>0, <1>4 DEF Saves
  <2>3. /\ row.returned = expedition[e].returned /\ row.status # "NEW"
        /\ e \notin edited => (row.status \in Ended <=> row.returned)
        /\ Departing(expedition[e].status, row.status) => e \in me.starts
        /\ me.before = row.status => row.status = expedition[e].status
    BY <1>0, <1>1 DEF Held
  <2>4. \/ /\ next = Rest /\ next.pc = "idle" /\ e \notin me.starts /\ row.status = expedition[e].status
        \/ /\ next.pc \in {"provision", "sync"} /\ (e \in me.starts => next.pc = "provision")
           /\ next.e = e /\ next.job = me.job /\ next.before = "NEW" /\ next.starts = me.starts
           /\ next.todo = me.todo /\ \A x \in Expeditions \ {e} : next.entity[x] = me.entity[x]
    <3>1. ASSUME NEW pc \in {"provision", "sync"}
          PROVE  LET new == [me EXCEPT !.entity[e] = NewRow, !.before = "NEW", !.pc = pc]
                 IN  /\ new.pc = pc /\ new.e = me.e /\ new.job = me.job /\ new.before = "NEW"
                     /\ new.starts = me.starts /\ new.todo = me.todo
                     /\ \A x \in Expeditions \ {e} : new.entity[x] = me.entity[x]
      BY <1>0 DEF HandlerType
    <3>2. ASSUME NEW pc \in {"provision", "sync"}, e \in me.starts => pc = "provision",
                 next = [me EXCEPT !.entity[e] = NewRow, !.before = "NEW", !.pc = pc]
          PROVE  /\ next.pc \in {"provision", "sync"} /\ (e \in me.starts => next.pc = "provision")
                 /\ next.e = e /\ next.job = me.job /\ next.before = "NEW" /\ next.starts = me.starts
                 /\ next.todo = me.todo /\ \A x \in Expeditions \ {e} : next.entity[x] = me.entity[x]
      BY ONLY <1>0, <3>1, <3>2
    <3>3. CASE next = Rest /\ e \notin me.starts /\ me.before = row.status
      BY <1>0, <2>3, <3>3
    <3>. QED  BY <2>1, <3>2, <3>3
  <2>5. \A x \in me.todo : next.pc # "idle" => Held(next, x)'
    BY <1>0, <1>1, <2>2, <2>4 DEF Held
  <2>6. Fits(handler[h])'
    <3>1. CASE next.pc = "idle"
      BY <2>1, <3>1 DEF Fits, Provisioning
    <3>2. CASE next.pc # "idle"
      <4>1. \A x \in next.todo : Held(handler[h], x)'
        BY <2>1, <2>4, <2>5, <3>2 DEF Held
      <4>. QED  BY <1>1, <2>1, <2>4, <3>2, <4>1 DEF Fits, Provisioning
    <3>. QED  BY <3>1, <3>2
  <2>7. ASSUME NEW f \in Expeditions PROVE RowOrderly(handler[h], f)'
    <3>1. RowOrderly(me, f)
      BY DEF Orderly
    <3>2. CASE f = e
      <4>1. row.status = "IN_PROGRESS" /\ participant[e] # {} =>
              provisions[e] > 0 \/ (handler'[h].pc \in Provisioning /\ handler'[h].e = e)
        BY <1>1, <2>1, <2>3, <2>4, <3>1, <3>2 DEF RowOrderly, Provisioning, Departing
      <4>2. expedition'[f] = row
        BY <2>2, <3>2
      <4>. QED  BY <1>1, <2>3, <3>1, <3>2, <4>1, <4>2 DEF RowOrderly, Exists
    <3>3. CASE f # e
      <4>1. expedition'[f] = expedition[f]
        BY <2>2, <3>3
      <4>. QED  BY <1>1, <3>1, <4>1 DEF RowOrderly, Exists, Provisioning
    <3>. QED  BY <3>2, <3>3
  <2>8. ASSUME NEW p \in People PROVE PersonOrderly(handler[h], p)'
    <3>1. CASE p \in participant[e] /\ next.pc # "idle"
      BY <1>1, <2>1, <2>4, <3>1 DEF PersonOrderly, Pending, Provisioning
    <3>2. CASE ~(p \in participant[e] /\ next.pc # "idle")
      <4>1. \A f \in Expeditions : p \in participant[f] => expedition'[f].status = expedition[f].status
        BY <2>2, <2>4, <3>2
      <4>2. StatusFor(p)' = StatusFor(p)
        BY <1>1, <4>1, StatusForKept
      <4>. QED  BY <1>1, <1>2, <4>2 DEF PersonOrderly
    <3>. QED  BY <3>1, <3>2
  <2>9. Exclusive'
    <3>1. edited = {} => (expedition[e].status \in Ended => row.status \in Ended)
      BY <2>3 DEF Orderly, RowOrderly
    <3>2. edited = {} => \A f \in Expeditions : expedition[f].status \in Ended => expedition'[f].status \in Ended
      BY <2>2, <3>1
    <3>. QED  BY <1>1, <3>2 DEF Orderly, Exclusive
  <2>. QED  BY <2>6, <2>7, <2>8, <2>9 DEF Orderly
<1>. QED  BY <1>3, <1>4


\* The camp is debited.
LEMMA ProvideOrderly ==
  ASSUME TypeOK, NEW h \in Handlers, Orderly(handler[h]), Provides(h)
  PROVE  Orderly(handler[h])'
<1>. DEFINE me == handler[h]
<1>0. PICK e \in Expeditions :
        /\ e = me.e /\ me \in HandlerType /\ handler \in [Handlers -> HandlerType]
        /\ provisions \in [Expeditions -> Nat] /\ Rest.pc = "idle"
  BY RestType DEF TypeOK, HandlerType
<1>1. /\ me.pc = "provide" /\ me.job \in {"create", "put", "force", "hourly"}
      /\ me.job = "create" => participant[e] = {}
      /\ me.job = "hourly" \/ me.todo = {}
      /\ \A x \in me.todo : Held(me, x)
      /\ e \notin me.todo
      /\ UNCHANGED <<expedition, participant, person, loot, edited, touched>>
  BY <1>0 DEF Provides, At, Orderly, Fits, Provisioning
<1>2. \A x \in Expeditions : provisions'[x] = IF x = e THEN provisions[e] + 1 ELSE provisions[x]
  BY <1>0 DEF Provides
<1>3. PICK next :
        /\ handler'[h] = next
        /\ \/ next = Rest /\ me.job = "create"
           \/ next = [me EXCEPT !.pc = "sync"] /\ me.job # "create"
  BY <1>0 DEF Provides, Become, AfterProvision
<1>4. \/ next.pc = "idle" /\ me.job = "create"
      \/ /\ next.pc = "sync" /\ next.e = e /\ next.entity = me.entity /\ next.job = me.job
         /\ next.starts = me.starts /\ next.before = me.before /\ next.todo = me.todo
         /\ me.job # "create"
  BY <1>0, <1>3 DEF HandlerType
<1>5. Fits(handler[h])'
  <2>1. next.pc # "idle" => \A x \in next.todo : Held(handler[h], x)'
    BY <1>1, <1>3, <1>4 DEF Held
  <2>. QED  BY <1>1, <1>3, <1>4, <2>1 DEF Fits, Provisioning
<1>6. ASSUME NEW f \in Expeditions PROVE RowOrderly(handler[h], f)'
  <2>1. RowOrderly(me, f) /\ provisions[e] \in Nat
    BY <1>0 DEF Orderly
  <2>. QED  BY <1>0, <1>1, <1>2, <2>1 DEF RowOrderly, Exists, Provisioning
<1>7. ASSUME NEW p \in People PROVE PersonOrderly(handler[h], p)'
  <2>1. PersonOrderly(me, p)
    BY DEF Orderly
  <2>2. StatusFor(p)' = StatusFor(p)
    BY <1>1, StatusForKept
  <2>3. Pending(me, p) => Pending(handler[h], p)'
    BY <1>0, <1>1, <1>3, <1>4 DEF Pending, Provisioning
  <2>. QED  BY <1>1, <2>1, <2>2, <2>3 DEF PersonOrderly
<1>8. Exclusive'
  BY <1>1 DEF Orderly, Exclusive
<1>. QED  BY <1>5, <1>6, <1>7, <1>8 DEF Orderly

\* An expedition comes home: for the first time, unless an edit has opened it again.
LEMMA LootOrderly ==
  ASSUME TypeOK, NEW h \in Handlers, Orderly(handler[h]), Loots(h)
  PROVE  Orderly(handler[h])'
<1>. DEFINE me == handler[h]
<1>0. PICK e \in Expeditions :
        /\ e = me.e /\ me \in HandlerType /\ handler \in [Handlers -> HandlerType]
        /\ loot \in [Expeditions -> Nat] /\ expedition \in [Expeditions -> RowType]
  BY DEF TypeOK, HandlerType
<1>1. /\ me.pc = "loot" /\ me.job = "complete" /\ Exists(e) /\ MayComplete(e)
      /\ me.todo = {}
      /\ UNCHANGED <<participant, person, provisions, edited, touched>>
  BY <1>0 DEF Loots, At, Orderly, Fits
<1>2. PICK row : /\ row.status \in {"RETURNED_AFTER_LOST", "COMPLETED"} /\ row.returned = TRUE
                 /\ expedition' = [expedition EXCEPT ![e] = row]
  <2>1. PICK status \in {"RETURNED_AFTER_LOST", "COMPLETED"} :
          expedition' = [expedition EXCEPT ![e].status = status, ![e].returned = TRUE]
    BY <1>0 DEF Loots
  <2>2. expedition' = [expedition EXCEPT ![e] = [expedition[e] EXCEPT !.status = status, !.returned = TRUE]]
    BY <1>0, <2>1
  <2>. QED  BY <1>0, <2>2 DEF RowType
<1>3. \A x \in Expeditions : expedition'[x] = IF x = e THEN row ELSE expedition[x]
  BY <1>0, <1>2
<1>4. \A x \in Expeditions : loot'[x] = IF x = e THEN loot[e] + 1 ELSE loot[x]
  BY <1>0 DEF Loots
<1>5. /\ handler'[h].pc = "sync" /\ handler'[h].e = e /\ handler'[h].job = "complete"
      /\ handler'[h].todo = {}
  <2>1. handler'[h] = [me EXCEPT !.pc = "sync", !.before = "NEW"]
    BY <1>0 DEF Loots, Become
  <2>. QED  BY <1>0, <1>1, <2>1 DEF HandlerType
<1>6. Fits(handler[h])'
  BY <1>5 DEF Fits, Provisioning
<1>7. ASSUME NEW f \in Expeditions PROVE RowOrderly(handler[h], f)'
  <2>1. RowOrderly(me, f) /\ loot[f] \in Nat
    BY <1>0 DEF Orderly
  <2>2. CASE f = e
    <3>1. e \notin edited => loot[e] = 0
      BY <1>1, <2>1, <2>2 DEF RowOrderly, MayComplete
    <3>2. expedition'[f] = row /\ loot'[f] = loot[e] + 1
      BY <1>3, <1>4, <2>2
    <3>. QED  BY <1>1, <1>2, <2>2, <3>1, <3>2 DEF RowOrderly, Exists, Ended
  <2>3. CASE f # e
    <3>1. expedition'[f] = expedition[f] /\ loot'[f] = loot[f]
      BY <1>3, <1>4, <2>3
    <3>. QED  BY <1>1, <2>1, <3>1 DEF RowOrderly, Exists, Provisioning
  <2>. QED  BY <2>2, <2>3
<1>8. ASSUME NEW p \in People PROVE PersonOrderly(handler[h], p)'
  <2>1. CASE p \in participant[e]
    BY <1>1, <1>5, <2>1 DEF PersonOrderly, Pending
  <2>2. CASE p \notin participant[e]
    <3>1. StatusFor(p)' = StatusFor(p)
      BY <1>1, <1>3, <2>2, StatusForKept
    <3>2. p \notin touched /\ person[p] \in Managed => person[p] = StatusFor(p)
      BY <1>1 DEF Orderly, PersonOrderly, Pending, Provisioning
    <3>. QED  BY <1>1, <3>1, <3>2 DEF PersonOrderly
  <2>. QED  BY <2>1, <2>2
<1>9. Exclusive'
  BY <1>1, <1>2, <1>3 DEF Orderly, Exclusive, Ended
<1>. QED  BY <1>6, <1>7, <1>8, <1>9 DEF Orderly

\* A person joins an expedition, with none that is not over.
LEMMA EnrollOrderly ==
  ASSUME TypeOK, NEW h \in Handlers, Orderly(handler[h]), Enrolls(h)
  PROVE  Orderly(handler[h])'
<1>. DEFINE me == handler[h]
<1>0. PICK e \in Expeditions, q \in People :
        /\ e = me.e /\ q = me.p /\ me \in HandlerType /\ handler \in [Handlers -> HandlerType]
        /\ participant \in [Expeditions -> SUBSET People] /\ Rest.pc = "idle"
        /\ \A x \in Expeditions : expedition[x].status \in Statuses
  BY RestType DEF TypeOK, HandlerType, RowType
<1>1. /\ me.pc = "enroll" /\ me.job = "enroll" /\ expedition[e].status = "PLANNED"
      /\ \A f \in Expeditions : q \in participant[f] => expedition[f].status \notin Unfinished
      /\ me.todo = {}
      /\ UNCHANGED <<expedition, person, provisions, loot, edited, touched>>
  BY <1>0 DEF Enrolls, At, Orderly, Fits
<1>2. q \notin participant[e]
  BY <1>1 DEF Unfinished
<1>3. \A x \in Expeditions : participant'[x] = IF x = e THEN participant[e] \cup {q} ELSE participant[x]
  BY <1>0, <1>2 DEF Enrolls
<1>4. /\ handler'[h].pc = "sync" /\ handler'[h].e = e /\ handler'[h].job = "enroll"
      /\ handler'[h].todo = {} /\ handler'[h].p = q
  <2>1. handler'[h] = [me EXCEPT !.pc = "sync"]
    BY <1>0, <1>2 DEF Enrolls, Become
  <2>. QED  BY <1>0, <1>1, <2>1 DEF HandlerType
<1>5. Fits(handler[h])'
  BY <1>4 DEF Fits, Provisioning
<1>6. ASSUME NEW f \in Expeditions PROVE RowOrderly(handler[h], f)'
  <2>1. RowOrderly(me, f)
    BY DEF Orderly
  <2>2. f # e => participant'[f] = participant[f]
    BY <1>3
  <2>. QED  BY <1>1, <2>1, <2>2 DEF RowOrderly, Exists, Provisioning
<1>7. ASSUME NEW p \in People PROVE PersonOrderly(handler[h], p)'
  <2>1. CASE p = q
    BY <1>4, <2>1 DEF PersonOrderly, Pending
  <2>2. CASE p # q
    <3>1. StatusFor(p)' = StatusFor(p)
      BY <1>1, <1>3, <2>2, StatusForKept
    <3>2. p \notin touched /\ person[p] \in Managed => person[p] = StatusFor(p)
      BY <1>1 DEF Orderly, PersonOrderly, Pending, Provisioning
    <3>. QED  BY <1>1, <3>1, <3>2 DEF PersonOrderly
  <2>. QED  BY <2>1, <2>2
<1>8. Exclusive'
  <2>. SUFFICES ASSUME edited = {}, NEW p \in People, NEW x \in Expeditions, NEW y \in Expeditions,
                       p \in participant'[x], p \in participant'[y], x # y
                PROVE  expedition[x].status \in Ended \/ expedition[y].status \in Ended
    BY <1>1 DEF Exclusive
  <2>1. ASSUME NEW z \in Expeditions, z # e, p = q, p \in participant[z]
        PROVE  expedition[z].status \in Ended
    <3>1. expedition[z].status # "NEW"
      BY <2>1 DEF Orderly, RowOrderly, Exists
    <3>. QED  BY <1>0, <1>1, <2>1, <3>1 DEF Statuses, Unfinished, Ended
  <2>2. CASE p \in participant[x] /\ p \in participant[y]
    BY <2>2 DEF Orderly, Exclusive
  <2>3. CASE p \notin participant[x]
    BY <1>3, <2>1, <2>3
  <2>4. CASE p \notin participant[y]
    BY <1>3, <2>1, <2>4
  <2>. QED  BY <2>2, <2>3, <2>4
<1>. QED  BY <1>5, <1>6, <1>7, <1>8 DEF Orderly

\* The people concerned get the status their expeditions give them.
LEMMA SyncOrderly ==
  ASSUME TypeOK, NEW h \in Handlers, Orderly(handler[h]), Syncs(h)
  PROVE  Orderly(handler[h])'
<1>. DEFINE me == handler[h]
<1>0. /\ me \in HandlerType /\ handler \in [Handlers -> HandlerType] /\ Rest.pc = "idle"
      /\ Rest.e \in Expeditions
  BY RestType DEF TypeOK, HandlerType
<1>1. /\ me.pc = "sync"
      /\ me.job = "hourly" \/ me.todo = {}
      /\ \A x \in me.todo : Held(me, x)
      /\ UNCHANGED <<expedition, participant, provisions, loot, edited>>
  BY <1>0 DEF Syncs, At, Orderly, Fits
<1>2. PICK next :
        /\ handler'[h] = next
        /\ \/ next = Rest
           \/ next = [me EXCEPT !.pc = "next", !.e = Rest.e] /\ me.job = "hourly"
  BY <1>0 DEF Syncs, Become, After
<1>3. \/ next.pc = "idle"
      \/ /\ next.pc = "next" /\ next.entity = me.entity /\ next.job = "hourly"
         /\ next.starts = me.starts /\ next.before = me.before /\ next.todo = me.todo
  BY <1>0, <1>2 DEF HandlerType
<1>4. Fits(handler[h])'
  <2>1. next.pc # "idle" => \A x \in next.todo : Held(handler[h], x)'
    BY <1>1, <1>2, <1>3 DEF Held
  <2>. QED  BY <1>1, <1>2, <1>3, <2>1 DEF Fits, Provisioning
<1>5. ASSUME NEW f \in Expeditions PROVE RowOrderly(handler[h], f)'
  <2>1. RowOrderly(me, f)
    BY DEF Orderly
  <2>. QED  BY <1>1, <2>1 DEF RowOrderly, Exists, Provisioning
<1>6. ASSUME NEW p \in People PROVE PersonOrderly(handler[h], p)'
  <2>1. PersonOrderly(me, p)
    BY DEF Orderly
  <2>2. StatusFor(p)' = StatusFor(p)
    BY <1>1, StatusForKept
  <2>3. /\ person'[p] = IF Pending(me, p) /\ person[p] \in Managed THEN StatusFor(p) ELSE person[p]
        /\ p \notin touched' => p \notin touched \/ Pending(me, p)
    BY <1>1 DEF Syncs, Pending
  <2>. QED  BY <2>1, <2>2, <2>3 DEF PersonOrderly
<1>7. Exclusive'
  BY <1>1 DEF Orderly, Exclusive
<1>. QED  BY <1>4, <1>5, <1>6, <1>7 DEF Orderly


LEMMA IdleOrderly ==
  ASSUME NEW me, NEW you, me.pc = "idle", you.pc = "idle", Orderly(me)
  PROVE  Orderly(you)
BY DEF Orderly, Fits, RowOrderly, PersonOrderly, Pending, Provisioning

LEMMA ContinueOrderly ==
  ASSUME TypeOK, NEW h \in Handlers, Orderly(handler[h]), Continues(h)
  PROVE  Orderly(handler[h])'
BY ReadOrderly, SaveOrderly, ProvideOrderly, LootOrderly, EnrollOrderly, SyncOrderly DEF Continues

\* The handler that takes the next step is the only one that has anything to do.
LEMMA TurnTaken ==
  ASSUME Serial, Undisturbed, NEW h \in Handlers, Resting \/ ~At(h, "idle")
  PROVE  Alone(h) /\ Orderly(handler[h])
<1>1. CASE Resting
  <2>1. \A k \in Handlers : handler[k].pc = "idle"
    BY <1>1 DEF Resting, At
  <2>2. PICK me : me.pc = "idle" /\ Orderly(me)
    BY <2>1, RestType DEF Serial
  <2>. QED  BY <2>1, <2>2, IdleOrderly DEF Alone, At
<1>2. CASE ~Resting /\ ~At(h, "idle")
  <2>1. PICK k \in Handlers : Alone(k) /\ Orderly(handler[k])
    BY <1>2 DEF Serial
  <2>2. k = h
    BY <1>2, <2>1 DEF Alone
  <2>. QED  BY <2>1, <2>2
<1>. QED  BY <1>1, <1>2

\* Every step keeps it: whoever starts finds the others at rest.
LEMMA SerialInductive ==
  TypeOK /\ OneActive /\ Serial /\ [Next]_vars => Serial'
<1>. SUFFICES ASSUME TypeOK, OneActive, Serial, [Next]_vars, Undisturbed'
              PROVE  \/ Resting' /\ Orderly(Rest)'
                     \/ \E h \in Handlers : Alone(h)' /\ Orderly(handler[h])'
  BY DEF Serial
<1>1. ASSUME NEW h \in Handlers, Requests(h) \/ HourlyLoads(h)
      PROVE  Alone(h)' /\ Orderly(handler[h])'
  <2>1. ASSUME NEW job, NEW next, Starts(h, job, next) PROVE Resting
    BY Zenon, <2>1 DEF Starts, Resting, Undisturbed
  <2>2. Undisturbed /\ Resting /\ \A k \in Handlers \ {h} : handler'[k] = handler[k]
    <3>1. Resting
      BY <1>1, <2>1 DEF Requests, Creates, PutReads, ForceReads, CompleteReads, EnrollReads, HourlyLoads
    <3>. QED  BY <1>1, <3>1, RequestAlone
  <2>3. Alone(h) /\ Orderly(handler[h])
    BY <2>2, TurnTaken
  <2>. QED  BY <1>1, <2>2, <2>3, RequestOrderly DEF Alone, At
<1>2. ASSUME NEW h \in Handlers, Continues(h)
      PROVE  Alone(h)' /\ Orderly(handler[h])'
  <2>1. /\ ~At(h, "idle") /\ UNCHANGED disturbed
        /\ \A k \in Handlers : k # h => handler'[k] = handler[k]
    BY <1>2, ContinueAlone
  <2>2. Alone(h) /\ Orderly(handler[h])
    BY <2>1, TurnTaken DEF Undisturbed
  <2>. QED  BY <1>2, <2>1, <2>2, ContinueOrderly DEF Alone, At
<1>3. CASE PersonEdited
  <2>1. PICK p \in People, status \in GivenTo :
          /\ person' = [person EXCEPT ![p] = status] /\ touched' = touched \cup {p}
          /\ UNCHANGED <<expedition, participant, provisions, loot, now, handler, edited, disturbed>>
          /\ Resting
    BY <1>3 DEF PersonEdited, Resting
  <2>2. Orderly(Rest)
    <3>1. \A h \in Handlers : handler[h].pc = "idle"
      BY <2>1 DEF Resting, At
    <3>2. Undisturbed
      BY <2>1 DEF Undisturbed
    <3>. QED  BY <3>1, <3>2, RestType, IdleOrderly DEF Serial
  <2>3. Resting'
    BY <2>1 DEF Resting, At
  <2>4. ASSUME NEW q \in People PROVE PersonOrderly(Rest, q)'
    <3>1. PersonOrderly(Rest, q) /\ ~Pending(Rest, q)
      BY <2>2, RestType DEF Orderly, Pending, Provisioning
    <3>2. StatusFor(q)' = StatusFor(q)
      BY <2>1, StatusForKept
    <3>3. q \notin touched' => q \notin touched /\ person'[q] = person[q]
      BY <2>1 DEF TypeOK
    <3>. QED  BY <3>1, <3>2, <3>3 DEF PersonOrderly
  <2>5. \A e \in Expeditions : RowOrderly(Rest, e)'
    BY <2>1, <2>2 DEF Orderly, RowOrderly, Exists
  <2>6. Fits(Rest)'
    BY RestType DEF Fits, Provisioning
  <2>7. Exclusive'
    BY <2>1, <2>2 DEF Orderly, Exclusive
  <2>. QED  BY <2>3, <2>4, <2>5, <2>6, <2>7 DEF Orderly
<1>4. CASE Tick \/ UNCHANGED vars
  <2>1. UNCHANGED <<expedition, participant, person, provisions, loot, handler, edited, touched, disturbed>>
    BY <1>4 DEF Tick, vars, tables
  <2>2. ASSUME NEW me, Orderly(me) PROVE Orderly(me)'
    <3>1. Fits(me)'
      BY <2>1, <2>2, FitsKept DEF Orderly
    <3>2. \A p \in People : StatusFor(p)' = StatusFor(p)
      BY <2>1, StatusForKept
    <3>. QED  BY <2>1, <2>2, <3>1, <3>2 DEF Orderly, RowOrderly, PersonOrderly, Pending, Exclusive, Exists
  <2>3. CASE Resting /\ Orderly(Rest)
    BY <2>1, <2>2, <2>3 DEF Resting, At
  <2>4. ASSUME NEW h \in Handlers, Alone(h), Orderly(handler[h])
        PROVE  Alone(h)' /\ Orderly(handler[h])'
    <3>1. PICK me : me = handler[h]
      OBVIOUS
    <3>2. Orderly(me)' /\ handler'[h] = me
      BY <2>1, <2>2, <2>4, <3>1
    <3>. QED  BY <2>1, <2>4, <3>2 DEF Alone, At
  <2>. QED  BY <2>1, <2>3, <2>4 DEF Serial, Undisturbed
<1>5. ~Stops
  BY DEF Stops, Undisturbed
<1>. QED  BY <1>1, <1>2, <1>3, <1>4, <1>5 DEF Next

LEMMA SerialInit == Init => Serial
<1>. SUFFICES ASSUME Init PROVE Resting /\ Orderly(Rest)
  BY DEF Serial
<1>1. Resting
  BY RestType DEF Init, Resting, At
<1>2. Fits(Rest)
  BY RestType DEF Fits, Provisioning
<1>3. \A e \in Expeditions : RowOrderly(Rest, e)
  BY NewRowType DEF Init, RowOrderly, NewRow, Ended
<1>4. ASSUME NEW p \in People PROVE PersonOrderly(Rest, p)
  BY StatusForIs DEF Init, PersonOrderly
<1>5. Exclusive
  BY DEF Init, Exclusive
<1>. QED  BY <1>1, <1>2, <1>3, <1>4, <1>5 DEF Orderly

\* What holds of the expeditions and the people while one handler at most is active.
LEMMA SerialInvariant == Spec => [](TypeOK /\ Serial)
<1>1. Spec => [](TypeOK /\ OneActive /\ ProvisionInv)
  BY TypeInit, TypeInductive, ProvisionInit, ProvisionInductive, PTL DEF Spec
<1>. QED  BY <1>1, TypeInit, TypeInductive, SerialInit, SerialInductive, PTL DEF Spec

LEMMA SerialIs ==
  ASSUME Serial, Undisturbed
  PROVE  \E me : /\ Orderly(me) /\ (me.pc = "idle" \/ \E h \in Handlers : me = handler[h])
                 /\ Resting => me.pc = "idle"
<1>1. CASE Resting /\ Orderly(Rest)
  BY <1>1, RestType
<1>2. ASSUME NEW h \in Handlers, Alone(h), Orderly(handler[h])
      PROVE  Resting => handler[h].pc = "idle"
  BY DEF Resting, At
<1>. QED  BY <1>1, <1>2 DEF Serial

\* While handlers do not overlap and no edit opens an expedition again, nobody is on
\* two expeditions that are not over: the enrolment asks for every other one of the
\* person, and no run or forced update takes an expedition back from its end.
THEOREM OneAtATime == Spec => []OneExpeditionAtATime
<1>1. Serial => OneExpeditionAtATime
  BY SerialIs DEF OneExpeditionAtATime, Orderly, Exclusive
<1>. QED  BY <1>1, SerialInvariant, PTL

\* An expedition that no request has edited brings loot home at most once, however
\* often hourly runs and forced updates compute its status again.
THEOREM LootOnce == Spec => []LootedOnce
<1>1. Serial => LootedOnce
  BY SerialIs DEF LootedOnce, Orderly, RowOrderly
<1>. QED  BY <1>1, SerialInvariant, PTL

\* Once the handlers are done an expedition under way with people on it has been paid
\* for, whether it was created so, edited, forced or taken there by the hourly run.
THEOREM UnderWayProvisioned == Spec => []UnderWayIsProvisioned
<1>1. Serial => UnderWayIsProvisioned
  BY SerialIs DEF UnderWayIsProvisioned, Orderly, RowOrderly, Provisioning
<1>. QED  BY <1>1, SerialInvariant, PTL

\* Once the handlers are done the status of everybody no request has edited since their
\* last synchronisation says what their expeditions say, for any number of expeditions
\* and people and any edits of both.
THEOREM PeopleFollow == Spec => []PeopleFollowExpeditions
<1>1. ASSUME Serial PROVE PeopleFollowExpeditions
  <2>. SUFFICES ASSUME Undisturbed, Resting, NEW p \in People \ touched, person[p] \in Managed
                PROVE  person[p] = StatusFor(p)
    BY StatusForIs DEF PeopleFollowExpeditions
  <2>. QED  BY <1>1, SerialIs DEF Orderly, PersonOrderly, Pending, Provisioning
<1>. QED  BY <1>1, SerialInvariant, PTL

=============================================================================
