----------------------------- MODULE Expedition -----------------------------
(***************************************************************************)
(* Expeditions, their participants and the status of the people on them:   *)
(* ExpeditionService, ExpeditionParticipantService and the hourly          *)
(* TemporalAutomationService.runHourlyExpeditionStateUpdate.               *)
(*                                                                         *)
(* A handler (request or run) goes through several awaits; each statement  *)
(* that writes, and each read it is decided on, is a step.  The            *)
(* synchronisation of the people at the end of a handler is one step.      *)
(***************************************************************************)
EXTENDS Integers, FiniteSets

CONSTANTS
    Expeditions, People,
    Handlers,      \* requests and runs that may be active at once
    JobsOf,        \* what each of them may execute, see Jobs
    Plans,         \* departure, return and extra days an expedition can have
    Departs, Returns, ExtraDays,
    DayLength,     \* clock units in a day
    PlansFor,      \* those each expedition may be created with
    EditedTo,      \* statuses and plans an edit may give an expedition
    Replans,
    GivenTo,       \* statuses an administrator may give a person
    MaxTime,       \* bounds of the model: the clock, and completions that start
    MaxLoot

Statuses == {"NEW", "PLANNED", "IN_PROGRESS", "DELAYED", "COMPLETED", "LOST",
             "RETURNED_AFTER_LOST", "CANCELED"}
Ended   == {"COMPLETED", "CANCELED", "RETURNED_AFTER_LOST"}
Ongoing == {"IN_PROGRESS", "DELAYED"}

PersonStatuses == {"ACTIVE", "INACTIVE", "SICK", "INJURED", "OUTSIDE_CAMP", "ON_EXPEDITION"}

Jobs == {"create", "put", "force", "hourly", "complete", "enroll"}

ASSUME ExpeditionAssumption ==
    /\ IsFiniteSet(Handlers) /\ JobsOf \in [Handlers -> SUBSET Jobs]
    /\ Expeditions # {} /\ People # {} /\ Plans # {}
    /\ Departs \in [Plans -> Nat] /\ Returns \in [Plans -> Nat]
    /\ ExtraDays \in [Plans -> Nat]
    /\ \A p \in Plans : Departs[p] < Returns[p]      \* chk_expedition_dates
    /\ PlansFor \in [Expeditions -> SUBSET Plans] /\ DayLength \in Nat \ {0}
    /\ EditedTo \subseteq Statuses \ {"NEW"} /\ Replans \subseteq Plans
    /\ GivenTo \subseteq PersonStatuses
    /\ {MaxTime, MaxLoot} \subseteq Nat

VARIABLES
    expedition,   \* table expedition, NEW for a row that does not exist yet
    participant,  \* the people with an ACTIVE row in table expedition_participant
    person,       \* person.current_status
    provisions,   \* EXPEDITION_DEPARTURE movements of an expedition, per resource
    loot,         \* completions that have credited resources to the camp
    now, handler,
    edited,       \* expeditions a request has edited
    touched,      \* people a request has edited since they were last synchronised
    disturbed     \* a handler started while others were active, or stopped half-way

vars == <<expedition, participant, person, provisions, loot, now, handler,
          edited, touched, disturbed>>
tables == <<expedition, participant, person, provisions, loot>>

-----------------------------------------------------------------------------
RowType == [status : Statuses, plan : Plans, used : Nat, returned : BOOLEAN]

\* returned: actual_return_date is set
NewRow == [status |-> "NEW", plan |-> CHOOSE p \in Plans : TRUE, used |-> 0, returned |-> FALSE]

\* entity: what the handler will save; starts: those to be provisioned after the save.
HandlerType ==
    [pc : {"idle", "next", "find", "save", "provision", "provide", "loot", "enroll", "sync"},
     job : Jobs, e : Expeditions, todo : SUBSET Expeditions, before : Statuses,
     entity : [Expeditions -> RowType], starts : SUBSET Expeditions, p : People]

Rest == [pc |-> "idle", job |-> "put", e |-> CHOOSE e \in Expeditions : TRUE, todo |-> {},
         before |-> "NEW", entity |-> [e \in Expeditions |-> NewRow], starts |-> {},
         p |-> CHOOSE p \in People : TRUE]

Init ==
    /\ expedition = [e \in Expeditions |-> NewRow]
    /\ participant = [e \in Expeditions |-> {}]
    /\ person = [p \in People |-> "ACTIVE"]
    /\ provisions = [e \in Expeditions |-> 0]
    /\ loot = [e \in Expeditions |-> 0]
    /\ now = 0 /\ handler = [h \in Handlers |-> Rest]
    /\ edited = {} /\ touched = {} /\ disturbed = FALSE

-----------------------------------------------------------------------------
(* Status by the clock.                                                    *)

LossLimit(plan) == Returns[plan] + ExtraDays[plan] * DayLength

ByClock(plan, t) ==
    CASE t > LossLimit(plan) -> "LOST"
      [] t > Returns[plan] /\ t <= LossLimit(plan) -> "DELAYED"
      [] t >= Departs[plan] /\ t <= Returns[plan] -> "IN_PROGRESS"
      [] OTHER -> "PLANNED"

DaysLate(plan, t) ==
    IF t > Returns[plan] THEN (t - Returns[plan] + DayLength - 1) \div DayLength ELSE 0

\* What the hourly run makes of an expedition it has loaded.
HourlyStatus(row, t) ==
    IF row.returned
    THEN IF row.status = "RETURNED_AFTER_LOST" THEN row.status ELSE "COMPLETED"
    ELSE ByClock(row.plan, t)

\* Mutant of ForcedStatus: the return of the expedition is not looked at.
ForcedByClock(row, t) == ByClock(row.plan, t)

\* What a forced update makes of it: unlike the hourly run it takes one in any status.
ForcedStatus(row, t) ==
    IF row.returned
    THEN IF row.status = "LOST" THEN "RETURNED_AFTER_LOST" ELSE "COMPLETED"
    ELSE ByClock(row.plan, t)

UsedDays(plan, t) ==
    IF DaysLate(plan, t) > ExtraDays[plan] THEN ExtraDays[plan] ELSE DaysLate(plan, t)

Updated(row, status, t) == [row EXCEPT !.status = status, !.used = UsedDays(row.plan, t)]

\* There is something to save: the stored days are capped, the computed ones are not.
Changes(row, status, t) == status # row.status \/ DaysLate(row.plan, t) # row.used

-----------------------------------------------------------------------------
(* Steps common to the handlers.                                           *)

At(h, pc) == handler[h].pc = pc
Become(h, next) == handler' = [handler EXCEPT ![h] = next]

\* Bound of the model: an edit of an expedition, a request that starts while others
\* are active, or a stop, once in a behaviour and not while a person is touched (the
\* hourly job starts whatever is active).
Used == edited # {} \/ disturbed \/ touched # {}

\* A handler of this job starts; nothing in the code keeps others from being active.
Starts(h, job, next) ==
    /\ At(h, "idle") /\ job \in JobsOf[h]
    /\ Become(h, [next EXCEPT !.job = job])
    /\ \/ (\A g \in Handlers : At(g, "idle")) /\ UNCHANGED disturbed
       \/ /\ \E g \in Handlers : ~At(g, "idle")
          /\ job # "hourly" => ~Used
          /\ disturbed' = TRUE

Exists(e) == expedition[e].status # "NEW"

\* The hourly run goes on with the next expedition, a request ends.
After(h) == IF handler[h].job = "hourly" THEN [handler[h] EXCEPT !.pc = "next", !.e = Rest.e] ELSE Rest

\* createExpedition: under way at once when its departure is now; a request
\* whose departure is past is refused.
Creates(h) ==
    /\ \E e \in Expeditions : \E plan \in PlansFor[e] :
         /\ ~Exists(e) /\ Departs[plan] >= now
         /\ LET status == IF Departs[plan] <= now THEN "IN_PROGRESS" ELSE "PLANNED"
            IN  /\ expedition' = [expedition EXCEPT ![e] = [NewRow EXCEPT !.status = status,
                                                                         !.plan = plan]]
                /\ Starts(h, "create", IF status = "IN_PROGRESS"
                                       THEN [Rest EXCEPT !.pc = "provision", !.e = e] ELSE Rest)
    /\ UNCHANGED <<participant, person, provisions, loot, now, edited, touched>>

\* Mutant of Departing: only an expedition that was planned gets provisions.
DepartingFromPlanned(before, status) == before = "PLANNED" /\ status = "IN_PROGRESS"

\* The save is followed by provisioning.
Departing(before, status) == before # "IN_PROGRESS" /\ status = "IN_PROGRESS"

\* updateExpedition reads the expedition, to compare its status later ...
PutReads(h) ==
    /\ \E e \in Expeditions :
         /\ Exists(e) /\ ~Used
         /\ Starts(h, "put", [Rest EXCEPT !.pc = "find", !.e = e, !.before = expedition[e].status])
         /\ edited' = edited \cup {e}
    /\ UNCHANGED <<tables, now, touched>>

\* ... repository.update finds it again and assigns what the request gives: any
\* status and any plan, without a rule on how they may follow each other ...
PutFinds(h) ==
    /\ At(h, "find") /\ handler[h].job = "put"
    /\ LET e == handler[h].e
           row == expedition[e]
       IN \E status \in EditedTo \cup {row.status}, plan \in Replans \cup {row.plan} :
            /\ status = row.status \/ plan = row.plan     \* one thing at a time, for size
            /\ Become(h, [handler[h] EXCEPT !.pc = "save",
                    !.entity[e] = [row EXCEPT !.status = status, !.plan = plan],
                    !.starts = IF Departing(handler[h].before, status)
                               THEN {e} ELSE {}])
    /\ UNCHANGED <<tables, now, edited, touched, disturbed>>

\* forceUpdateExpeditionState: a request that finds nothing to change ends at once.
ForceReads(h) ==
    /\ \E e \in Expeditions :
         /\ Exists(e)
         /\ LET status == ForcedStatus(expedition[e], now)
            IN  /\ Changes(expedition[e], status, now)
                /\ Starts(h, "force", [Rest EXCEPT !.pc = "find", !.e = e,
                       !.entity[e] = Updated(expedition[e], status, now),
                       !.starts = IF Departing(expedition[e].status, status)
                                  THEN {e} ELSE {}])
    /\ UNCHANGED <<tables, now, edited, touched>>

\* Its repository.update finds the row again and assigns the two columns.
ForceFinds(h) ==
    /\ At(h, "find") /\ handler[h].job = "force"
    /\ LET e == handler[h].e
       IN  Become(h, [handler[h] EXCEPT !.pc = "save",
               !.entity[e] = [expedition[e] EXCEPT !.status = handler[h].entity[e].status,
                                                   !.used = handler[h].entity[e].used]])
    /\ UNCHANGED <<tables, now, edited, touched, disturbed>>

\* Mutant of AutoUpdated: the delayed ones are left alone too.
NotDelayed == {"PLANNED", "IN_PROGRESS"}

\* findExpeditionsForAutoStateUpdate leaves out the ended ones and the lost.
AutoUpdated == {"PLANNED", "IN_PROGRESS", "DELAYED"}

\* runHourlyExpeditionStateUpdate loads the expeditions once; what it will save
\* of each follows from that and from the time of its start.
HourlyLoads(h) ==
    /\ LET todo == {e \in Expeditions :
                      /\ expedition[e].status \in AutoUpdated
                      /\ Changes(expedition[e], HourlyStatus(expedition[e], now), now)}
       IN  /\ todo # {}
           /\ Starts(h, "hourly", [Rest EXCEPT !.pc = "next", !.todo = todo,
                  !.entity = [e \in Expeditions |-> IF e \in todo
                     THEN Updated(expedition[e], HourlyStatus(expedition[e], now), now) ELSE NewRow],
                  !.starts = {e \in todo : Departing(expedition[e].status,
                                                  HourlyStatus(expedition[e], now))}])
    /\ UNCHANGED <<tables, now, edited, touched>>

HourlyNext(h) ==
    /\ At(h, "next")
    /\ \/ \E e \in handler[h].todo :
            Become(h, [handler[h] EXCEPT !.pc = "save", !.e = e, !.todo = handler[h].todo \ {e}])
       \/ handler[h].todo = {} /\ Become(h, Rest)
    /\ UNCHANGED <<tables, now, edited, touched, disturbed>>

\* chk_dias_extra_coherencia
Accepted(row) == row.used <= ExtraDays[row.plan]

\* The save writes every column that differs from the row, those another handler
\* has changed since included; a CHECK may refuse it, which ends the handler.
Saves(h) ==
    /\ At(h, "save")
    /\ LET e == handler[h].e
           row == handler[h].entity[e]
       IN  IF Accepted(row)
           THEN /\ expedition' = [expedition EXCEPT ![e] = row]
                /\ Become(h, IF e \notin handler[h].starts /\ handler[h].before = row.status THEN Rest
                      ELSE [handler[h] EXCEPT !.entity[e] = NewRow, !.before = "NEW",
                             !.pc = IF e \in handler[h].starts THEN "provision" ELSE "sync"])
           ELSE Become(h, Rest) /\ UNCHANGED expedition
    /\ UNCHANGED <<participant, person, provisions, loot, now, edited, touched, disturbed>>

-----------------------------------------------------------------------------
(* Provisioning, completion, participants.                                 *)

\* Mutant of NeedsProvisions: the movements made before are not counted.
HasParticipants(e) == participant[e] # {}

\* The camp has FOOD or WATER, a ration and a user to record it as: the rest of
\* what applyDepartureProvisioningIfNeeded asks for.
NeedsProvisions(e) == provisions[e] = 0 /\ participant[e] # {}

AfterProvision(h) ==
    IF handler[h].job = "create" THEN Rest ELSE [handler[h] EXCEPT !.pc = "sync"]

\* The transaction counts the movements and the participants ...
ProvisionReads(h) ==
    /\ At(h, "provision")
    /\ Become(h, IF NeedsProvisions(handler[h].e)
                 THEN [handler[h] EXCEPT !.pc = "provide"] ELSE AfterProvision(h))
    /\ UNCHANGED <<tables, now, edited, touched, disturbed>>

\* ... and debits the camp without a look at the stock.
Provides(h) ==
    /\ At(h, "provide")
    /\ provisions' = [provisions EXCEPT ![handler[h].e] = provisions[handler[h].e] + 1]
    /\ Become(h, AfterProvision(h))
    /\ UNCHANGED <<expedition, participant, person, loot, now, edited, touched, disturbed>>

MayComplete(e) == expedition[e].status \notin Ended

\* completeExploration, for an active participant who is not INACTIVE.
CompleteReads(h) ==
    /\ \E e \in Expeditions :
         /\ Exists(e) /\ \E p \in participant[e] : person[p] # "INACTIVE"
         /\ now >= Returns[expedition[e].plan]
         /\ MayComplete(e) /\ loot[e] < MaxLoot
         /\ Starts(h, "complete", [Rest EXCEPT !.pc = "loot", !.e = e, !.before = expedition[e].status])
    /\ UNCHANGED <<tables, now, edited, touched>>

\* completeExplorationWithLoot: one transaction, whatever the row says by now.
Loots(h) ==
    /\ At(h, "loot")
    /\ LET e == handler[h].e
           status == IF handler[h].before = "LOST" THEN "RETURNED_AFTER_LOST" ELSE "COMPLETED"
       IN  /\ expedition' = [expedition EXCEPT ![e].status = status, ![e].returned = TRUE]
           /\ loot' = [loot EXCEPT ![e] = loot[e] + 1]
    /\ Become(h, [handler[h] EXCEPT !.pc = "sync", !.before = "NEW"])
    /\ UNCHANGED <<participant, person, provisions, now, edited, touched, disturbed>>

\* Mutant of Unfinished: the expedition a person is lost with does not count.
UnfinishedButLost == {"PLANNED", "IN_PROGRESS", "DELAYED"}

Unfinished == {"PLANNED", "IN_PROGRESS", "DELAYED", "LOST"}

\* createParticipant: validateParticipantCamp and the look for a row of the same pair.
EnrollReads(h) ==
    /\ \E e \in Expeditions, p \in People :
         /\ expedition[e].status = "PLANNED" /\ person[p] # "INACTIVE"
         /\ p \notin participant[e]
         /\ \A f \in Expeditions : p \in participant[f] => expedition[f].status \notin Unfinished
         /\ Starts(h, "enroll", [Rest EXCEPT !.pc = "enroll", !.e = e, !.p = p])
    /\ UNCHANGED <<tables, now, edited, touched>>

\* The insert; uq_expedition_participant refuses a second row.
Enrolls(h) ==
    /\ At(h, "enroll")
    /\ IF handler[h].p \in participant[handler[h].e]
       THEN Become(h, Rest) /\ UNCHANGED participant
       ELSE /\ participant' = [participant EXCEPT ![handler[h].e] =
                                  participant[handler[h].e] \cup {handler[h].p}]
            /\ Become(h, [handler[h] EXCEPT !.pc = "sync"])
    /\ UNCHANGED <<expedition, person, provisions, loot, now, edited, touched, disturbed>>

\* Mutant of StatusFor: the return of a person is not noticed.
StatusForOngoing(p) ==
    LET with == {expedition[e].status : e \in {f \in Expeditions : p \in participant[f]}}
    IN  IF "LOST" \in with THEN "OUTSIDE_CAMP"
        ELSE IF with \cap Ongoing # {} THEN "ON_EXPEDITION" ELSE person[p]

\* What the expeditions a person takes part in say of their status.
StatusFor(p) ==
    LET with == {expedition[e].status : e \in {f \in Expeditions : p \in participant[f]}}
    IN  IF "LOST" \in with THEN "OUTSIDE_CAMP"
        ELSE IF with \cap Ongoing # {} THEN "ON_EXPEDITION" ELSE "ACTIVE"

\* Statuses the expeditions may overwrite.
Managed == {"ACTIVE", "ON_EXPEDITION", "OUTSIDE_CAMP"}

\* syncPersonStatusFromExpeditions, its copy in TemporalAutomationService and
\* syncPersonStatusWithExpeditions.
Syncs(h) ==
    /\ At(h, "sync")
    /\ LET who == IF handler[h].job = "enroll" THEN {handler[h].p} ELSE participant[handler[h].e]
       IN  /\ person' = [p \in People |-> IF p \in who /\ person[p] \in Managed
                                          THEN StatusFor(p) ELSE person[p]]
           /\ touched' = touched \ who
    /\ Become(h, After(h))
    /\ UNCHANGED <<expedition, participant, provisions, loot, now, edited, disturbed>>

\* updatePerson: an administrator gives a person any status, those the expeditions
\* set included, and nothing brings it in line with the expeditions of the person
\* before the next synchronisation.
PersonEdited ==
    /\ ~Used
    /\ \A h \in Handlers : At(h, "idle")    \* not in the middle of a handler, for size
    /\ \E p \in People, status \in GivenTo :
         /\ person[p] # status
         /\ person' = [person EXCEPT ![p] = status]
         /\ touched' = touched \cup {p}
    /\ UNCHANGED <<expedition, participant, provisions, loot, now, handler, edited, disturbed>>

\* An exception ends a handler, or the process stops and takes all with it.
Stops ==
    /\ ~Used
    /\ \E hs \in SUBSET {h \in Handlers : ~At(h, "idle")} :
         /\ hs # {}
         /\ handler' = [h \in Handlers |-> IF h \in hs THEN Rest ELSE handler[h]]
    /\ disturbed' = TRUE
    /\ UNCHANGED <<tables, now, edited, touched>>

Tick ==
    /\ now < MaxTime
    /\ now' = now + 1
    /\ UNCHANGED <<tables, handler, edited, touched, disturbed>>

Requests(h) ==
    Creates(h) \/ PutReads(h) \/ ForceReads(h) \/ CompleteReads(h) \/ EnrollReads(h)

Continues(h) ==
    \/ PutFinds(h) \/ ForceFinds(h) \/ HourlyNext(h) \/ Saves(h) \/ ProvisionReads(h)
    \/ Provides(h) \/ Loots(h) \/ Enrolls(h) \/ Syncs(h)

Next ==
    \/ \E h \in Handlers : Requests(h) \/ HourlyLoads(h) \/ Continues(h)
    \/ PersonEdited \/ Stops \/ Tick

\* The hourly job fires every hour, what has started goes on, time passes.
Fairness ==
    /\ \A h \in Handlers : WF_vars(Continues(h))
    /\ \A h \in Handlers : JobsOf[h] = {"hourly"} => WF_vars(HourlyLoads(h))
    /\ WF_vars(Tick)

Spec == Init /\ [][Next]_vars /\ Fairness

-----------------------------------------------------------------------------
(* Properties.                                                             *)

\* Every variable keeps its type, and no expedition uses more extra days than it
\* has, whichever handler saves what (chk_dias_extra_coherencia).
TypeOK ==
    /\ expedition \in [Expeditions -> RowType]
    /\ \A e \in Expeditions : expedition[e].used <= ExtraDays[expedition[e].plan]
    /\ participant \in [Expeditions -> SUBSET People]
    /\ person \in [People -> PersonStatuses]
    /\ provisions \in [Expeditions -> Nat] /\ loot \in [Expeditions -> Nat]
    /\ now \in Nat /\ handler \in [Handlers -> HandlerType]
    /\ edited \subseteq Expeditions /\ touched \subseteq People
    /\ disturbed \in BOOLEAN

\* Handlers have run one after the other, each to its end.
Undisturbed == ~disturbed

\* A camp pays for an expedition once, through any number of edits, forced updates
\* and hourly runs; when handlers overlap, at most once for each of them, for the
\* movements are counted without a lock (expedition.repository.ts:425-435).
ProvisionedOnce ==
    \A e \in Expeditions :
        /\ provisions[e] <= Cardinality(Handlers)
        /\ Undisturbed => provisions[e] <= 1

Resting == \A h \in Handlers : At(h, "idle")

\* Between handlers that did not overlap, an expedition that is under way with
\* people on it has been provisioned, by whichever of the four ways it got there.
UnderWayIsProvisioned ==
    Undisturbed /\ Resting =>
        \A e \in Expeditions :
            expedition[e].status = "IN_PROGRESS" /\ participant[e] # {} => provisions[e] > 0

\* An expedition brings its loot home once: neither the hourly run nor a forced
\* update opens one that has come back (an edit of its status may).
LootedOnce ==
    Undisturbed => \A e \in Expeditions : e \notin edited => loot[e] <= 1

\* Between handlers that did not overlap, the status of a person says what the
\* expeditions they take part in say, unless it is one those leave alone or an
\* administrator has given it since (person.service.ts:91 does not synchronise): the
\* next synchronisation of an expedition of theirs undoes that.
PeopleFollowExpeditions ==
    Undisturbed /\ Resting =>
        \A p \in People \ touched :
            LET lost == \E e \in Expeditions : p \in participant[e] /\ expedition[e].status = "LOST"
                out  == \E e \in Expeditions : p \in participant[e] /\ expedition[e].status \in Ongoing
            IN  person[p] \in Managed =>
                    /\ person[p] = "OUTSIDE_CAMP" <=> lost
                    /\ person[p] = "ON_EXPEDITION" <=> out /\ ~lost

\* Nobody is on two expeditions that are not over, as long as handlers do not
\* overlap and no edit opens one again (expeditionParticipant.service.ts:144-156).
OneExpeditionAtATime ==
    Undisturbed /\ edited = {} =>
        \A p \in People, e, f \in Expeditions :
            p \in participant[e] \cap participant[f] /\ e # f =>
                expedition[e].status \in Ended \/ expedition[f].status \in Ended

\* Every expedition ends, or is given up as lost, and stays so: stale saves of a
\* slow run delay that and do not prevent it.
EveryExpeditionEnds ==
    \A e \in Expeditions : <>[](expedition[e].status \in Ended \cup {"NEW", "LOST"})

=============================================================================
