----------------------------- MODULE Workforce -----------------------------
(***************************************************************************)
(* Who works at what in one camp.  People have an occupation and may be    *)
(* assigned temporarily to others, by hand, by a request to cover an       *)
(* occupation (OccupationCoverageService) or by the job that looks every   *)
(* 30 minutes for occupations without workers (OccupationCoverageScheduler);*)
(* meanwhile they fall sick, travel, change occupation, and assignments are *)
(* edited, revoked, begin and lapse.                                       *)
(***************************************************************************)
EXTENDS Integers, FiniteSets

CONSTANTS
    People, Occupations,
    Minimum,      \* minimumRequiredWorkers of each occupation
    Threshold,    \* criticalThresholdPercent of each occupation
    Start,        \* what the people may be at first
    Rows,         \* ids of table temporary_occupation_assignment, 1 .. n
    Requests,     \* handlers: HTTP requests
    Jobs,         \* and runs of the job that may be active at once
    MaxEvents,    \* bounds of the model: requests and other changes,
    MaxFaults     \* handlers that stop half-way

Handlers == Requests \cup Jobs

ASSUME WorkforceAssumption ==
    /\ IsFiniteSet(People) /\ IsFiniteSet(Handlers) /\ Handlers # {}
    /\ Requests \cap Jobs = {}
    /\ Start \subseteq [People -> [occ : Occupations, status : {"ACTIVE", "UNFIT"}]]
    /\ Rows \subseteq Nat /\ IsFiniteSet(Rows) /\ {MaxEvents, MaxFaults} \subseteq Nat
    /\ Minimum \in [Occupations -> Nat] /\ Threshold \in [Occupations -> Nat]

None == "none"

ASSUME NoneAssumption == None \notin Occupations \cup People

VARIABLES
    person,       \* the people of the camp
    assignment,   \* the rows of table temporary_occupation_assignment
    camp,         \* whether it is ACTIVE, and has an ACTIVE SYSTEM_ADMIN
    handler,
    left,         \* workers each occupation has lost, but for new assignments
    events, faults

tables == <<person, assignment, camp>>
vars   == <<person, assignment, camp, handler, left, events, faults>>

\* UNFIT is SICK, INJURED, OUTSIDE_CAMP or ON_EXPEDITION; ELSEWHERE is another camp, or
\* no row at all.
PersonType == [occ : Occupations \cup {None},
               status : {"ACTIVE", "INACTIVE", "UNFIT", "ELSEWHERE"}]

\* when: how the dates of the row compare with the clock; GONE is a deleted row.
\* auto: made to cover an occupation, and not edited since.
RowType == [p : People \cup {None}, to : Occupations \cup {None}, auto : BOOLEAN,
            when : {"NONE", "LATER", "NOW", "OVER", "GONE"}]
CampType == [active : BOOLEAN, admin : BOOLEAN]

NoRow   == [p |-> None, to |-> None, auto |-> FALSE, when |-> "NONE"]

\* What a handler is to assign, to whom and when; the occupation it has read of the
\* person; what is left to cover, and the occupations that can spare somebody, as read;
\* the person or the row r it is to save.
HandlerType ==
    [pc : {"idle", "visit", "pick", "read", "check", "admin", "insert", "save", "rewrite"},
     row : RowType, occ : Occupations \cup {None}, rest : SUBSET Occupations,
     sources : SUBSET Occupations, who : PersonType, r : {0} \cup Rows]

Nobody == [occ |-> None, status |-> "ELSEWHERE"]
Rest   == [pc |-> "idle", row |-> NoRow, occ |-> None, rest |-> {}, sources |-> {},
           who |-> Nobody, r |-> 0]

-----------------------------------------------------------------------------
(* getOccupationCoverageByCamp.                                            *)

Current(p)   == {r \in Rows : assignment[r].p = p /\ assignment[r].when = "NOW"}
Permanent(o) == {p \in People : person[p] = [occ |-> o, status |-> "ACTIVE"] /\ Current(p) = {}}
Temporary(o) == {p \in People : person[p].status = "ACTIVE"
                                /\ \E r \in Current(p) : assignment[r].to = o}

\* availableWorkers: somebody with several assignments is counted for each.
Available(o) == Cardinality(Permanent(o) \cup Temporary(o))

\* The occupations that have a row.
Listed(o) == \E p \in People :
    /\ person[p].status # "ELSEWHERE"
    /\ person[p].occ = o \/ \E r \in Current(p) : assignment[r].to = o

AtRisk(o) ==
    /\ Listed(o) /\ Available(o) < Minimum[o]
    /\ 100 * Available(o) < Threshold[o] * Minimum[o]

\* Mutant of Sources: one worker over the minimum is not enough.
SourcesAmple(o) == {s \in Occupations \ {o} : Listed(s) /\ Available(s) - 1 > Minimum[s]}

\* The occupations that can spare a worker.
Sources(o) == {s \in Occupations \ {o} : Listed(s) /\ Available(s) > Minimum[s]}

\* Mutant of Candidates: whoever is assigned elsewhere is not left out.
CandidatesOrAssigned(sources) ==
    {p \in People : person[p].status = "ACTIVE" /\ person[p].occ \in sources}

\* getAvailablePersonsForReplacement, of any of the sources.
Candidates(sources) == UNION {Permanent(s) : s \in sources}

-----------------------------------------------------------------------------
Init ==
    /\ person \in Start
    /\ assignment = [r \in Rows |-> NoRow]
    /\ camp \in [active : {TRUE}, admin : BOOLEAN]
    /\ handler = [h \in Handlers |-> Rest]
    /\ left = [o \in Occupations |-> IF Available(o) < Minimum[o] THEN Minimum[o] - Available(o)
                                     ELSE 0]
    /\ events = 0 /\ faults = 0

At(h, pc)       == handler[h].pc = pc
Become(h, next) == handler' = [handler EXCEPT ![h] = next]

Happens == events < MaxEvents /\ events' = events + 1 /\ UNCHANGED faults

Starts(h, next)    == At(h, "idle") /\ h \in Requests /\ Happens /\ Become(h, next)
Continues(h, next) == Become(h, next) /\ UNCHANGED <<events, faults>>

-----------------------------------------------------------------------------
(* Temporary assignments.                                                  *)

\* createAssignment reads the person, who must be fit;
Chosen(me) ==
    LET who == person[me.row.p]
    IN  IF who.status \in {"ACTIVE", "INACTIVE"}
        THEN [me EXCEPT !.pc = IF who.occ = None THEN "insert" ELSE "check", !.occ = who.occ]
        ELSE Rest

Assigns(h, p, o, when) ==
    /\ person[p].status \in {"ACTIVE", "INACTIVE"}
    /\ Starts(h, Chosen([Rest EXCEPT !.row = [p |-> p, to |-> o, auto |-> FALSE, when |-> when]]))
    /\ UNCHANGED tables

\* Mutant of Spares: somebody is left, and no more is asked.
SparesAny(o) == Available(o) >= 1

\* the occupation of the person must keep its minimum,
Spares(o) == Available(o) - 1 >= Minimum[o]

Checks(h) ==
    /\ At(h, "check")
    /\ LET me == handler[h]
       IN  Continues(h, IF Listed(me.occ) => Spares(me.occ) THEN [me EXCEPT !.pc = "insert"]
                        ELSE Rest)
    /\ UNCHANGED tables

\* and the row is inserted.  The job goes on to the next occupation.
After(h) == IF h \in Jobs /\ handler[h].rest # {}
            THEN [Rest EXCEPT !.pc = "visit", !.rest = handler[h].rest] ELSE Rest

Inserts(h) ==
    /\ At(h, "insert")
    /\ \E r \in Rows :
          /\ assignment[r] = NoRow /\ \A i \in Rows : i < r => assignment[i] # NoRow
          /\ assignment' = [assignment EXCEPT ![r] = handler[h].row]
    /\ Continues(h, After(h))
    /\ UNCHANGED <<person, camp, left>>

\* updateAssignment: the row is found, and saved with what the request changes, its person,
\* its occupation or its dates; what others have made of it meanwhile is overwritten.
Edits(row) == {[row EXCEPT !.p = p, !.auto = FALSE] : p \in People}
              \cup {[row EXCEPT !.to = o, !.auto = FALSE] : o \in Occupations}
              \cup {[row EXCEPT !.when = w, !.auto = FALSE] : w \in {"LATER", "NOW", "OVER"}}

EditFinds(h, r, row) ==
    /\ assignment[r].when \notin {"NONE", "GONE"}
    /\ Starts(h, [Rest EXCEPT !.pc = "rewrite", !.r = r, !.row = row])
    /\ UNCHANGED tables

EditSaves(h) ==
    /\ At(h, "rewrite")
    /\ assignment' = [assignment EXCEPT ![handler[h].r] = handler[h].row]
    /\ Continues(h, Rest)
    /\ UNCHANGED <<person, camp>>

\* deleteAssignment.
Revokes(r) ==
    /\ assignment[r].when \notin {"NONE", "GONE"} /\ Happens
    /\ assignment' = [assignment EXCEPT ![r].when = "GONE"]
    /\ UNCHANGED <<person, camp, handler>>

\* Time passes the first day of a row, or the last; automatic ones have none.
Begins(r) ==
    /\ assignment[r].when = "LATER"
    /\ assignment' = [assignment EXCEPT ![r].when = "NOW"]
    /\ UNCHANGED <<person, camp, handler, events, faults>>

Lapses(r) ==
    /\ assignment[r].when = "NOW" /\ ~assignment[r].auto
    /\ assignment' = [assignment EXCEPT ![r].when = "OVER"]
    /\ UNCHANGED <<person, camp, handler, events, faults>>

-----------------------------------------------------------------------------
(* Automatic cover.                                                        *)

Cover(o) == [NoRow EXCEPT !.to = o, !.auto = TRUE, !.when = "NOW"]

\* autoAssignReplacement reads the coverage,
AutoAssigns(h, o) ==
    /\ Starts(h, [Rest EXCEPT !.pc = "pick", !.row = Cover(o), !.sources = Sources(o)])
    /\ AtRisk(o) /\ Sources(o) # {}
    /\ UNCHANGED tables

\* takes somebody from an occupation that could spare one, and leaves the rest to
\* createAssignment; the job goes on by itself,
Picks(h) ==
    /\ At(h, "pick")
    /\ LET me == handler[h]
       IN  \/ Candidates(me.sources) = {} /\ Continues(h, After(h))
           \/ \E p \in Candidates(me.sources) :
                 Continues(h, [me EXCEPT !.pc = IF h \in Jobs THEN "admin" ELSE "read",
                                         !.row.p = p, !.sources = {}])
    /\ UNCHANGED tables

\* and inserts the row in the name of an administrator of the camp, if there is one.
SeeksAdmin(h) ==
    /\ At(h, "admin")
    /\ Continues(h, IF camp.admin THEN [handler[h] EXCEPT !.pc = "insert"] ELSE After(h))
    /\ UNCHANGED tables

\* Of somebody in another camp, the occupation there may spare them.
ReadsPerson(h) ==
    /\ At(h, "read")
    /\ LET me == handler[h]
       IN  \/ Continues(h, Chosen(me))
           \/ person[me.row.p].status = "ELSEWHERE" /\ Continues(h, [me EXCEPT !.pc = "insert"])
    /\ UNCHANGED tables

\* checkCriticalOccupations: the occupations without workers of an ACTIVE camp are read,
JobStarts(h) ==
    /\ h \in Jobs /\ At(h, "idle") /\ camp.active
    /\ LET empty == {o \in Occupations : Listed(o) /\ Available(o) = 0}
       IN  empty # {} /\ Continues(h, [Rest EXCEPT !.pc = "visit", !.rest = empty])
    /\ UNCHANGED tables

\* and, of each in turn, the coverage.
Visits(h, o) ==
    /\ At(h, "visit") /\ o \in handler[h].rest
    /\ LET rest == handler[h].rest \ {o}
       IN  Continues(h,
             IF AtRisk(o) /\ Sources(o) # {}
             THEN [Rest EXCEPT !.pc = "pick", !.rest = rest, !.row = Cover(o),
                               !.sources = Sources(o)]
             ELSE IF rest = {} THEN Rest ELSE [Rest EXCEPT !.pc = "visit", !.rest = rest])
    /\ UNCHANGED tables

-----------------------------------------------------------------------------
(* People.                                                                 *)

\* updatePerson: PersonRepository.update finds the row and saves all of it, camp included.
\* A change of status then ends in an error: its entry of the history, by user 0, is
\* refused by a foreign key.
Updates(who) == {[who EXCEPT !.occ = o] : o \in Occupations \cup {None}}
                \cup {[who EXCEPT !.status = s] : s \in {"ACTIVE", "INACTIVE", "UNFIT"}}

UpdateFinds(h, p, who) ==
    /\ person[p].status # "ELSEWHERE"
    /\ Starts(h, [Rest EXCEPT !.pc = "save", !.row.p = p, !.who = who])
    /\ UNCHANGED tables

UpdateSaves(h) ==
    /\ At(h, "save")
    /\ person' = [person EXCEPT ![handler[h].row.p] = handler[h].who]
    /\ Continues(h, Rest)
    /\ UNCHANGED <<assignment, camp>>

\* Expeditions and transfers write the status and the camp; people are admitted and
\* deleted.
Moves(p, status) ==
    /\ person[p].status # status /\ Happens
    /\ person' = [person EXCEPT ![p].status = status]
    /\ UNCHANGED <<assignment, camp, handler>>

\* The camp is made ACTIVE or not; its administrators come, go, and change role.
Governs(now) ==
    /\ camp # now /\ camp' = now /\ Happens
    /\ UNCHANGED <<person, assignment, handler>>

\* A statement of a handler fails, or the process stops.
Stops(h) ==
    /\ ~At(h, "idle") /\ faults < MaxFaults
    /\ faults' = faults + 1 /\ Become(h, Rest)
    /\ UNCHANGED <<person, assignment, camp, events>>

-----------------------------------------------------------------------------
Works(h) ==
    \/ Checks(h) \/ EditSaves(h) \/ Picks(h) \/ SeeksAdmin(h) \/ ReadsPerson(h) \/ UpdateSaves(h)
    \/ JobStarts(h)
    \/ \E o \in Occupations : Visits(h, o)

Changes ==
    \/ \E h \in Handlers :
          \/ Works(h) \/ Stops(h)
          \/ \E o \in Occupations : AutoAssigns(h, o)
          \/ \E p \in People, o \in Occupations, when \in {"LATER", "NOW"} : Assigns(h, p, o, when)
          \/ \E r \in Rows : \E row \in Edits(assignment[r]) : EditFinds(h, r, row)
          \/ \E p \in People : \E who \in Updates(person[p]) : UpdateFinds(h, p, who)
    \/ \E r \in Rows : Revokes(r) \/ Begins(r) \/ Lapses(r)
    \/ \E p \in People, status \in {"ACTIVE", "UNFIT", "ELSEWHERE"} : Moves(p, status)
    \/ \E now \in CampType : Governs(now)

\* Whoever was a worker of the occupation, and is not any more, has left it.
Leave ==
    left' = [o \in Occupations |-> left[o] + Cardinality(Permanent(o) \ Permanent(o)')
                                           + Cardinality(Temporary(o) \ Temporary(o)')]

Next == (\E h \in Handlers : Inserts(h)) \/ (Changes /\ Leave)

\* The job is started again and again, and works on.
Fairness == \A h \in Jobs : WF_vars(Inserts(h) \/ (Works(h) /\ Leave))

Spec == Init /\ [][Next]_vars /\ Fairness

-----------------------------------------------------------------------------
(* Properties.                                                             *)

\* Every variable keeps its type.
TypeOK ==
    /\ person \in [People -> PersonType] /\ assignment \in [Rows -> RowType]
    /\ camp \in CampType /\ handler \in [Handlers -> HandlerType]
    /\ left \in [Occupations -> Nat] /\ events \in Nat /\ faults \in Nat

\* Assignments, by hand or automatic, bring an occupation below its minimum by no more
\* than one worker for each other handler that may have read the coverage meanwhile,
\* whatever else happens to the workers
\* (temporaryOccupationAssignment.service.ts:120-134, occupationCoverage.service.ts:102).
MinimumKept ==
    \A o \in Occupations :
        Available(o) + left[o] >= Minimum[o] - (Cardinality(Handlers) - 1)

\* Somebody is sent to cover at most one occupation at once, but for handlers that chose
\* them meanwhile (occupationCoverage.repository.ts:114-119).
CoversOnce ==
    \A p \in People :
        Cardinality({r \in Current(p) : assignment[r].auto}) <= Cardinality(Handlers)

\* An occupation without workers that others can spare workers for does not stay so while
\* the camp is ACTIVE and has an ACTIVE SYSTEM_ADMIN
\* (occupationCoverage.scheduler.ts:23-91).
Uncovered(o) ==
    /\ Listed(o) /\ Available(o) = 0 /\ Minimum[o] * Threshold[o] > 0
    /\ \E s \in Occupations \ {o} : Available(s) > Minimum[s] /\ Permanent(s) # {}

Attended == camp = [active |-> TRUE, admin |-> TRUE]

CoverArrives ==
    \A o \in Occupations : (Uncovered(o) /\ Attended) ~> ~(Uncovered(o) /\ Attended)

=============================================================================
