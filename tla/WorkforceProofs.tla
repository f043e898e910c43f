-------------------------- MODULE WorkforceProofs --------------------------
(***************************************************************************)
(* Proofs about Workforce, for any people, occupations and handlers: the   *)
(* types, that assignments leave an occupation its minimum but for the     *)
(* handlers that overlap, and that nobody is sent to cover more            *)
(* occupations than there are handlers.                                    *)
(*                                                                         *)
(* Both bounds count what handlers are about to do as done: a worker whose *)
(* assignment only has to be inserted is taken, and an occupation from     *)
(* which a handler is to pick somebody has lost one.                       *)
(***************************************************************************)
EXTENDS Workforce, FiniteSetTheorems, TLAPS

\* What holds of a handler beyond its type: it has somebody to treat, and only what covers
\* an occupation, at once, is marked so.
Sound(me) ==
    /\ me \in HandlerType
    /\ me.pc \in {"read", "check", "admin", "insert", "save"} => me.row.p \in People
    /\ me.pc \in {"save", "rewrite"} => ~me.row.auto
    /\ me.row.auto => me.row.when = "NOW"

Typed ==
    /\ TypeOK
    /\ \A h \in Handlers : Sound(handler[h])
    /\ \A r \in Rows : assignment[r].auto => assignment[r].when \in {"NOW", "GONE"}

\* What may bring about a step but for what it does to left.
Action(h) ==
    \/ Works(h) \/ Stops(h)
    \/ \E o \in Occupations : AutoAssigns(h, o)
    \/ \E p \in People, o \in Occupations, when \in {"LATER", "NOW"} : Assigns(h, p, o, when)
    \/ \E r \in Rows : \E row \in Edits(assignment[r]) : EditFinds(h, r, row)
    \/ \E p \in People : \E who \in Updates(person[p]) : UpdateFinds(h, p, who)

Passing ==
    \/ \E r \in Rows : Revokes(r) \/ Begins(r) \/ Lapses(r)
    \/ \E p \in People, status \in {"ACTIVE", "UNFIT", "ELSEWHERE"} : Moves(p, status)
    \/ \E now \in CampType : Governs(now)

LEMMA NextCases ==
    ASSUME Next
    PROVE  \/ \E h \in Handlers : Inserts(h)
           \/ Leave /\ \E h \in Handlers : Action(h)
           \/ Leave /\ Passing
BY Zenon DEF Next, Changes, Action, Passing

-----------------------------------------------------------------------------
(* Types.                                                                  *)

LEMMA RestSound == Sound(Rest)
<1>1. NoRow \in RowType /\ Nobody \in PersonType
  BY DEF NoRow, RowType, Nobody, PersonType
<1>2. Rest \in HandlerType
  BY <1>1 DEF Rest, HandlerType
<1>3. QED
  BY <1>2 DEF Sound, Rest, NoRow

LEMMA CoverTyped ==
    ASSUME NEW o \in Occupations
    PROVE  /\ Cover(o) \in RowType /\ Cover(o).auto /\ Cover(o).when = "NOW"
           /\ Sources(o) \in SUBSET Occupations
BY DEF Cover, NoRow, RowType, Sources

\* What a handler becomes after reading whom it is to assign.
LEMMA ChosenSound ==
    ASSUME Typed, NEW me, Sound(me), me.row.p \in People
    PROVE  Sound(Chosen(me))
<1> DEFINE who == person[me.row.p]
           pc  == IF who.occ = None THEN "insert" ELSE "check"
<1>1. who \in PersonType
  BY DEF Typed, TypeOK
<1>2. who.occ \in Occupations \cup {None}
  BY <1>1 DEF PersonType
<1>3. pc \in {"insert", "check"}
  OBVIOUS
<1>4. [me EXCEPT !.pc = pc, !.occ = who.occ] \in HandlerType
  BY <1>2, <1>3 DEF Sound, HandlerType
<1>5. Sound([me EXCEPT !.pc = pc, !.occ = who.occ])
  <2> DEFINE next == [me EXCEPT !.pc = pc, !.occ = who.occ]
  <2>1. next.pc = pc /\ next.row = me.row
    BY DEF Sound, HandlerType
  <2> QED
    BY <1>3, <1>4, <2>1 DEF Sound
<1>6. QED
  BY <1>5, RestSound, Zenon DEF Chosen

LEMMA AfterSound ==
    ASSUME Typed, NEW h \in Handlers
    PROVE  Sound(After(h))
<1>1. handler[h].rest \in SUBSET Occupations
  BY DEF Typed, TypeOK, HandlerType
<1>2. Sound([Rest EXCEPT !.pc = "visit", !.rest = handler[h].rest])
  BY <1>1, RestSound DEF Sound, HandlerType, Rest, NoRow
<1>3. QED
  BY <1>2, RestSound, Zenon DEF After

\* The rows a request edits, and the people it updates.
LEMMA EditsTyped ==
    ASSUME Typed, NEW r \in Rows, NEW row \in Edits(assignment[r])
    PROVE  row \in RowType /\ ~row.auto
<1>1. assignment[r] \in RowType
  BY DEF Typed, TypeOK
<1>2. QED
  BY <1>1 DEF Edits, RowType

LEMMA UpdatesTyped ==
    ASSUME Typed, NEW p \in People, NEW who \in Updates(person[p])
    PROVE  who \in PersonType
<1>1. person[p] \in PersonType
  BY DEF Typed, TypeOK
<1>2. QED
  BY <1>1 DEF Updates, PersonType

\* Every step of a handler takes it to a sound state.
LEMMA ActionSound ==
    ASSUME Typed, NEW h \in Handlers, Action(h)
    PROVE  \E next : Sound(next) /\ handler' = [handler EXCEPT ![h] = next]
<1> DEFINE Goal == \E next : Sound(next) /\ handler' = [handler EXCEPT ![h] = next]
           me == handler[h]
<1>0. Sound(me)
  BY DEF Typed
<1>r. ASSUME handler' = [handler EXCEPT ![h] = Rest] PROVE Goal
  BY <1>r, RestSound, Zenon
<1>1. ASSUME Checks(h) PROVE Goal
  <2>1. me.row.p \in People /\ me \in HandlerType
    BY <1>0, <1>1 DEF Sound, Checks, At
  <2>2. Sound([me EXCEPT !.pc = "insert"])
    <3> DEFINE next == [me EXCEPT !.pc = "insert"]
    <3>1. next \in HandlerType /\ next.pc = "insert" /\ next.row = me.row
      BY <2>1 DEF HandlerType
    <3> QED
      BY <2>1, <3>1, <1>0 DEF Sound
  <2>3. handler' = [handler EXCEPT ![h] = IF Listed(me.occ) => Spares(me.occ)
                                          THEN [me EXCEPT !.pc = "insert"] ELSE Rest]
    BY <1>1 DEF Checks, Continues, Become
  <2>4. CASE Listed(me.occ) => Spares(me.occ)
    <3>1. handler' = [handler EXCEPT ![h] = [me EXCEPT !.pc = "insert"]]
      BY <2>3, <2>4, Zenon
    <3> QED
      BY <3>1, <2>2, Zenon
  <2>5. CASE ~(Listed(me.occ) => Spares(me.occ))
    <3>1. handler' = [handler EXCEPT ![h] = Rest]
      BY <2>3, <2>5, Zenon
    <3> QED
      BY <3>1, <1>r, Zenon
  <2>6. QED
    BY <2>4, <2>5, Zenon
<1>2. ASSUME EditSaves(h) \/ UpdateSaves(h) \/ Stops(h) PROVE Goal
  BY <1>2, <1>r DEF EditSaves, UpdateSaves, Stops, Continues, Become
<1>3. ASSUME Picks(h) PROVE Goal
  <2>1. CASE Continues(h, After(h))
    BY <2>1, AfterSound, Zenon DEF Continues, Become
  <2>2. CASE \E p \in Candidates(me.sources) :
                Continues(h, [me EXCEPT !.pc = IF h \in Jobs THEN "admin" ELSE "read",
                                        !.row.p = p, !.sources = {}])
    <3>1. PICK p \in Candidates(me.sources) :
                Continues(h, [me EXCEPT !.pc = IF h \in Jobs THEN "admin" ELSE "read",
                                        !.row.p = p, !.sources = {}])
      BY <2>2
    <3> DEFINE pc == IF h \in Jobs THEN "admin" ELSE "read"
               next == [me EXCEPT !.pc = pc, !.row.p = p, !.sources = {}]
    <3>2. p \in People /\ pc \in {"admin", "read"}
      BY DEF Candidates, Permanent
    <3>3. me \in HandlerType /\ me.row \in RowType
      BY <1>0 DEF Sound, HandlerType
    <3>4. [me.row EXCEPT !.p = p] \in RowType
      BY <3>2, <3>3 DEF RowType
    <3>5. next \in HandlerType /\ next.pc = pc /\ next.row = [me.row EXCEPT !.p = p]
      BY <3>2, <3>3, <3>4 DEF HandlerType
    <3>6. next.row.p = p /\ next.row.auto = me.row.auto /\ next.row.when = me.row.when
      BY <3>3, <3>5 DEF RowType
    <3>7. Sound(next)
      BY <3>2, <3>5, <3>6, <1>0 DEF Sound
    <3> QED
      BY <3>1, <3>7, Zenon DEF Continues, Become
  <2>3. QED
    BY <1>3, <2>1, <2>2, Zenon DEF Picks
<1>3a. ASSUME SeeksAdmin(h) PROVE Goal
  <2>1. me.row.p \in People /\ me \in HandlerType
    BY <1>0, <1>3a DEF Sound, SeeksAdmin, At
  <2>2. Sound([me EXCEPT !.pc = "insert"])
    <3> DEFINE next == [me EXCEPT !.pc = "insert"]
    <3>1. next \in HandlerType /\ next.pc = "insert" /\ next.row = me.row
      BY <2>1 DEF HandlerType
    <3> QED
      BY <2>1, <3>1, <1>0 DEF Sound
  <2>3. \/ handler' = [handler EXCEPT ![h] = [me EXCEPT !.pc = "insert"]]
        \/ handler' = [handler EXCEPT ![h] = After(h)]
    BY <1>3a, Zenon DEF SeeksAdmin, Continues, Become
  <2>4. QED
    BY <2>2, <2>3, AfterSound, Zenon
<1>4. ASSUME ReadsPerson(h) PROVE Goal
  <2>1. me.row.p \in People /\ me \in HandlerType
    BY <1>0, <1>4 DEF Sound, ReadsPerson, At
  <2>2. Sound(Chosen(me))
    BY <2>1, <1>0, ChosenSound
  <2>3. Sound([me EXCEPT !.pc = "insert"])
    <3> DEFINE next == [me EXCEPT !.pc = "insert"]
    <3>1. next \in HandlerType /\ next.pc = "insert" /\ next.row = me.row
      BY <2>1 DEF HandlerType
    <3> QED
      BY <2>1, <3>1, <1>0 DEF Sound
  <2>4. QED
    BY <1>4, <2>2, <2>3, Zenon DEF ReadsPerson, Continues, Become
<1>5. ASSUME JobStarts(h) PROVE Goal
  <2> DEFINE empty == {o \in Occupations : Listed(o) /\ Available(o) = 0}
  <2>1. Sound([Rest EXCEPT !.pc = "visit", !.rest = empty])
    BY RestSound DEF Sound, HandlerType, Rest, NoRow
  <2>2. QED
    BY <1>5, <2>1, Zenon DEF JobStarts, Continues, Become
<1>6. ASSUME NEW o \in Occupations, Visits(h, o) PROVE Goal
  <2> DEFINE rest == me.rest \ {o}
             picks == [Rest EXCEPT !.pc = "pick", !.rest = rest, !.row = Cover(o),
                                   !.sources = Sources(o)]
             visits == [Rest EXCEPT !.pc = "visit", !.rest = rest]
  <2>1. rest \in SUBSET Occupations
    BY <1>0 DEF Sound, HandlerType
  <2>2. Sound(picks)
    <3>1. picks \in HandlerType /\ picks.pc = "pick" /\ picks.row = Cover(o)
      BY <2>1, RestSound, CoverTyped DEF Sound, HandlerType, Rest
    <3> QED
      BY <3>1, CoverTyped DEF Sound
  <2>3. Sound(visits)
    BY <2>1, RestSound DEF Sound, HandlerType, Rest, NoRow
  <2>4. handler' = [handler EXCEPT ![h] = IF AtRisk(o) /\ Sources(o) # {} THEN picks
                                          ELSE IF rest = {} THEN Rest ELSE visits]
    BY <1>6, Zenon DEF Visits, Continues, Become
  <2>5. QED
    BY <2>2, <2>3, <2>4, RestSound, Zenon
<1>7. ASSUME NEW o \in Occupations, AutoAssigns(h, o) PROVE Goal
  <2> DEFINE picks == [Rest EXCEPT !.pc = "pick", !.row = Cover(o), !.sources = Sources(o)]
  <2>1. picks \in HandlerType /\ picks.pc = "pick" /\ picks.row = Cover(o)
    BY RestSound, CoverTyped DEF Sound, HandlerType, Rest
  <2>2. Sound(picks)
    BY <2>1, CoverTyped DEF Sound
  <2>3. QED
    BY <1>7, <2>2, Zenon DEF AutoAssigns, Starts, Become
<1>8. ASSUME NEW p \in People, NEW o \in Occupations, NEW when \in {"LATER", "NOW"},
             Assigns(h, p, o, when)
      PROVE  Goal
  <2> DEFINE row == [p |-> p, to |-> o, auto |-> FALSE, when |-> when]
             told == [Rest EXCEPT !.row = row]
  <2>1. row \in RowType
    BY DEF RowType
  <2>2. told \in HandlerType /\ told.row = row /\ told.pc = "idle"
    BY <2>1, RestSound DEF Sound, HandlerType, Rest
  <2>3. Sound(told)
    BY <2>2 DEF Sound
  <2>4. told.row.p \in People
    BY <2>2
  <2>5. handler' = [handler EXCEPT ![h] = Chosen(told)]
    BY <1>8 DEF Assigns, Starts, Become
  <2> HIDE DEF told
  <2>6. Sound(Chosen(told))
    BY <2>3, <2>4, ChosenSound
  <2>7. QED
    BY <2>5, <2>6, Zenon
<1>9. ASSUME NEW r \in Rows, NEW row \in Edits(assignment[r]), EditFinds(h, r, row) PROVE Goal
  <2> DEFINE next == [Rest EXCEPT !.pc = "rewrite", !.r = r, !.row = row]
  <2>1. row \in RowType /\ ~row.auto
    BY EditsTyped
  <2>2. next \in HandlerType /\ next.row = row /\ next.pc = "rewrite"
    BY <2>1, RestSound DEF Sound, HandlerType, Rest
  <2>3. Sound(next)
    BY <2>1, <2>2 DEF Sound
  <2>4. QED
    BY <1>9, <2>3, Zenon DEF EditFinds, Starts, Become
<1>10. ASSUME NEW p \in People, NEW who \in Updates(person[p]), UpdateFinds(h, p, who)
       PROVE  Goal
  <2> DEFINE row == [NoRow EXCEPT !.p = p]
             next == [Rest EXCEPT !.pc = "save", !.row.p = p, !.who = who]
  <2>1. who \in PersonType /\ row \in RowType /\ ~row.auto /\ row.p = p
    BY UpdatesTyped DEF NoRow, RowType
  <2>2. next \in HandlerType /\ next.row = row /\ next.pc = "save"
    BY <2>1, RestSound DEF Sound, HandlerType, Rest
  <2>3. Sound(next)
    BY <2>1, <2>2 DEF Sound
  <2>4. QED
    BY <1>10, <2>3, Zenon DEF UpdateFinds, Starts, Become
<1>11. QED
  BY <1>1, <1>2, <1>3, <1>3a, <1>4, <1>5, <1>6, <1>7, <1>8, <1>9, <1>10, Zenon DEF Action, Works

\* How a step of a handler changes the tables.
LEMMA ActionTables ==
    ASSUME Typed, NEW h \in Handlers, Action(h)
    PROVE  \/ UNCHANGED tables
           \/ UpdateSaves(h)
           \/ EditSaves(h)
<1>1. CASE Works(h)
  BY <1>1 DEF Works, Checks, Picks, SeeksAdmin, ReadsPerson, JobStarts, Visits
<1>2. CASE Stops(h)
  BY <1>2 DEF Stops, tables
<1>3. CASE ~Works(h) /\ ~Stops(h)
  BY <1>3 DEF Action, AutoAssigns, Assigns, EditFinds, UpdateFinds
<1>4. QED
  BY <1>1, <1>2, <1>3

LEMMA ActionEvents ==
    ASSUME Typed, NEW h \in Handlers, Action(h)
    PROVE  events' \in Nat /\ faults' \in Nat
<1>0. events \in Nat /\ faults \in Nat
  BY DEF Typed, TypeOK
<1>1. CASE Works(h)
  BY <1>0, <1>1 DEF Works, Checks, EditSaves, Picks, SeeksAdmin, ReadsPerson, UpdateSaves, JobStarts,
                    Visits, Continues
<1>2. CASE Stops(h)
  BY <1>0, <1>2 DEF Stops
<1>3. ASSUME NEW next, Starts(h, next) PROVE events' \in Nat /\ faults' \in Nat
  BY <1>0, <1>3 DEF Starts, Happens
<1>4. QED
  BY <1>1, <1>2, <1>3, Zenon DEF Action, AutoAssigns, Assigns, EditFinds, UpdateFinds

LEMMA PermanentFinite ==
    ASSUME NEW o
    PROVE  /\ IsFiniteSet(Permanent(o)) /\ IsFiniteSet(Temporary(o))
           /\ Permanent(o) \in SUBSET People /\ Temporary(o) \in SUBSET People
           /\ IsFiniteSet(Permanent(o)') /\ IsFiniteSet(Temporary(o)')
           /\ Permanent(o)' \in SUBSET People /\ Temporary(o)' \in SUBSET People
<1>1. /\ Permanent(o) \in SUBSET People /\ Temporary(o) \in SUBSET People
      /\ Permanent(o)' \in SUBSET People /\ Temporary(o)' \in SUBSET People
  BY DEF Permanent, Temporary
<1>2. QED
  BY <1>1, FS_Subset, WorkforceAssumption

LEMMA LeaveTyped ==
    ASSUME Typed, Leave
    PROVE  /\ left' \in [Occupations -> Nat]
           /\ \A o \in Occupations :
                 left'[o] = left[o] + Cardinality(Permanent(o) \ Permanent(o)')
                                    + Cardinality(Temporary(o) \ Temporary(o)')
<1>0. left \in [Occupations -> Nat]
  BY DEF Typed, TypeOK
<1>1. ASSUME NEW o \in Occupations
      PROVE  /\ Cardinality(Permanent(o) \ Permanent(o)') \in Nat
             /\ Cardinality(Temporary(o) \ Temporary(o)') \in Nat
  BY PermanentFinite, FS_Difference, FS_CardinalityType
<1>2. QED
  BY <1>0, <1>1 DEF Leave

LEMMA AvailableNat ==
    ASSUME NEW o
    PROVE  /\ IsFiniteSet(Permanent(o) \cup Temporary(o))
           /\ Available(o) \in Nat
<1>1. IsFiniteSet(Permanent(o) \cup Temporary(o))
  BY PermanentFinite, FS_Union
<1>2. QED
  BY <1>1, FS_CardinalityType DEF Available

LEMMA InitTyped == Init => Typed
<1> SUFFICES ASSUME Init PROVE Typed
  OBVIOUS
<1>1. person \in [People -> PersonType]
  BY WorkforceAssumption DEF Init, PersonType
<1>2. NoRow \in RowType /\ ~NoRow.auto
  BY DEF NoRow, RowType
<1>3. assignment \in [Rows -> RowType] /\ \A r \in Rows : ~assignment[r].auto
  BY <1>2 DEF Init
<1>4. handler \in [Handlers -> HandlerType] /\ \A h \in Handlers : Sound(handler[h])
  BY RestSound DEF Init, Sound
<1>5. left \in [Occupations -> Nat]
  <2>1. ASSUME NEW o \in Occupations
        PROVE  (IF Available(o) < Minimum[o] THEN Minimum[o] - Available(o) ELSE 0) \in Nat
    <3>1. Available(o) \in Nat
      BY AvailableNat, Zenon
    <3>2. Minimum[o] \in Nat
      BY WorkforceAssumption
    <3>3. QED
      BY <3>1, <3>2
  <2>2. left = [o \in Occupations |-> IF Available(o) < Minimum[o] THEN Minimum[o] - Available(o)
                                      ELSE 0]
    BY DEF Init
  <2>3. QED
    BY <2>1, <2>2, Zenon
<1>6. camp \in CampType
  BY DEF Init, CampType
<1>7. QED
  BY <1>1, <1>3, <1>4, <1>5, <1>6 DEF Typed, TypeOK, Init

\* What is saved is of its type, and rows are marked as covering only when they are in force
\* or deleted.
LEMMA TablesTyped ==
    ASSUME Typed, [Next]_vars
    PROVE  /\ person' \in [People -> PersonType] /\ assignment' \in [Rows -> RowType]
           /\ camp' \in CampType
           /\ \A r \in Rows : assignment'[r].auto => assignment'[r].when \in {"NOW", "GONE"}
<1> DEFINE Rowed == /\ assignment' \in [Rows -> RowType]
                    /\ \A r \in Rows : assignment'[r].auto
                                         => assignment'[r].when \in {"NOW", "GONE"}
           Goal == person' \in [People -> PersonType] /\ camp' \in CampType /\ Rowed
<1>0. /\ person \in [People -> PersonType] /\ assignment \in [Rows -> RowType]
      /\ camp \in CampType
      /\ \A r \in Rows : assignment[r].auto => assignment[r].when \in {"NOW", "GONE"}
  BY DEF Typed, TypeOK
<1>1. CASE UNCHANGED tables
  BY <1>0, <1>1 DEF tables
<1>2. ASSUME NEW r \in Rows, NEW row \in RowType,
             row.auto => row.when \in {"NOW", "GONE"},
             assignment' = [assignment EXCEPT ![r] = row]
      PROVE  Rowed
  BY <1>0, <1>2
<1>3. ASSUME NEW h \in Handlers, Inserts(h) PROVE Goal
  <2>1. Sound(handler[h]) /\ handler[h].row \in RowType
    BY DEF Typed, Sound, HandlerType
  <2>2. handler[h].row.auto => handler[h].row.when \in {"NOW", "GONE"}
    BY <2>1 DEF Sound
  <2>3. PICK r \in Rows : assignment' = [assignment EXCEPT ![r] = handler[h].row]
    BY <1>3, Zenon DEF Inserts
  <2>4. Rowed
    BY <1>2, <2>1, <2>2, <2>3
  <2>5. person' = person /\ camp' = camp
    BY <1>3 DEF Inserts
  <2>6. QED
    BY <1>0, <2>4, <2>5
<1>4. ASSUME NEW h \in Handlers, EditSaves(h) PROVE Goal
  <2>1. Sound(handler[h]) /\ handler[h].row \in RowType /\ handler[h].r \in {0} \cup Rows
    BY DEF Typed, Sound, HandlerType
  <2>2. ~handler[h].row.auto
    BY <1>4, <2>1 DEF Sound, EditSaves, At
  <2>3. /\ assignment' = [assignment EXCEPT ![handler[h].r] = handler[h].row]
        /\ person' = person /\ camp' = camp
    BY <1>4 DEF EditSaves
  <2>4. Rowed
    BY <1>0, <2>1, <2>2, <2>3
  <2>5. QED
    BY <1>0, <2>3, <2>4
<1>5. ASSUME NEW h \in Handlers, UpdateSaves(h) PROVE Goal
  <2>1. handler[h].who \in PersonType
    BY DEF Typed, Sound, HandlerType
  <2>2. /\ person' = [person EXCEPT ![handler[h].row.p] = handler[h].who]
        /\ assignment' = assignment /\ camp' = camp
    BY <1>5 DEF UpdateSaves
  <2>3. QED
    BY <1>0, <2>1, <2>2
<1>6. ASSUME NEW r \in Rows, Revokes(r) \/ Begins(r) \/ Lapses(r) PROVE Goal
  <2>1. PICK when \in {"GONE", "NOW", "OVER"} :
            /\ assignment' = [assignment EXCEPT ![r].when = when]
            /\ assignment[r].auto => when \in {"GONE", "NOW"}
    BY <1>6 DEF Revokes, Begins, Lapses
  <2> DEFINE row == [assignment[r] EXCEPT !.when = when]
  <2>2. row \in RowType /\ row.auto = assignment[r].auto /\ row.when = when
    BY <1>0 DEF RowType
  <2>3. assignment' = [assignment EXCEPT ![r] = row]
    BY <2>1
  <2>4. row.auto => row.when \in {"NOW", "GONE"}
    BY <2>1, <2>2
  <2> HIDE DEF row
  <2>5. Rowed
    BY <1>2, <2>2, <2>3, <2>4
  <2>6. person' = person /\ camp' = camp
    BY <1>6 DEF Revokes, Begins, Lapses
  <2>7. QED
    BY <1>0, <2>5, <2>6
<1>7. ASSUME NEW p \in People, NEW status \in {"ACTIVE", "UNFIT", "ELSEWHERE"}, Moves(p, status)
      PROVE  Goal
  <2>1. /\ person' = [person EXCEPT ![p].status = status]
        /\ assignment' = assignment /\ camp' = camp
    BY <1>7 DEF Moves
  <2>2. [person[p] EXCEPT !.status = status] \in PersonType
    BY <1>0 DEF PersonType
  <2>3. QED
    BY <1>0, <2>1, <2>2
<1>8. ASSUME NEW h \in Handlers, Action(h) PROVE Goal
  BY <1>1, <1>4, <1>5, <1>8, ActionTables, Zenon
<1>8a. ASSUME NEW now \in CampType, Governs(now) PROVE Goal
  BY <1>0, <1>8a DEF Governs
<1>9. CASE Passing
  BY <1>6, <1>7, <1>8a, <1>9, Zenon DEF Passing
<1>10. CASE Next
  BY <1>3, <1>8, <1>9, <1>10, NextCases, Zenon
<1>11. CASE UNCHANGED vars
  BY <1>1, <1>11 DEF vars, tables
<1>12. QED
  BY <1>10, <1>11

LEMMA NextTyped == Typed /\ [Next]_vars => Typed'
<1> SUFFICES ASSUME Typed, [Next]_vars PROVE Typed'
  OBVIOUS
<1> DEFINE Others == /\ left' \in [Occupations -> Nat] /\ events' \in Nat /\ faults' \in Nat
                     /\ handler' \in [Handlers -> HandlerType]
                     /\ \A h \in Handlers : Sound(handler'[h])
<1>0. /\ left \in [Occupations -> Nat] /\ events \in Nat /\ faults \in Nat
      /\ handler \in [Handlers -> HandlerType]
      /\ \A h \in Handlers : Sound(handler[h])
  BY DEF Typed, TypeOK
<1>1. ASSUME NEW h \in Handlers, NEW next, Sound(next), handler' = [handler EXCEPT ![h] = next]
      PROVE  /\ handler' \in [Handlers -> HandlerType]
             /\ \A i \in Handlers : Sound(handler'[i])
  <2>1. next \in HandlerType
    BY <1>1 DEF Sound
  <2>2. \A i \in Handlers : handler'[i] = IF i = h THEN next ELSE handler[i]
    BY <1>0, <1>1
  <2>3. QED
    BY <1>0, <1>1, <2>1, <2>2
<1>2. ASSUME NEW h \in Handlers, Inserts(h) PROVE Others
  <2>1. handler' = [handler EXCEPT ![h] = After(h)] /\ UNCHANGED <<left, events, faults>>
    BY <1>2 DEF Inserts, Continues, Become
  <2>2. QED
    BY <1>0, <1>1, <2>1, AfterSound
<1>3. ASSUME NEW h \in Handlers, Action(h), Leave PROVE Others
  <2>1. PICK next : Sound(next) /\ handler' = [handler EXCEPT ![h] = next]
    BY <1>3, ActionSound
  <2>2. QED
    BY <1>1, <1>3, <2>1, LeaveTyped, ActionEvents
<1>4. ASSUME Passing, Leave PROVE Others
  <2>1. /\ handler' = handler
        /\ events' \in Nat /\ faults' \in Nat
    BY <1>0, <1>4 DEF Passing, Revokes, Begins, Lapses, Moves, Governs, Happens
  <2>2. QED
    BY <1>0, <1>4, <2>1, LeaveTyped
<1>5. ASSUME UNCHANGED vars PROVE Others
  <2>1. left' = left /\ events' = events /\ faults' = faults /\ handler' = handler
    BY <1>5 DEF vars
  <2>2. QED
    BY <1>0, <2>1
<1> HIDE DEF Others
<1>6. Others
  <2>1. CASE Next
    BY <1>2, <1>3, <1>4, <2>1, NextCases, Zenon
  <2>2. QED
    BY <1>5, <2>1
<1>7. QED
  BY <1>6, TablesTyped DEF Typed, TypeOK, Others

\* Every variable keeps its type, for any people, occupations and handlers, and no handler
\* ever treats a person it does not have.
THEOREM TypeCorrect == Spec => []TypeOK
<1>1. Typed => TypeOK
  BY DEF Typed
<1>2. QED
  BY InitTyped, NextTyped, <1>1, PTL DEF Spec

-----------------------------------------------------------------------------
(* Assignments keep the minimum.                                           *)

\* Those whom handlers are to assign away without looking at their occupation again, ...
Taken ==
    {p \in People : \E h \in Handlers :
        /\ handler[h].row.p = p
        /\ \/ handler[h].pc \in {"admin", "insert"}
           \/ handler[h].pc = "check" /\ person[p].occ # handler[h].occ}

\* ... the workers of an occupation but for them, ...
Staying(o) == Temporary(o) \cup (Permanent(o) \ Taken)

\* ... and the handlers that are to pick one more.
Pickers(o) == {h \in Handlers : handler[h].pc = "pick" /\ o \in handler[h].sources}

\* Not inductive without them: two handlers may each have found a worker to spare.
Spared(o) ==
    Minimum[o] + 1 + Cardinality(Pickers(o))
        <= Cardinality(Staying(o)) + left[o] + Cardinality(Handlers)

AllSpared == \A o \in Occupations : Spared(o)

LEMMA Sizes ==
    ASSUME NEW o
    PROVE  /\ Staying(o) \in SUBSET People /\ Pickers(o) \in SUBSET Handlers
           /\ IsFiniteSet(Staying(o)) /\ IsFiniteSet(Pickers(o))
           /\ Cardinality(Staying(o)) \in Nat /\ Cardinality(Pickers(o)) \in Nat
           /\ Staying(o)' \in SUBSET People /\ Pickers(o)' \in SUBSET Handlers
           /\ IsFiniteSet(Staying(o)') /\ IsFiniteSet(Pickers(o)')
           /\ Cardinality(Staying(o)') \in Nat /\ Cardinality(Pickers(o)') \in Nat
           /\ Cardinality(Handlers) \in Nat
<1>1. /\ Staying(o) \in SUBSET People /\ Pickers(o) \in SUBSET Handlers
      /\ Staying(o)' \in SUBSET People /\ Pickers(o)' \in SUBSET Handlers
  BY DEF Staying, Pickers, Temporary, Permanent
<1>2. /\ IsFiniteSet(Staying(o)) /\ IsFiniteSet(Pickers(o))
      /\ IsFiniteSet(Staying(o)') /\ IsFiniteSet(Pickers(o)')
  BY <1>1, FS_Subset, WorkforceAssumption
<1>3. QED
  BY <1>1, <1>2, FS_CardinalityType, WorkforceAssumption

\* Each handler takes one worker at most.
LEMMA FewTaken ==
    ASSUME NEW o
    PROVE  Available(o)' + Cardinality(Pickers(o)') <= Cardinality(Staying(o)') + Cardinality(Handlers)
<1> DEFINE Takers == {h \in Handlers : handler'[h].pc \in {"admin", "insert", "check"}}
           f == [h \in Takers |-> handler'[h].row.p]
           S == {f[h] : h \in Takers}
<1>1. f \in Surjection(Takers, S)
  BY DEF Surjection
<1>2. IsFiniteSet(Takers) /\ Takers \in SUBSET Handlers
  BY FS_Subset, WorkforceAssumption
<1>3. IsFiniteSet(S) /\ Cardinality(S) <= Cardinality(Takers)
  <2> HIDE DEF f, S, Takers
  <2>1. QED
    BY <1>1, <1>2, FS_Surjection
<1>4. Permanent(o)' \cup Temporary(o)' \subseteq Staying(o)' \cup S
  BY DEF Staying, Taken
<1> HIDE DEF f, S
<1>5. /\ IsFiniteSet(Staying(o)' \cup S)
      /\ Cardinality(Staying(o)' \cup S) <= Cardinality(Staying(o)') + Cardinality(S)
  <2>1. /\ IsFiniteSet(Staying(o)' \cup S)
        /\ Cardinality(Staying(o)' \cup S) = Cardinality(Staying(o)') + Cardinality(S)
                                              - Cardinality(Staying(o)' \cap S)
    BY <1>3, Sizes, FS_Union
  <2>2. Cardinality(Staying(o)' \cap S) \in Nat
    BY Sizes, FS_Intersection, FS_CardinalityType
  <2>3. Cardinality(Staying(o)') \in Nat /\ Cardinality(S) \in Nat
    BY <1>3, Sizes, FS_CardinalityType
  <2>4. QED
    BY <2>1, <2>2, <2>3
<1>6. Available(o)' <= Cardinality(Staying(o)' \cup S)
  BY <1>4, <1>5, FS_Subset DEF Available
<1>7. Cardinality(Takers) + Cardinality(Pickers(o)') <= Cardinality(Handlers)
  <2>1. Takers \cap Pickers(o)' = {}
    BY DEF Pickers
  <2> HIDE DEF Takers
  <2>2. Cardinality(Takers \cup Pickers(o)') = Cardinality(Takers) + Cardinality(Pickers(o)')
    <3>1. Cardinality(Takers \cap Pickers(o)') = 0
      BY <2>1, FS_EmptySet
    <3>2. Cardinality(Takers) \in Nat /\ Cardinality(Pickers(o)') \in Nat
      BY <1>2, Sizes, FS_CardinalityType
    <3>3. Cardinality(Takers \cup Pickers(o)')
            = Cardinality(Takers) + Cardinality(Pickers(o)') - Cardinality(Takers \cap Pickers(o)')
      BY <1>2, Sizes, FS_Union
    <3>4. QED
      BY <3>1, <3>2, <3>3
  <2>3. Takers \cup Pickers(o)' \in SUBSET Handlers
    BY <1>2, Sizes
  <2>4. QED
    BY <2>2, <2>3, FS_Subset, WorkforceAssumption
<1>8. /\ Cardinality(Staying(o)' \cup S) \in Nat /\ Cardinality(S) \in Nat
      /\ Cardinality(Takers) \in Nat /\ Available(o)' \in Nat
  <2>1. Permanent(o)' \cup Temporary(o)' \in SUBSET (Staying(o)' \cup S)
    BY <1>4
  <2>2. IsFiniteSet(Permanent(o)' \cup Temporary(o)')
    BY <2>1, <1>5, FS_Subset
  <2>3. QED
    BY <2>2, <1>2, <1>3, <1>5, FS_CardinalityType DEF Available
<1> HIDE DEF Takers
<1>9. QED
  BY <1>3, <1>5, <1>6, <1>7, <1>8, Sizes

\* An occupation just found to have one worker over its minimum may lose one to each handler.
LEMMA Reread ==
    ASSUME Typed', NEW o \in Occupations, UNCHANGED tables, Available(o) > Minimum[o]
    PROVE  Spared(o)'
<1>1. Available(o)' = Available(o)
  BY DEF Available, Permanent, Temporary, Current, tables
<1>2. Available(o) \in Nat /\ Minimum[o] \in Nat
  BY AvailableNat, WorkforceAssumption
<1>3. left'[o] \in Nat
  BY DEF Typed, TypeOK
<1>4. QED
  BY <1>1, <1>2, <1>3, FewTaken, Sizes DEF Spared

\* Whoever leaves, but for being assigned, is counted.
LEMMA Disturbed ==
    ASSUME Typed, Leave, NEW o \in Occupations, Spared(o),
           \A p \in Permanent(o) \cap Permanent(o)' : p \in Taken' => p \in Taken,
           Pickers(o)' \subseteq Pickers(o)
    PROVE  Spared(o)'
<1> DEFINE A == Permanent(o) \ Permanent(o)'
           B == Temporary(o) \ Temporary(o)'
<1>1. Staying(o) \subseteq Staying(o)' \cup (A \cup B)
  BY DEF Staying
<1>2. IsFiniteSet(A) /\ IsFiniteSet(B) /\ Cardinality(A) \in Nat /\ Cardinality(B) \in Nat
  BY PermanentFinite, FS_Difference, FS_CardinalityType
<1>3. left'[o] = left[o] + Cardinality(A) + Cardinality(B) /\ left[o] \in Nat
  BY LeaveTyped DEF Typed, TypeOK
<1>4. Cardinality(Pickers(o)') <= Cardinality(Pickers(o))
  BY Sizes, FS_Subset
<1> HIDE DEF A, B
<1>5. IsFiniteSet(A \cup B) /\ Cardinality(A \cup B) <= Cardinality(A) + Cardinality(B)
  <2>1. Cardinality(A \cap B) \in Nat
    BY <1>2, FS_Intersection, FS_CardinalityType
  <2>2. /\ IsFiniteSet(A \cup B)
        /\ Cardinality(A \cup B) = Cardinality(A) + Cardinality(B) - Cardinality(A \cap B)
    BY <1>2, FS_Union
  <2>3. QED
    BY <1>2, <2>1, <2>2
<1>6. Cardinality(A \cup B) \in Nat
  BY <1>5, FS_CardinalityType
<1>7. Cardinality(Staying(o)) <= Cardinality(Staying(o)') + Cardinality(A \cup B)
  <2> DEFINE C == A \cup B
  <2>0. IsFiniteSet(C) /\ Cardinality(C) \in Nat
    BY <1>5, <1>6
  <2> HIDE DEF C
  <2>1. Cardinality(Staying(o)' \cap C) \in Nat
    BY Sizes, FS_Intersection, FS_CardinalityType
  <2>2. /\ IsFiniteSet(Staying(o)' \cup C)
        /\ Cardinality(Staying(o)' \cup C)
              = Cardinality(Staying(o)') + Cardinality(C) - Cardinality(Staying(o)' \cap C)
    BY <2>0, Sizes, FS_Union
  <2>3. Cardinality(Staying(o)) <= Cardinality(Staying(o)' \cup C)
    BY <1>1, <2>2, FS_Subset DEF C
  <2>4. Cardinality(Staying(o)' \cup C) \in Nat
    BY <2>2, FS_CardinalityType
  <2>5. Cardinality(Staying(o)) <= Cardinality(Staying(o)') + Cardinality(C)
    BY <2>0, <2>1, <2>2, <2>3, <2>4, Sizes
  <2>6. QED
    BY <2>5 DEF C
<1>8. Minimum[o] \in Nat
  BY WorkforceAssumption
<1>9. QED
  BY <1>2, <1>3, <1>4, <1>5, <1>6, <1>7, <1>8, Sizes DEF Spared

\* What a handler becomes is of no account to an occupation when it takes nobody from it who
\* was not taken, and is not to pick from it.
LEMMA Harmless ==
    ASSUME Typed, Leave, NEW o \in Occupations, Spared(o), NEW h \in Handlers, NEW next,
           handler' = [handler EXCEPT ![h] = next],
           next.pc = "pick" => o \notin next.sources,
           \/ next.pc \notin {"admin", "insert", "check"}
           \/ next.pc = "check" /\ next.occ = o
           \/ next.row.p \notin Permanent(o)
           \/ next.row.p \in Taken
    PROVE  Spared(o)'
<1>0. handler \in [Handlers -> HandlerType]
  BY DEF Typed, TypeOK
<1>1. \A i \in Handlers : handler'[i] = IF i = h THEN next ELSE handler[i]
  BY <1>0
<1>2. Pickers(o)' \subseteq Pickers(o)
  BY <1>1 DEF Pickers
<1>3. ASSUME NEW p \in Permanent(o) \cap Permanent(o)', p \in Taken' PROVE p \in Taken
  <2>1. person[p].occ = o /\ person'[p].occ = o
    <3>1. person[p] = [occ |-> o, status |-> "ACTIVE"] /\ person'[p] = [occ |-> o, status |-> "ACTIVE"]
      BY DEF Permanent
    <3>2. QED
      BY <3>1
  <2>2. PICK i \in Handlers :
            /\ handler'[i].row.p = p
            /\ \/ handler'[i].pc \in {"admin", "insert"}
               \/ handler'[i].pc = "check" /\ person'[p].occ # handler'[i].occ
    BY <1>3 DEF Taken
  <2>3. CASE i = h
    <3>1. handler'[i] = next
      BY <1>1, <2>3
    <3>2. next.row.p = p /\ p \in Permanent(o)
      BY <2>2, <3>1
    <3>3. ~(next.pc = "check" /\ next.occ = o) /\ next.pc \in {"admin", "insert", "check"}
      BY <2>1, <2>2, <3>1
    <3>4. QED
      BY <3>2, <3>3
  <2>4. CASE i # h
    <3>1. handler'[i] = handler[i]
      BY <1>1, <2>4
    <3>2. p \in People
      BY DEF Permanent
    <3>3. QED
      BY <2>1, <2>2, <3>1, <3>2 DEF Taken
  <2>5. QED
    BY <2>3, <2>4
<1>4. QED
  BY <1>2, <1>3, Disturbed

LEMMA RestFields == /\ Rest.pc = "idle" /\ Rest.row = NoRow /\ Rest.occ = None
                    /\ Rest.sources = {} /\ Rest.rest = {}
BY DEF Rest

\* Who is not a worker of the occupation.
LEMMA NotPermanent ==
    ASSUME NEW o, NEW p, person[p].occ # o \/ person[p].status # "ACTIVE"
    PROVE  p \notin Permanent(o)
<1>1. ASSUME p \in Permanent(o) PROVE FALSE
  <2>1. person[p] = [occ |-> o, status |-> "ACTIVE"]
    BY <1>1 DEF Permanent
  <2>2. person[p].occ = o /\ person[p].status = "ACTIVE"
    BY <2>1
  <2>3. QED
    BY <2>2
<1>2. QED
  BY <1>1

\* Reading whom to assign takes nobody: their occupation is to be checked.
LEMMA ChosenHarmless ==
    ASSUME Typed, Leave, NEW o \in Occupations, Spared(o), NEW h \in Handlers, NEW me,
           me \in HandlerType, me.row.p \in People, handler' = [handler EXCEPT ![h] = Chosen(me)]
    PROVE  Spared(o)'
<1> DEFINE who == person[me.row.p]
           next == [me EXCEPT !.pc = IF who.occ = None THEN "insert" ELSE "check", !.occ = who.occ]
<1>1. CASE ~(who.status \in {"ACTIVE", "INACTIVE"})
  <2>1. handler' = [handler EXCEPT ![h] = Rest]
    BY <1>1, Zenon DEF Chosen
  <2>2. QED
    BY <2>1, RestFields, Harmless
<1>2. CASE who.status \in {"ACTIVE", "INACTIVE"}
  <2>1. handler' = [handler EXCEPT ![h] = next]
    BY <1>2, Zenon DEF Chosen
  <2>2. /\ next.pc = (IF who.occ = None THEN "insert" ELSE "check")
        /\ next.row = me.row /\ next.occ = who.occ
    BY DEF HandlerType
  <2>3. next.pc = "check" \/ (next.pc = "insert" /\ who.occ = None)
    BY <2>2
  <2>4. o # None
    BY NoneAssumption
  <2>5. \/ next.pc = "check" /\ next.occ = o
        \/ next.row.p \notin Permanent(o)
    <3>1. who.occ # o => me.row.p \notin Permanent(o)
      BY NotPermanent
    <3>2. QED
      BY <2>2, <2>3, <2>4, <3>1
  <2> HIDE DEF next
  <2>6. next.pc # "pick"
    BY <2>3
  <2>7. QED
    BY <2>1, <2>5, <2>6, Harmless
<1>3. QED
  BY <1>1, <1>2

\* A job picks somebody of an occupation, and is not to pick any more.
LEMMA PicksSpared ==
    ASSUME Typed, Leave, UNCHANGED tables, NEW o \in Occupations, Spared(o),
           NEW h \in Handlers, handler[h].pc = "pick",
           NEW p \in Permanent(o), o \in handler[h].sources,
           NEW next, handler' = [handler EXCEPT ![h] = next],
           next.pc = "admin", next.row.p = p
    PROVE  Spared(o)'
<1>0. handler \in [Handlers -> HandlerType]
  BY DEF Typed, TypeOK
<1>1. \A i \in Handlers : handler'[i] = IF i = h THEN next ELSE handler[i]
  BY <1>0
<1>2. Pickers(o)' \subseteq Pickers(o) \ {h} /\ h \in Pickers(o)
  BY <1>1 DEF Pickers
<1>3. Cardinality(Pickers(o)') + 1 <= Cardinality(Pickers(o))
  <2>1. /\ IsFiniteSet(Pickers(o) \ {h})
        /\ Cardinality(Pickers(o) \ {h}) = Cardinality(Pickers(o)) - 1
    BY <1>2, Sizes, FS_RemoveElement
  <2>2. Cardinality(Pickers(o)') <= Cardinality(Pickers(o) \ {h})
    BY <1>2, <2>1, FS_Subset
  <2>3. QED
    BY <2>1, <2>2, Sizes
<1>4. Permanent(o)' = Permanent(o) /\ Temporary(o)' = Temporary(o) /\ person' = person
  BY DEF Permanent, Temporary, Current, tables
<1>5. Taken' \subseteq Taken \cup {p}
  BY <1>1, <1>4 DEF Taken
<1>6. Staying(o) \subseteq Staying(o)' \cup {p}
  BY <1>4, <1>5 DEF Staying
<1>7. Cardinality(Staying(o)) <= Cardinality(Staying(o)') + 1
  <2>1. /\ IsFiniteSet(Staying(o)' \cup {p})
        /\ Cardinality(Staying(o)' \cup {p}) <= Cardinality(Staying(o)') + 1
    <3>1. IsFiniteSet(Staying(o)') /\ Cardinality(Staying(o)') \in Nat
      BY Sizes
    <3>2. /\ IsFiniteSet(Staying(o)' \cup {p})
          /\ Cardinality(Staying(o)' \cup {p})
                = IF p \in Staying(o)' THEN Cardinality(Staying(o)')
                  ELSE Cardinality(Staying(o)') + 1
      BY <3>1, FS_AddElement, Zenon
    <3>3. QED
      BY <3>1, <3>2
  <2>2. Cardinality(Staying(o)) <= Cardinality(Staying(o)' \cup {p})
    BY <1>6, <2>1, FS_Subset
  <2>3. Cardinality(Staying(o)' \cup {p}) \in Nat
    BY <2>1, FS_CardinalityType
  <2>4. QED
    BY <2>1, <2>2, <2>3, Sizes
<1>8. /\ left'[o] = left[o] + Cardinality(Permanent(o) \ Permanent(o)')
                            + Cardinality(Temporary(o) \ Temporary(o)')
      /\ left[o] \in Nat
  BY LeaveTyped DEF Typed, TypeOK
<1>9. left'[o] = left[o] /\ left[o] \in Nat
  <2>1. Permanent(o) \ Permanent(o)' = {} /\ Temporary(o) \ Temporary(o)' = {}
    BY <1>4
  <2>2. /\ Cardinality(Permanent(o) \ Permanent(o)') = 0
        /\ Cardinality(Temporary(o) \ Temporary(o)') = 0
    BY <2>1, FS_EmptySet, Zenon
  <2>3. QED
    BY <1>8, <2>2
<1>10. Minimum[o] \in Nat
  BY WorkforceAssumption
<1>11. QED
  BY <1>3, <1>7, <1>9, <1>10, Sizes DEF Spared

LEMMA AfterHarmless ==
    ASSUME NEW h
    PROVE  After(h).pc \notin {"admin", "insert", "check", "pick"}
BY RestFields DEF After, Rest

LEMMA ActionSpared ==
    ASSUME Typed, Typed', Leave, NEW o \in Occupations, Spared(o), NEW h \in Handlers, Action(h)
    PROVE  Spared(o)'
<1> DEFINE me == handler[h]
<1>0. Sound(me) /\ me \in HandlerType
  BY DEF Typed, Sound
<1>a. ASSUME NEW next, handler' = [handler EXCEPT ![h] = next],
             next.pc \notin {"admin", "insert", "check", "pick"}
      PROVE  Spared(o)'
  BY <1>a, Harmless
<1>r. ASSUME handler' = [handler EXCEPT ![h] = Rest] PROVE Spared(o)'
  BY <1>a, <1>r, RestFields
<1>p. ASSUME NEW next, NEW x, handler' = [handler EXCEPT ![h] = next], UNCHANGED tables,
             next.pc = "pick", next.sources = Sources(x)
      PROVE  Spared(o)'
  <2>1. CASE o \in Sources(x)
    BY <2>1, <1>p, Reread DEF Sources
  <2>2. CASE o \notin Sources(x)
    BY <2>2, <1>p, Harmless
  <2>3. QED
    BY <2>1, <2>2
<1>1. ASSUME Checks(h) PROVE Spared(o)'
  <2>0. me.pc = "check" /\ UNCHANGED tables /\ me.row.p \in People
    BY <1>0, <1>1 DEF Checks, At, Sound
  <2>1. handler' = [handler EXCEPT ![h] = IF Listed(me.occ) => Spares(me.occ)
                                          THEN [me EXCEPT !.pc = "insert"] ELSE Rest]
    BY <1>1 DEF Checks, Continues, Become
  <2> DEFINE next == [me EXCEPT !.pc = "insert"]
  <2>2. next.pc = "insert" /\ next.row = me.row
    BY <1>0 DEF HandlerType
  <2>3. CASE ~(Listed(me.occ) => Spares(me.occ))
    <3>1. handler' = [handler EXCEPT ![h] = Rest]
      BY <2>1, <2>3, Zenon
    <3>2. QED
      BY <3>1, <1>r
  <2>4. CASE (Listed(me.occ) => Spares(me.occ)) /\ me.row.p \in Permanent(o) /\ me.occ = o
    <3>1. Listed(o)
      <4>1. person[me.row.p] = [occ |-> o, status |-> "ACTIVE"]
        BY <2>4 DEF Permanent
      <4>2. person[me.row.p].occ = o /\ person[me.row.p].status # "ELSEWHERE"
        BY <4>1
      <4>3. QED
        BY <2>0, <4>2 DEF Listed
    <3>2. Available(o) - 1 >= Minimum[o]
      BY <2>4, <3>1 DEF Spares
    <3>3. Available(o) > Minimum[o]
      <4>1. Available(o) \in Nat /\ Minimum[o] \in Nat
        BY AvailableNat, WorkforceAssumption
      <4>2. QED
        BY <3>2, <4>1
    <3>4. QED
      BY <2>0, <3>3, Reread
  <2>5. CASE /\ Listed(me.occ) => Spares(me.occ)
             /\ ~(me.row.p \in Permanent(o) /\ me.occ = o)
    <3>1. handler' = [handler EXCEPT ![h] = next]
      BY <2>1, <2>5, Zenon
    <3>2. me.row.p \notin Permanent(o) \/ me.row.p \in Taken
      <4>1. CASE me.row.p \in Permanent(o)
        <5>1. person[me.row.p] = [occ |-> o, status |-> "ACTIVE"]
          BY <4>1 DEF Permanent
        <5>2. person[me.row.p].occ # me.occ
          BY <2>5, <4>1, <5>1
        <5>3. QED
          BY <2>0, <5>2 DEF Taken
      <4>2. QED
        BY <4>1
    <3> HIDE DEF next
    <3>3. QED
      BY <2>2, <3>1, <3>2, Harmless
  <2>6. QED
    BY <2>3, <2>4, <2>5, Zenon
<1>2. ASSUME EditSaves(h) \/ UpdateSaves(h) \/ Stops(h) PROVE Spared(o)'
  BY <1>2, <1>r DEF EditSaves, UpdateSaves, Stops, Continues, Become
<1>3. ASSUME Picks(h) PROVE Spared(o)'
  <2>0. me.pc = "pick" /\ UNCHANGED tables
    BY <1>3 DEF Picks, At
  <2>1. CASE handler' = [handler EXCEPT ![h] = After(h)]
    BY <2>1, <1>a, AfterHarmless
  <2>2. CASE \E p \in Candidates(me.sources) :
                Continues(h, [me EXCEPT !.pc = IF h \in Jobs THEN "admin" ELSE "read",
                                        !.row.p = p, !.sources = {}])
    <3>1. PICK p \in Candidates(me.sources) :
                Continues(h, [me EXCEPT !.pc = IF h \in Jobs THEN "admin" ELSE "read",
                                        !.row.p = p, !.sources = {}])
      BY <2>2
    <3> DEFINE next == [me EXCEPT !.pc = IF h \in Jobs THEN "admin" ELSE "read",
                                  !.row.p = p, !.sources = {}]
    <3>2. handler' = [handler EXCEPT ![h] = next]
      BY <3>1 DEF Continues, Become
    <3>3. me \in HandlerType /\ me.row \in RowType
      BY <1>0 DEF HandlerType
    <3>4. /\ next.pc = (IF h \in Jobs THEN "admin" ELSE "read")
          /\ next.row.p = p /\ next.sources = {}
      BY <3>3 DEF HandlerType, RowType
    <3>5. PICK s \in me.sources : p \in Permanent(s)
      BY DEF Candidates
    <3> HIDE DEF next
    <3>6. CASE h \notin Jobs
      BY <3>2, <3>4, <3>6, <1>a
    <3>7. CASE h \in Jobs /\ p \in Permanent(o)
      <4>1. s = o
        <5>1. person[p] = [occ |-> o, status |-> "ACTIVE"]
              /\ person[p] = [occ |-> s, status |-> "ACTIVE"]
          BY <3>5, <3>7 DEF Permanent
        <5>2. QED
          BY <5>1
      <4>2. QED
        BY <2>0, <3>2, <3>4, <3>5, <3>7, <4>1, PicksSpared
    <3>8. CASE h \in Jobs /\ p \notin Permanent(o)
      BY <3>2, <3>4, <3>8, Harmless
    <3>9. QED
      BY <3>6, <3>7, <3>8
  <2>3. QED
    BY <1>3, <2>1, <2>2, Zenon DEF Picks, Continues, Become
<1>3a. ASSUME SeeksAdmin(h) PROVE Spared(o)'
  <2>0. me.pc = "admin" /\ me.row.p \in People
    BY <1>0, <1>3a DEF Sound, SeeksAdmin, At
  <2>1. CASE handler' = [handler EXCEPT ![h] = After(h)]
    BY <2>1, <1>a, AfterHarmless
  <2>2. CASE handler' = [handler EXCEPT ![h] = [me EXCEPT !.pc = "insert"]]
    <3> DEFINE next == [me EXCEPT !.pc = "insert"]
    <3>1. next.pc = "insert" /\ next.row = me.row
      BY <1>0 DEF HandlerType
    <3>2. me.row.p \in Taken
      BY <2>0 DEF Taken
    <3> HIDE DEF next
    <3>3. handler' = [handler EXCEPT ![h] = next]
      BY <2>2 DEF next
    <3>4. QED
      BY <3>1, <3>2, <3>3, Harmless
  <2>3. QED
    BY <1>3a, <2>1, <2>2, Zenon DEF SeeksAdmin, Continues, Become
<1>4. ASSUME ReadsPerson(h) PROVE Spared(o)'
  <2>0. me.row.p \in People
    BY <1>0, <1>4 DEF Sound, ReadsPerson, At
  <2>1. CASE handler' = [handler EXCEPT ![h] = Chosen(me)]
    BY <1>0, <2>0, <2>1, ChosenHarmless
  <2>2. CASE /\ person[me.row.p].status = "ELSEWHERE"
             /\ handler' = [handler EXCEPT ![h] = [me EXCEPT !.pc = "insert"]]
    <3> DEFINE next == [me EXCEPT !.pc = "insert"]
    <3>1. next.pc = "insert" /\ next.row = me.row
      BY <1>0 DEF HandlerType
    <3>2. me.row.p \notin Permanent(o)
      BY <2>2, NotPermanent
    <3>3. handler' = [handler EXCEPT ![h] = next]
      BY <2>2
    <3> HIDE DEF next
    <3>4. QED
      BY <3>1, <3>2, <3>3, Harmless
  <2>3. QED
    BY <1>4, <2>1, <2>2, Zenon DEF ReadsPerson, Continues, Become
<1>5. ASSUME JobStarts(h) PROVE Spared(o)'
  <2>1. PICK empty : handler' = [handler EXCEPT ![h] = [Rest EXCEPT !.pc = "visit", !.rest = empty]]
    BY <1>5, Zenon DEF JobStarts, Continues, Become
  <2>2. [Rest EXCEPT !.pc = "visit", !.rest = empty].pc = "visit"
    BY DEF Rest
  <2>3. QED
    BY <2>1, <2>2, <1>a
<1>6. ASSUME NEW x \in Occupations, Visits(h, x) PROVE Spared(o)'
  <2> DEFINE rest == me.rest \ {x}
             picks == [Rest EXCEPT !.pc = "pick", !.rest = rest, !.row = Cover(x),
                                   !.sources = Sources(x)]
             visits == [Rest EXCEPT !.pc = "visit", !.rest = rest]
  <2>1. handler' = [handler EXCEPT ![h] = IF AtRisk(x) /\ Sources(x) # {} THEN picks
                                          ELSE IF rest = {} THEN Rest ELSE visits]
    BY <1>6, Zenon DEF Visits, Continues, Become
  <2>2. picks.pc = "pick" /\ picks.sources = Sources(x) /\ visits.pc = "visit"
    BY DEF Rest
  <2>3. UNCHANGED tables
    BY <1>6 DEF Visits
  <2> HIDE DEF picks, visits
  <2>4. CASE AtRisk(x) /\ Sources(x) # {}
    <3>1. handler' = [handler EXCEPT ![h] = picks]
      BY <2>1, <2>4, Zenon
    <3>2. QED
      BY <2>2, <2>3, <3>1, <1>p
  <2>5. CASE ~(AtRisk(x) /\ Sources(x) # {}) /\ rest = {}
    <3>1. handler' = [handler EXCEPT ![h] = Rest]
      BY <2>1, <2>5, Zenon
    <3>2. QED
      BY <3>1, <1>r
  <2>6. CASE ~(AtRisk(x) /\ Sources(x) # {}) /\ rest # {}
    <3>1. handler' = [handler EXCEPT ![h] = visits]
      BY <2>1, <2>6, Zenon
    <3>2. QED
      BY <2>2, <3>1, <1>a
  <2>7. QED
    BY <2>4, <2>5, <2>6, Zenon
<1>7. ASSUME NEW x \in Occupations, AutoAssigns(h, x) PROVE Spared(o)'
  <2> DEFINE picks == [Rest EXCEPT !.pc = "pick", !.row = Cover(x), !.sources = Sources(x)]
  <2>1. handler' = [handler EXCEPT ![h] = picks] /\ UNCHANGED tables
    BY <1>7 DEF AutoAssigns, Starts, Become
  <2>2. picks.pc = "pick" /\ picks.sources = Sources(x)
    BY DEF Rest
  <2> HIDE DEF picks
  <2>3. QED
    BY <2>1, <2>2, <1>p
<1>8. ASSUME NEW p \in People, NEW x \in Occupations, NEW when \in {"LATER", "NOW"},
             Assigns(h, p, x, when)
      PROVE  Spared(o)'
  <2> DEFINE row == [p |-> p, to |-> x, auto |-> FALSE, when |-> when]
             told == [Rest EXCEPT !.row = row]
  <2>1. row \in RowType
    BY DEF RowType
  <2>2. told \in HandlerType /\ told.row = row
    BY <2>1, RestSound DEF Sound, HandlerType, Rest
  <2>3. told.row.p \in People
    BY <2>2
  <2>4. handler' = [handler EXCEPT ![h] = Chosen(told)]
    BY <1>8 DEF Assigns, Starts, Become
  <2> HIDE DEF told
  <2>5. QED
    BY <2>2, <2>3, <2>4, ChosenHarmless
<1>9. ASSUME NEW r \in Rows, NEW row \in Edits(assignment[r]), EditFinds(h, r, row)
      PROVE  Spared(o)'
  <2> DEFINE next == [Rest EXCEPT !.pc = "rewrite", !.r = r, !.row = row]
  <2>1. handler' = [handler EXCEPT ![h] = next]
    BY <1>9 DEF EditFinds, Starts, Become
  <2>2. next.pc = "rewrite"
    BY DEF Rest
  <2> HIDE DEF next
  <2>3. QED
    BY <2>1, <2>2, <1>a
<1>10. ASSUME NEW p \in People, NEW who \in Updates(person[p]), UpdateFinds(h, p, who)
       PROVE  Spared(o)'
  <2> DEFINE next == [Rest EXCEPT !.pc = "save", !.row.p = p, !.who = who]
  <2>1. handler' = [handler EXCEPT ![h] = next]
    BY <1>10 DEF UpdateFinds, Starts, Become
  <2>2. next.pc = "save"
    BY DEF Rest
  <2> HIDE DEF next
  <2>3. QED
    BY <2>1, <2>2, <1>a
<1>11. QED
  BY <1>1, <1>2, <1>3, <1>3a, <1>4, <1>5, <1>6, <1>7, <1>8, <1>9, <1>10, Zenon DEF Action, Works

\* What is written but by a handler takes nobody: whoever was to be assigned still is.
LEMMA PassingSpared ==
    ASSUME Typed, Leave, NEW o \in Occupations, Spared(o), Passing
    PROVE  Spared(o)'
<1>1. handler' = handler
  BY DEF Passing, Revokes, Begins, Lapses, Moves, Governs
<1>2. Pickers(o)' \subseteq Pickers(o)
  BY <1>1 DEF Pickers
<1>3. ASSUME NEW p \in Permanent(o) \cap Permanent(o)', p \in Taken' PROVE p \in Taken
  <2>1. person[p] = person'[p] /\ p \in People
    BY DEF Permanent
  <2>2. QED
    BY <1>1, <1>3, <2>1 DEF Taken
<1>4. QED
  BY <1>2, <1>3, Disturbed

\* Inserting an assignment moves only who was taken.
LEMMA InsertsSpared ==
    ASSUME Typed, NEW o \in Occupations, Spared(o), NEW h \in Handlers, Inserts(h)
    PROVE  Spared(o)'
<1> DEFINE me == handler[h]
<1>0. handler \in [Handlers -> HandlerType] /\ assignment \in [Rows -> RowType]
  BY DEF Typed, TypeOK
<1>1. me.pc = "insert" /\ person' = person /\ left' = left
  BY DEF Inserts, At
<1>2. handler' = [handler EXCEPT ![h] = After(h)]
  BY DEF Inserts, Continues, Become
<1>3. \A i \in Handlers : handler'[i] = IF i = h THEN After(h) ELSE handler[i]
  BY <1>0, <1>2
<1>4. PICK r \in Rows : assignment[r] = NoRow /\ assignment' = [assignment EXCEPT ![r] = me.row]
  BY Zenon DEF Inserts
<1>5. Pickers(o)' \subseteq Pickers(o)
  BY <1>3, AfterHarmless DEF Pickers
<1>6. Taken' \subseteq Taken
  BY <1>1, <1>3, AfterHarmless DEF Taken
<1>7. ASSUME NEW p PROVE Current(p) \subseteq Current(p)'
  BY <1>0, <1>4 DEF Current, NoRow
<1>8. ASSUME NEW p, p # me.row.p PROVE Current(p)' \subseteq Current(p)
  BY <1>0, <1>4, <1>8 DEF Current
<1>9. Temporary(o) \subseteq Temporary(o)'
  <2>1. ASSUME NEW p \in Temporary(o) PROVE p \in Temporary(o)'
    <3>1. PICK i \in Current(p) : assignment[i].to = o
      BY DEF Temporary
    <3>2. i \in Rows /\ i \in Current(p)' /\ i # r
      BY <1>4, <1>7 DEF Current, NoRow
    <3>3. assignment'[i].to = o
      BY <1>0, <1>4, <3>1, <3>2
    <3>4. QED
      BY <1>1, <3>2, <3>3 DEF Temporary
  <2>2. QED
    BY <2>1
<1>10. Permanent(o) \ Taken \subseteq Permanent(o)'
  <2>1. ASSUME NEW p \in Permanent(o), p \notin Taken PROVE p \in Permanent(o)'
    <3>1. p # me.row.p
      BY <1>1, <2>1 DEF Taken, Permanent
    <3>2. Current(p)' = {}
      BY <3>1, <1>8 DEF Permanent
    <3>3. QED
      BY <1>1, <3>2 DEF Permanent
  <2>2. QED
    BY <2>1
<1>11. Staying(o) \subseteq Staying(o)'
  BY <1>6, <1>9, <1>10 DEF Staying
<1>12. /\ Cardinality(Staying(o)) <= Cardinality(Staying(o)')
       /\ Cardinality(Pickers(o)') <= Cardinality(Pickers(o))
  BY <1>5, <1>11, Sizes, FS_Subset
<1>13. left[o] \in Nat /\ left'[o] = left[o] /\ Minimum[o] \in Nat
  BY <1>1, WorkforceAssumption DEF Typed, TypeOK
<1>14. QED
  BY <1>12, <1>13, Sizes DEF Spared

LEMMA InitSpared == Init => AllSpared
<1> SUFFICES ASSUME Init, NEW o \in Occupations PROVE Spared(o)
  BY DEF AllSpared
<1>1. \A h \in Handlers : handler[h] = Rest
  BY DEF Init
<1>2. Pickers(o) = {} /\ Taken = {}
  BY <1>1, RestFields DEF Pickers, Taken
<1>3. Staying(o) = Permanent(o) \cup Temporary(o)
  BY <1>2 DEF Staying
<1>4. Cardinality(Pickers(o)) = 0 /\ Cardinality(Staying(o)) = Available(o)
  BY <1>2, <1>3, FS_EmptySet DEF Available
<1>5. left[o] = IF Available(o) < Minimum[o] THEN Minimum[o] - Available(o) ELSE 0
  BY DEF Init
<1>6. Cardinality(Handlers) \in Nat /\ Cardinality(Handlers) # 0
  BY WorkforceAssumption, FS_EmptySet, FS_CardinalityType
<1>7. Available(o) \in Nat
  BY AvailableNat, Zenon
<1>8. Minimum[o] \in Nat
  BY WorkforceAssumption
<1>9. QED
  BY <1>4, <1>5, <1>6, <1>7, <1>8 DEF Spared

LEMMA NextSpared == Typed /\ Typed' /\ AllSpared /\ [Next]_vars => AllSpared'
<1> SUFFICES ASSUME Typed, Typed', AllSpared, [Next]_vars, NEW o \in Occupations
             PROVE  Spared(o)'
  BY DEF AllSpared
<1>0. Spared(o)
  BY DEF AllSpared
<1>1. CASE Next
  BY <1>0, <1>1, NextCases, ActionSpared, PassingSpared, InsertsSpared, Zenon
<1>2. CASE UNCHANGED vars
  <2>1. /\ Staying(o)' = Staying(o) /\ Pickers(o)' = Pickers(o) /\ left' = left
    BY <1>2 DEF vars, Staying, Pickers, Temporary, Permanent, Current, Taken
  <2>2. QED
    BY <1>0, <2>1 DEF Spared
<1>3. QED
  BY <1>1, <1>2

\* However many handlers assign people at once, whatever happens to the people meanwhile and
\* wherever a handler stops, assignments take from an occupation at most one worker under its
\* minimum for each other handler.
THEOREM MinimumIsKept == Spec => []MinimumKept
<1>1. Typed /\ AllSpared => MinimumKept
  <2> SUFFICES ASSUME Typed, AllSpared, NEW o \in Occupations
               PROVE  Available(o) + left[o] >= Minimum[o] - (Cardinality(Handlers) - 1)
    BY DEF MinimumKept
  <2>1. Spared(o)
    BY DEF AllSpared
  <2>2. Staying(o) \subseteq Permanent(o) \cup Temporary(o)
    BY DEF Staying
  <2>3. Cardinality(Staying(o)) <= Available(o)
    BY <2>2, AvailableNat, FS_Subset DEF Available
  <2>4. Available(o) \in Nat
    BY AvailableNat, Zenon
  <2>5. left[o] \in Nat /\ Minimum[o] \in Nat
    BY WorkforceAssumption DEF Typed, TypeOK
  <2>6. QED
    BY <2>1, <2>3, <2>4, <2>5, Sizes DEF Spared
<1>2. Init => Typed /\ AllSpared
  BY InitTyped, InitSpared
<1>3. Typed /\ AllSpared /\ [Next]_vars => (Typed /\ AllSpared)'
  BY NextTyped, NextSpared
<1>4. QED
  BY <1>1, <1>2, <1>3, PTL DEF Spec

-----------------------------------------------------------------------------
(* Nobody covers more than there are handlers.                             *)

\* The assignments in force that send somebody to cover an occupation, ...
Covering(p) == {r \in Rows : assignment[r].p = p /\ assignment[r].when = "NOW" /\ assignment[r].auto}

\* ... and the handlers that are to add one.
Sending(p) == {h \in Handlers : handler[h].row.auto /\ handler[h].row.p = p}

Sent(p) == Cardinality(Covering(p)) + Cardinality(Sending(p)) <= Cardinality(Handlers)

FewSent == \A p \in People : Sent(p)

LEMMA SentSizes ==
    ASSUME NEW p
    PROVE  /\ Covering(p) \in SUBSET Rows /\ Sending(p) \in SUBSET Handlers
           /\ IsFiniteSet(Covering(p)) /\ IsFiniteSet(Sending(p))
           /\ Cardinality(Covering(p)) \in Nat /\ Cardinality(Sending(p)) \in Nat
           /\ Covering(p)' \in SUBSET Rows /\ Sending(p)' \in SUBSET Handlers
           /\ IsFiniteSet(Covering(p)') /\ IsFiniteSet(Sending(p)')
           /\ Cardinality(Covering(p)') \in Nat /\ Cardinality(Sending(p)') \in Nat
           /\ Cardinality(Handlers) \in Nat
<1>1. /\ Covering(p) \in SUBSET Rows /\ Sending(p) \in SUBSET Handlers
      /\ Covering(p)' \in SUBSET Rows /\ Sending(p)' \in SUBSET Handlers
  BY DEF Covering, Sending
<1>2. /\ IsFiniteSet(Covering(p)) /\ IsFiniteSet(Sending(p))
      /\ IsFiniteSet(Covering(p)') /\ IsFiniteSet(Sending(p)')
  BY <1>1, FS_Subset, WorkforceAssumption
<1>3. QED
  BY <1>1, <1>2, FS_CardinalityType, WorkforceAssumption

LEMMA NoMoreSent ==
    ASSUME NEW p, Sent(p), Covering(p)' \subseteq Covering(p), Sending(p)' \subseteq Sending(p)
    PROVE  Sent(p)'
<1>1. /\ Cardinality(Covering(p)') <= Cardinality(Covering(p))
      /\ Cardinality(Sending(p)') <= Cardinality(Sending(p))
  BY SentSizes, FS_Subset
<1>2. QED
  BY <1>1, SentSizes DEF Sent

\* A handler goes on with whom it was to send, or with nobody.
LEMMA SameSent ==
    ASSUME Typed, NEW p \in People, NEW h \in Handlers, NEW next,
           handler' = [handler EXCEPT ![h] = next],
           next.row.auto /\ next.row.p = p => next.row = handler[h].row
    PROVE  Sending(p)' \subseteq Sending(p)
<1>1. handler \in [Handlers -> HandlerType]
  BY DEF Typed, TypeOK
<1>2. \A i \in Handlers : handler'[i] = IF i = h THEN next ELSE handler[i]
  BY <1>1
<1>3. QED
  BY <1>2 DEF Sending

LEMMA RestSends ==
    /\ ~Rest.row.auto
    /\ \A h : ~After(h).row.auto
<1>1. ~Rest.row.auto
  BY DEF Rest, NoRow
<1>2. ASSUME NEW h PROVE ~After(h).row.auto
  <2>1. ~[Rest EXCEPT !.pc = "visit", !.rest = handler[h].rest].row.auto
    BY <1>1 DEF Rest
  <2>2. QED
    BY <1>1, <2>1, Zenon DEF After
<1>3. QED
  BY <1>1, <1>2

LEMMA ChosenSends ==
    ASSUME NEW me \in HandlerType, Chosen(me).row.auto
    PROVE  Chosen(me).row = me.row
<1> DEFINE who == person[me.row.p]
           next == [me EXCEPT !.pc = IF who.occ = None THEN "insert" ELSE "check", !.occ = who.occ]
<1>1. next.row = me.row
  BY DEF HandlerType
<1>2. Chosen(me) = Rest \/ Chosen(me) = next
  BY Zenon DEF Chosen
<1> HIDE DEF next
<1>3. QED
  BY <1>1, <1>2, RestSends

\* Whom a handler is to send changes only when it picks somebody.
LEMMA ActionSends ==
    ASSUME Typed, NEW p \in People, NEW h \in Handlers, Action(h)
    PROVE  \/ Sending(p)' \subseteq Sending(p)
           \/ p \in Candidates(handler[h].sources) /\ UNCHANGED tables
<1> DEFINE me == handler[h]
           Goal == \/ Sending(p)' \subseteq Sending(p)
                   \/ p \in Candidates(me.sources) /\ UNCHANGED tables
<1>0. Sound(me) /\ me \in HandlerType /\ me.row \in RowType
  BY DEF Typed, Sound, HandlerType
<1>a. ASSUME NEW next, handler' = [handler EXCEPT ![h] = next],
             next.row.auto /\ next.row.p = p => next.row = me.row
      PROVE  Goal
  BY <1>a, SameSent
<1>r. ASSUME handler' = [handler EXCEPT ![h] = Rest] PROVE Goal
  BY <1>a, <1>r, RestSends
<1>c. ASSUME NEW o, NEW next, handler' = [handler EXCEPT ![h] = next], next.row = Cover(o)
      PROVE  Goal
  <2>1. next.row.p # p
    BY <1>c, NoneAssumption DEF Cover, NoRow
  <2>2. QED
    BY <1>a, <1>c, <2>1
<1> HIDE DEF Goal
<1>i. ASSUME handler' = [handler EXCEPT ![h] = [me EXCEPT !.pc = "insert"]] PROVE Goal
  <2>1. [me EXCEPT !.pc = "insert"].row = me.row
    BY <1>0 DEF HandlerType
  <2>2. QED
    BY <1>i, <1>a, <2>1
<1>1. ASSUME Checks(h) PROVE Goal
  <2>1. handler' = [handler EXCEPT ![h] = IF Listed(me.occ) => Spares(me.occ)
                                          THEN [me EXCEPT !.pc = "insert"] ELSE Rest]
    BY <1>1 DEF Checks, Continues, Become
  <2>2. CASE Listed(me.occ) => Spares(me.occ)
    <3>1. handler' = [handler EXCEPT ![h] = [me EXCEPT !.pc = "insert"]]
      BY <2>1, <2>2, Zenon
    <3>2. QED
      BY <1>i, <3>1
  <2>3. CASE ~(Listed(me.occ) => Spares(me.occ))
    <3>1. handler' = [handler EXCEPT ![h] = Rest]
      BY <2>1, <2>3, Zenon
    <3>2. QED
      BY <1>r, <3>1
  <2>4. QED
    BY <2>2, <2>3, Zenon
<1>2. ASSUME EditSaves(h) \/ UpdateSaves(h) \/ Stops(h) PROVE Goal
  BY <1>2, <1>r DEF EditSaves, UpdateSaves, Stops, Continues, Become
<1>3. ASSUME Picks(h) PROVE Goal
  <2>1. CASE handler' = [handler EXCEPT ![h] = After(h)]
    BY <2>1, <1>a, RestSends
  <2>2. CASE \E q \in Candidates(me.sources) :
                Continues(h, [me EXCEPT !.pc = IF h \in Jobs THEN "admin" ELSE "read",
                                        !.row.p = q, !.sources = {}])
    <3>1. PICK q \in Candidates(me.sources) :
                Continues(h, [me EXCEPT !.pc = IF h \in Jobs THEN "admin" ELSE "read",
                                        !.row.p = q, !.sources = {}])
      BY <2>2
    <3> DEFINE next == [me EXCEPT !.pc = IF h \in Jobs THEN "admin" ELSE "read",
                                  !.row.p = q, !.sources = {}]
    <3>2. handler' = [handler EXCEPT ![h] = next]
      BY <3>1 DEF Continues, Become
    <3>3. next.row.p = q
      BY <1>0 DEF HandlerType, RowType
    <3> HIDE DEF next
    <3>4. CASE q = p
      BY <1>3, <3>4 DEF Picks, Goal
    <3>5. CASE q # p
      BY <3>2, <3>3, <3>5, <1>a
    <3>6. QED
      BY <3>4, <3>5
  <2>3. QED
    BY <1>3, <2>1, <2>2, Zenon DEF Picks, Continues, Become
<1>3a. ASSUME SeeksAdmin(h) PROVE Goal
  <2>1. CASE handler' = [handler EXCEPT ![h] = After(h)]
    BY <2>1, <1>a, RestSends
  <2>2. CASE handler' = [handler EXCEPT ![h] = [me EXCEPT !.pc = "insert"]]
    BY <1>i, <2>2
  <2>3. QED
    BY <1>3a, <2>1, <2>2, Zenon DEF SeeksAdmin, Continues, Become
<1>4. ASSUME ReadsPerson(h) PROVE Goal
  <2>1. CASE handler' = [handler EXCEPT ![h] = Chosen(me)]
    BY <1>0, <1>a, <2>1, ChosenSends
  <2>2. CASE handler' = [handler EXCEPT ![h] = [me EXCEPT !.pc = "insert"]]
    BY <1>i, <2>2
  <2>3. QED
    BY <1>4, <2>1, <2>2, Zenon DEF ReadsPerson, Continues, Become
<1>5. ASSUME JobStarts(h) PROVE Goal
  <2>1. PICK empty : handler' = [handler EXCEPT ![h] = [Rest EXCEPT !.pc = "visit", !.rest = empty]]
    BY <1>5, Zenon DEF JobStarts, Continues, Become
  <2>2. ~[Rest EXCEPT !.pc = "visit", !.rest = empty].row.auto
    BY DEF Rest, NoRow
  <2>3. QED
    BY <2>1, <2>2, <1>a
<1>6. ASSUME NEW x \in Occupations, Visits(h, x) PROVE Goal
  <2> DEFINE rest == me.rest \ {x}
             picks == [Rest EXCEPT !.pc = "pick", !.rest = rest, !.row = Cover(x),
                                   !.sources = Sources(x)]
             visits == [Rest EXCEPT !.pc = "visit", !.rest = rest]
  <2>1. handler' = [handler EXCEPT ![h] = IF AtRisk(x) /\ Sources(x) # {} THEN picks
                                          ELSE IF rest = {} THEN Rest ELSE visits]
    BY <1>6, Zenon DEF Visits, Continues, Become
  <2>2. picks.row = Cover(x) /\ ~visits.row.auto
    BY DEF Rest, NoRow
  <2> HIDE DEF picks, visits
  <2>3. \/ handler' = [handler EXCEPT ![h] = picks]
        \/ handler' = [handler EXCEPT ![h] = Rest]
        \/ handler' = [handler EXCEPT ![h] = visits]
    BY <2>1, Zenon
  <2>4. QED
    BY <2>2, <2>3, <1>a, <1>c, <1>r
<1>7. ASSUME NEW x \in Occupations, AutoAssigns(h, x) PROVE Goal
  <2> DEFINE picks == [Rest EXCEPT !.pc = "pick", !.row = Cover(x), !.sources = Sources(x)]
  <2>1. handler' = [handler EXCEPT ![h] = picks]
    BY <1>7 DEF AutoAssigns, Starts, Become
  <2>2. picks.row = Cover(x)
    BY DEF Rest
  <2> HIDE DEF picks
  <2>3. QED
    BY <2>1, <2>2, <1>c
<1>8. ASSUME NEW q \in People, NEW x \in Occupations, NEW when \in {"LATER", "NOW"},
             Assigns(h, q, x, when)
      PROVE  Goal
  <2> DEFINE row == [p |-> q, to |-> x, auto |-> FALSE, when |-> when]
             told == [Rest EXCEPT !.row = row]
  <2>1. row \in RowType
    BY DEF RowType
  <2>2. told \in HandlerType /\ told.row = row
    BY <2>1, RestSound DEF Sound, HandlerType, Rest
  <2>3. ~told.row.auto
    BY <2>2
  <2>4. handler' = [handler EXCEPT ![h] = Chosen(told)]
    BY <1>8 DEF Assigns, Starts, Become
  <2> HIDE DEF told
  <2>5. ~Chosen(told).row.auto
    BY <2>2, <2>3, ChosenSends
  <2>6. QED
    BY <2>4, <2>5, <1>a
<1>9. ASSUME NEW r \in Rows, NEW row \in Edits(assignment[r]), EditFinds(h, r, row) PROVE Goal
  <2> DEFINE next == [Rest EXCEPT !.pc = "rewrite", !.r = r, !.row = row]
  <2>1. handler' = [handler EXCEPT ![h] = next]
    BY <1>9 DEF EditFinds, Starts, Become
  <2>2. next.row = row /\ ~row.auto
    BY EditsTyped DEF Rest
  <2> HIDE DEF next
  <2>3. QED
    BY <2>1, <2>2, <1>a
<1>10. ASSUME NEW q \in People, NEW who \in Updates(person[q]), UpdateFinds(h, q, who) PROVE Goal
  <2> DEFINE next == [Rest EXCEPT !.pc = "save", !.row.p = q, !.who = who]
  <2>1. handler' = [handler EXCEPT ![h] = next]
    BY <1>10 DEF UpdateFinds, Starts, Become
  <2>2. ~next.row.auto
    BY DEF Rest, NoRow
  <2> HIDE DEF next
  <2>3. QED
    BY <2>1, <2>2, <1>a
<1>11. QED
  BY <1>1, <1>2, <1>3, <1>3a, <1>4, <1>5, <1>6, <1>7, <1>8, <1>9, <1>10, Zenon
     DEF Action, Works, Goal

\* Saving an edit makes an assignment one by hand.
LEMMA ActionSent ==
    ASSUME Typed, NEW p \in People, Sent(p), NEW h \in Handlers, Action(h)
    PROVE  Sent(p)'
<1>0. assignment \in [Rows -> RowType] /\ Sound(handler[h])
  BY DEF Typed, TypeOK
<1>1. CASE p \in Candidates(handler[h].sources) /\ UNCHANGED tables
  <2>1. Current(p) = {} /\ Current(p)' = {}
    BY <1>1 DEF Candidates, Permanent, Current, tables
  <2>2. Covering(p)' = {}
    BY <2>1 DEF Covering, Current
  <2>3. Cardinality(Covering(p)') = 0 /\ Cardinality(Sending(p)') <= Cardinality(Handlers)
    BY <2>2, SentSizes, FS_EmptySet, FS_Subset, WorkforceAssumption
  <2>4. QED
    BY <2>3, SentSizes DEF Sent
<1>2. CASE Sending(p)' \subseteq Sending(p)
  <2>1. CASE UNCHANGED tables \/ UpdateSaves(h)
    <3>1. assignment' = assignment
      BY <2>1 DEF tables, UpdateSaves
    <3>2. Covering(p)' \subseteq Covering(p)
      BY <3>1 DEF Covering
    <3>3. QED
      BY <1>2, <3>2, NoMoreSent
  <2>2. CASE EditSaves(h)
    <3>1. /\ assignment' = [assignment EXCEPT ![handler[h].r] = handler[h].row]
          /\ ~handler[h].row.auto
      BY <1>0, <2>2 DEF EditSaves, At, Sound
    <3>2. Covering(p)' \subseteq Covering(p)
      BY <1>0, <3>1 DEF Covering
    <3>3. QED
      BY <1>2, <3>2, NoMoreSent
  <2>3. QED
    BY <2>1, <2>2, ActionTables
<1>3. QED
  BY <1>1, <1>2, ActionSends

LEMMA PassingSent ==
    ASSUME Typed, NEW p \in People, Sent(p), Passing
    PROVE  Sent(p)'
<1>0. /\ assignment \in [Rows -> RowType]
      /\ \A r \in Rows : assignment[r].auto => assignment[r].when \in {"NOW", "GONE"}
  BY DEF Typed, TypeOK
<1>1. Sending(p)' \subseteq Sending(p)
  BY DEF Passing, Revokes, Begins, Lapses, Moves, Governs, Sending
<1>2. ASSUME NEW r \in Rows, Revokes(r) \/ Begins(r) \/ Lapses(r)
      PROVE  Covering(p)' \subseteq Covering(p)
  <2>1. PICK when \in {"GONE", "NOW", "OVER"} :
            /\ assignment' = [assignment EXCEPT ![r].when = when]
            /\ when = "NOW" => ~assignment[r].auto
    BY <1>0, <1>2 DEF Revokes, Begins, Lapses
  <2> DEFINE row == [assignment[r] EXCEPT !.when = when]
  <2>2. row.when = when /\ row.auto = assignment[r].auto
    BY <1>0 DEF RowType
  <2>3. \A i \in Rows : assignment'[i] = IF i = r THEN row ELSE assignment[i]
    BY <1>0, <2>1
  <2> HIDE DEF row
  <2>4. QED
    BY <2>1, <2>2, <2>3 DEF Covering
<1>3. ASSUME NEW q \in People, NEW status \in {"ACTIVE", "UNFIT", "ELSEWHERE"}, Moves(q, status)
      PROVE  Covering(p)' \subseteq Covering(p)
  BY <1>3 DEF Moves, Covering
<1>3a. ASSUME NEW now \in CampType, Governs(now) PROVE Covering(p)' \subseteq Covering(p)
  BY <1>3a DEF Governs, Covering
<1>4. Covering(p)' \subseteq Covering(p)
  BY <1>2, <1>3, <1>3a, Zenon DEF Passing
<1>5. QED
  BY <1>1, <1>4, NoMoreSent

LEMMA InsertsSent ==
    ASSUME Typed, NEW p \in People, Sent(p), NEW h \in Handlers, Inserts(h)
    PROVE  Sent(p)'
<1> DEFINE me == handler[h]
<1>0. handler \in [Handlers -> HandlerType] /\ assignment \in [Rows -> RowType]
  BY DEF Typed, TypeOK
<1>1. handler' = [handler EXCEPT ![h] = After(h)]
  BY DEF Inserts, Continues, Become
<1>2. \A i \in Handlers : handler'[i] = IF i = h THEN After(h) ELSE handler[i]
  BY <1>0, <1>1
<1>3. PICK r \in Rows : assignment' = [assignment EXCEPT ![r] = me.row]
  BY Zenon DEF Inserts
<1>4. \A i \in Rows : assignment'[i] = IF i = r THEN me.row ELSE assignment[i]
  BY <1>0, <1>3
<1>5. Sending(p)' \subseteq Sending(p) \ {h}
  BY <1>2, RestSends DEF Sending
<1>6. CASE me.row.auto /\ me.row.p = p
  <2>1. h \in Sending(p)
    BY <1>6 DEF Sending
  <2>2. Covering(p)' \subseteq Covering(p) \cup {r}
    BY <1>4 DEF Covering
  <2>3. Cardinality(Sending(p)') + 1 <= Cardinality(Sending(p))
    <3>1. /\ IsFiniteSet(Sending(p) \ {h})
          /\ Cardinality(Sending(p) \ {h}) = Cardinality(Sending(p)) - 1
      BY <2>1, SentSizes, FS_RemoveElement
    <3>2. Cardinality(Sending(p)') <= Cardinality(Sending(p) \ {h})
      BY <1>5, <3>1, FS_Subset
    <3>3. QED
      BY <3>1, <3>2, SentSizes
  <2>4. Cardinality(Covering(p)') <= Cardinality(Covering(p)) + 1
    <3>1. IsFiniteSet(Covering(p)) /\ Cardinality(Covering(p)) \in Nat
      BY SentSizes
    <3>2. /\ IsFiniteSet(Covering(p) \cup {r})
          /\ Cardinality(Covering(p) \cup {r})
                = IF r \in Covering(p) THEN Cardinality(Covering(p))
                  ELSE Cardinality(Covering(p)) + 1
      BY <3>1, FS_AddElement, Zenon
    <3>3. Cardinality(Covering(p)') <= Cardinality(Covering(p) \cup {r})
      BY <2>2, <3>2, FS_Subset
    <3>4. QED
      BY <3>1, <3>2, <3>3, SentSizes
  <2>5. QED
    BY <2>3, <2>4, SentSizes DEF Sent
<1>7. CASE ~(me.row.auto /\ me.row.p = p)
  <2>1. Covering(p)' \subseteq Covering(p)
    BY <1>4, <1>7 DEF Covering
  <2>2. QED
    BY <1>5, <2>1, NoMoreSent
<1>8. QED
  BY <1>6, <1>7

LEMMA InitSent == Init => FewSent
<1> SUFFICES ASSUME Init, NEW p \in People PROVE Sent(p)
  BY DEF FewSent
<1>1. Covering(p) = {} /\ Sending(p) = {}
  BY RestSends DEF Init, Covering, Sending, NoRow
<1>2. Cardinality(Covering(p)) = 0 /\ Cardinality(Sending(p)) = 0
  BY <1>1, FS_EmptySet
<1>3. QED
  BY <1>2, SentSizes DEF Sent

LEMMA NextSent == Typed /\ FewSent /\ [Next]_vars => FewSent'
<1> SUFFICES ASSUME Typed, FewSent, [Next]_vars, NEW p \in People PROVE Sent(p)'
  BY DEF FewSent
<1>0. Sent(p)
  BY DEF FewSent
<1>1. CASE Next
  BY <1>0, <1>1, NextCases, ActionSent, PassingSent, InsertsSent, Zenon
<1>2. CASE UNCHANGED vars
  <2>1. Covering(p)' \subseteq Covering(p) /\ Sending(p)' \subseteq Sending(p)
    BY <1>2 DEF vars, Covering, Sending
  <2>2. QED
    BY <1>0, <2>1, NoMoreSent
<1>3. QED
  BY <1>1, <1>2

\* Whatever becomes of people and assignments, nobody is sent by requests or by the job to
\* cover more occupations at once than there are handlers that can have chosen them meanwhile.
THEOREM NobodyCoversMore == Spec => []CoversOnce
<1>1. Typed /\ FewSent => CoversOnce
  <2> SUFFICES ASSUME Typed, FewSent, NEW p \in People
               PROVE  Cardinality({r \in Current(p) : assignment[r].auto}) <= Cardinality(Handlers)
    BY DEF CoversOnce
  <2>1. {r \in Current(p) : assignment[r].auto} = Covering(p)
    BY DEF Current, Covering
  <2>2. Sent(p)
    BY DEF FewSent
  <2>3. Cardinality(Covering(p)) <= Cardinality(Handlers)
    BY <2>2, SentSizes DEF Sent
  <2>4. QED
    BY <2>1, <2>3, Zenon
<1>2. Init => Typed /\ FewSent
  BY InitTyped, InitSent
<1>3. Typed /\ FewSent /\ [Next]_vars => (Typed /\ FewSent)'
  BY NextTyped, NextSent
<1>4. QED
  BY <1>1, <1>2, <1>3, PTL DEF Spec

============================================================================
