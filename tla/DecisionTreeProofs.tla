------------------------- MODULE DecisionTreeProofs -------------------------
(***************************************************************************)
(* Proofs about DecisionTree, for any camps, trainings, crashes, faults.   *)
(* OneActive: what interrupts a training between its two rewrites leaves a *)
(* camp with no active model, never with two; and what a training is about *)
(* to write is as old as its last read, which nothing has made stale while *)
(* trainings follow one another; a read that fails hides models, which     *)
(* only matters to what a training is to deactivate.  Served: a camp the   *)
(* start has seen to has a model as long as no training is spoilt, and who *)
(* asks there is advised unless a training is at work, a read of its own   *)
(* fails or the models are unsound.  ClearDecisions: a walk down a tree is *)
(* recursive, and what it yields is proved from the leaves up, by the      *)
(* largest position that would yield anything else; the rest is what two   *)
(* roundings leave of a share.                                             *)
(***************************************************************************)
EXTENDS DecisionTree, FiniteSetTheorems, SequenceTheorems, WellFoundedInduction, TLAPS

\* A record is made of its fields.
IsRecord(r) ==
    r = [id |-> r.id, camp |-> r.camp, name |-> r.name, active |-> r.active, sound |-> r.sound]

\* Any two active records of a camp and name are the same.
Single(records) ==
    /\ \A r \in records : IsRecord(r)
    /\ \A r, s \in records :
           r.active /\ s.active /\ r.camp = s.camp /\ r.name = s.name => r = s

Stages == {"idle", "deactivate", "create", "open", "write"}

\* The local state of a training, as its steps leave it.
LocalOK(l) ==
    /\ l = [pc |-> l.pc, camp |-> l.camp, name |-> l.name, out |-> l.out, then |-> l.then]
    /\ l.pc \in Stages /\ l.then \in {"idle", "create"}

\* Nothing active is left of what a training replaces, once it has rewritten
\* the file; what it is about to write has a single active model as well.
WorkOK(l) ==
    /\ l.pc = "create" => Matches(readIndex, l.camp, l.name) = {}
    /\ l.pc \in {"open", "write"} =>
           /\ Single(l.out)
           /\ l.then = "create" => Matches(l.out, l.camp, l.name) = {}

Shape ==
    /\ DOMAIN trainer = Trainers
    /\ \A t \in Trainers : LocalOK(trainer[t])

OneAtATime == \A t, u \in Trainers : trainer[t].pc # "idle" /\ trainer[u].pc # "idle" => t = u

Undisturbed ==
    /\ OneAtATime
    /\ Single(readIndex)
    /\ \A t \in Trainers : WorkOK(trainer[t])

IInv == Shape /\ (~disturbed => Undisturbed)

-----------------------------------------------------------------------------
(* What a training makes of the records it reads.                          *)

LEMMA SingleEmpty == Single({})
BY DEF Single

LEMMA MatchesEmpty == \A camp, name : Matches({}, camp, name) = {}
BY DEF Matches

\* Deactivating leaves single what was so, and nothing active of the camp and name.
LEMMA Deactivation ==
  ASSUME NEW R, Single(R), NEW camp, NEW name,
         NEW old, old = Matches(R, camp, name),
         NEW S, S = (R \ old) \cup {Inactive(r) : r \in old}
  PROVE  Single(S) /\ Matches(S, camp, name) = {}
<1>1. \A r \in old : IsRecord(Inactive(r)) /\ ~Inactive(r).active
  BY DEF Inactive, IsRecord
<1>2. \A q \in S : q \in R \ old \/ (IsRecord(q) /\ ~q.active)
  BY <1>1
<1>3. Single(S)
  BY <1>2 DEF Single
<1>4. \A q \in R \ old : ~(q.camp = camp /\ q.name = name /\ q.active)
  BY DEF Matches
<1>. QED  BY <1>2, <1>3, <1>4 DEF Matches

\* Adding an active record where nothing is active keeps the rest single.
LEMMA Addition ==
  ASSUME NEW R, Single(R), NEW camp, NEW name, Matches(R, camp, name) = {}, NEW id, NEW sound
  PROVE  Single(R \cup {[id |-> id, camp |-> camp, name |-> name, active |-> TRUE, sound |-> sound]})
<1>. DEFINE new == [id |-> id, camp |-> camp, name |-> name, active |-> TRUE, sound |-> sound]
<1>1. IsRecord(new) /\ new.camp = camp /\ new.name = name
  BY DEF IsRecord
<1>2. \A r \in R : ~(r.active /\ r.camp = camp /\ r.name = name)
  BY DEF Matches
<1>. HIDE DEF new
<1>3. Single(R \cup {new})
  BY <1>1, <1>2 DEF Single
<1>. QED  BY <1>3 DEF new

-----------------------------------------------------------------------------
(* What a step does to the local states.                                   *)

\* Only the local state of t changes, and it becomes l.
Becomes(t, l) ==
    /\ trainer'[t] = l
    /\ \A u \in Trainers \ {t} : trainer'[u] = trainer[u]
    /\ DOMAIN trainer' = Trainers

LEMMA RestingOK == LocalOK(Resting) /\ Resting.pc = "idle"
BY DEF LocalOK, Resting, Stages

LEMMA StartsBecomes ==
  ASSUME Shape, NEW t \in Trainers, NEW camp, NEW name, Starts(t, camp, name)
  PROVE  Becomes(t, [pc |-> "deactivate", camp |-> camp, name |-> name, out |-> {}, then |-> "idle"])
BY DEF Starts, Becomes, Shape, Resting

LEMMA RewritesBecomes ==
  ASSUME Shape, NEW t \in Trainers, NEW records, NEW then, Rewrites(t, records, then)
  PROVE  Becomes(t, [pc |-> "open", camp |-> trainer[t].camp, name |-> trainer[t].name,
                     out |-> records, then |-> then])
<1>1. trainer' = [trainer EXCEPT ![t].pc = "open", ![t].out = records, ![t].then = then]
  BY DEF Rewrites
<1>2. trainer[t] = [pc |-> trainer[t].pc, camp |-> trainer[t].camp, name |-> trainer[t].name,
                    out |-> trainer[t].out, then |-> trainer[t].then]
  BY DEF Shape, LocalOK
<1>. QED  BY <1>1, <1>2 DEF Becomes, Shape

LEMMA PcBecomes ==
  ASSUME Shape, NEW t \in Trainers, NEW pc, trainer' = [trainer EXCEPT ![t].pc = pc]
  PROVE  Becomes(t, [pc |-> pc, camp |-> trainer[t].camp, name |-> trainer[t].name,
                     out |-> trainer[t].out, then |-> trainer[t].then])
<1>2. trainer[t] = [pc |-> trainer[t].pc, camp |-> trainer[t].camp, name |-> trainer[t].name,
                    out |-> trainer[t].out, then |-> trainer[t].then]
  BY DEF Shape, LocalOK
<1>. QED  BY <1>2 DEF Becomes, Shape

\* A training that has written goes on to what it was to do next.
LEMMA WritesBecomes ==
  ASSUME Shape, NEW t \in Trainers, Writes(t)
  PROVE  Becomes(t, IF trainer[t].then = "idle" THEN Resting
                    ELSE [pc |-> "create", camp |-> trainer[t].camp, name |-> trainer[t].name,
                          out |-> {}, then |-> "idle"])
<1>1. trainer[t] = [pc |-> trainer[t].pc, camp |-> trainer[t].camp, name |-> trainer[t].name,
                    out |-> trainer[t].out, then |-> trainer[t].then]
      /\ trainer[t].then \in {"idle", "create"}
  BY DEF Shape, LocalOK
<1>2. trainer' = [trainer EXCEPT ![t] =
                     IF trainer[t].then = "idle" THEN Resting
                     ELSE [@ EXCEPT !.pc = trainer[t].then, !.out = {}, !.then = "idle"]]
  BY DEF Writes
<1>3. CASE trainer[t].then = "idle"
  BY <1>2, <1>3 DEF Becomes, Shape
<1>4. CASE trainer[t].then = "create"
  <2>1. trainer' = [trainer EXCEPT ![t] =
                       [@ EXCEPT !.pc = trainer[t].then, !.out = {}, !.then = "idle"]]
    BY <1>2, <1>4
  <2>2. trainer'[t] = [pc |-> trainer[t].then, camp |-> trainer[t].camp, name |-> trainer[t].name,
                       out |-> {}, then |-> "idle"]
    BY <1>1, <2>1 DEF Shape
  <2>. QED  BY <1>4, <2>1, <2>2 DEF Becomes, Shape
<1>. QED  BY <1>1, <1>3, <1>4

\* The steps that touch neither the file nor a training.
LEMMA Unmoved ==
  ASSUME IInv, UNCHANGED <<index, trainer, disturbed>>
  PROVE  IInv'
BY DEF IInv, Shape, Undisturbed, OneAtATime, WorkOK, readIndex

\* A step of the one training at work keeps what is promised of the rest.
LEMMA Alone ==
  ASSUME Shape, OneAtATime, NEW t \in Trainers, trainer[t].pc # "idle", NEW l,
         Becomes(t, l)
  PROVE  /\ OneAtATime'
         /\ \A u \in Trainers \ {t} : trainer'[u].pc = "idle"
BY DEF Becomes, OneAtATime

LEMMA BecomesShape ==
  ASSUME Shape, NEW t \in Trainers, NEW l, Becomes(t, l), LocalOK(l)
  PROVE  Shape'
BY DEF Becomes, Shape

\* A training that starts: others at work are noticed.
LEMMA StartsStep ==
  ASSUME IInv, NEW t \in Trainers, NEW camp, NEW name, Starts(t, camp, name),
         UNCHANGED index
  PROVE  IInv'
<1>. DEFINE l == [pc |-> "deactivate", camp |-> camp, name |-> name, out |-> {}, then |-> "idle"]
<1>1. Becomes(t, l)
  BY StartsBecomes DEF IInv
<1>2. LocalOK(l) /\ l.pc = "deactivate"
  BY DEF LocalOK, Stages
<1>. HIDE DEF l
<1>3. Shape'
  BY <1>1, <1>2, BecomesShape DEF IInv
<1>4. ASSUME ~disturbed' PROVE Undisturbed'
  <2>1. ~disturbed /\ Quiet
    BY <1>4 DEF Starts
  <2>2. \A u \in Trainers \ {t} : trainer'[u].pc = "idle"
    BY <1>1, <2>1 DEF Becomes, Quiet, Idle
  <2>3. OneAtATime'
    BY <2>2 DEF OneAtATime
  <2>4. Single(readIndex)'
    BY <2>1 DEF IInv, Undisturbed, readIndex
  <2>5. \A u \in Trainers : WorkOK(trainer[u])'
    BY <1>1, <1>2, <2>2 DEF WorkOK, Becomes
  <2>. QED  BY <2>3, <2>4, <2>5 DEF Undisturbed
<1>. QED  BY <1>3, <1>4 DEF IInv

LEMMA DeactivatesStep ==
  ASSUME IInv, NEW t \in Trainers, Deactivates(t)
  PROVE  IInv'
<1>0. PICK records \in {readIndex, {}} :
        /\ IF Replaced(records, t) = {}
           THEN trainer' = [trainer EXCEPT ![t].pc = "create"]
           ELSE Rewrites(t, (records \ Replaced(records, t))
                              \cup {Inactive(r) : r \in Replaced(records, t)}, "create")
        /\ disturbed' = (disturbed \/ Replaced(records, t) # Replaced(readIndex, t))
  BY DEF Deactivates
<1>. DEFINE old == Replaced(records, t)
            new == (records \ old) \cup {Inactive(r) : r \in old}
<1>1. CASE old = {}
  <2>. DEFINE l == [pc |-> "create", camp |-> trainer[t].camp, name |-> trainer[t].name,
                    out |-> trainer[t].out, then |-> trainer[t].then]
  <2>1. Becomes(t, l)
    BY <1>0, <1>1, PcBecomes DEF IInv
  <2>2. LocalOK(l)
    BY DEF LocalOK, Stages, IInv, Shape
  <2>3. Shape'
    BY <2>1, <2>2, BecomesShape DEF IInv
  <2>4. ASSUME ~disturbed' PROVE Undisturbed'
    <3>1. Undisturbed /\ readIndex' = readIndex
      BY <1>0, <2>4 DEF Deactivates, IInv, readIndex
    <3>2. OneAtATime' /\ \A u \in Trainers \ {t} : trainer'[u].pc = "idle"
      BY <2>1, <3>1, Alone DEF Deactivates, IInv, Undisturbed
    <3>3. Matches(readIndex, trainer[t].camp, trainer[t].name) = {}
      BY <1>0, <1>1, <2>4 DEF Replaced
    <3>4. WorkOK(trainer[t])'
      BY <2>1, <3>1, <3>3 DEF WorkOK, Becomes
    <3>. QED  BY <3>1, <3>2, <3>4 DEF Undisturbed, WorkOK
  <2>. QED  BY <2>3, <2>4 DEF IInv
<1>2. CASE old # {}
  <2>. DEFINE l == [pc |-> "open", camp |-> trainer[t].camp, name |-> trainer[t].name,
                    out |-> new, then |-> "create"]
  <2>1. Becomes(t, l)
    BY <1>0, <1>2, RewritesBecomes DEF IInv
  <2>2. LocalOK(l)
    BY DEF LocalOK, Stages
  <2>3. Shape'
    BY <2>1, <2>2, BecomesShape DEF IInv
  <2>4. ASSUME ~disturbed' PROVE Undisturbed'
    <3>1. Undisturbed /\ readIndex' = readIndex
      BY <1>0, <2>4 DEF Deactivates, IInv, readIndex
    <3>2. OneAtATime' /\ \A u \in Trainers \ {t} : trainer'[u].pc = "idle"
      BY <2>1, <3>1, Alone DEF Deactivates, IInv, Undisturbed
    <3>3. Single(records)
      BY <1>0, <3>1, SingleEmpty DEF Undisturbed
    <3>4. Single(new) /\ Matches(new, trainer[t].camp, trainer[t].name) = {}
      BY <3>3, Deactivation DEF Replaced
    <3>5. WorkOK(trainer[t])'
      BY <2>1, <3>4 DEF WorkOK, Becomes
    <3>. QED  BY <3>1, <3>2, <3>5 DEF Undisturbed, WorkOK
  <2>. QED  BY <2>3, <2>4 DEF IInv
<1>. QED  BY <1>1, <1>2

LEMMA CreatesStep ==
  ASSUME IInv, NEW t \in Trainers, Creates(t)
  PROVE  IInv'
<1>0. PICK records \in {readIndex, {}}, sound \in Soundness :
        Rewrites(t, records \cup {[id     |-> nextId(records),
                                  camp   |-> trainer[t].camp,
                                  name   |-> trainer[t].name,
                                  active |-> TRUE,
                                  sound  |-> sound]}, "idle")
  BY DEF Creates
<1>. DEFINE new == records \cup {[id     |-> nextId(records),
                                 camp   |-> trainer[t].camp,
                                 name   |-> trainer[t].name,
                                 active |-> TRUE,
                                 sound  |-> sound]}
            l == [pc |-> "open", camp |-> trainer[t].camp, name |-> trainer[t].name,
                  out |-> new, then |-> "idle"]
<1>1. Becomes(t, l)
  BY <1>0, RewritesBecomes DEF IInv
<1>2. LocalOK(l)
  BY DEF LocalOK, Stages
<1>3. Shape'
  BY <1>1, <1>2, BecomesShape DEF IInv
<1>4. ASSUME ~disturbed' PROVE Undisturbed'
  <2>1. Undisturbed /\ readIndex' = readIndex
    BY <1>4 DEF Creates, IInv, readIndex
  <2>2. OneAtATime' /\ \A u \in Trainers \ {t} : trainer'[u].pc = "idle"
    BY <1>1, <2>1, Alone DEF Creates, IInv, Undisturbed
  <2>3. Matches(readIndex, trainer[t].camp, trainer[t].name) = {} /\ Single(readIndex)
    BY <2>1 DEF Undisturbed, WorkOK, Creates
  <2>4. Matches(records, trainer[t].camp, trainer[t].name) = {} /\ Single(records)
    BY <1>0, <2>3, SingleEmpty, MatchesEmpty
  <2>5. Single(new)
    BY <2>4, Addition
  <2>6. WorkOK(trainer[t])'
    BY <1>1, <2>5 DEF WorkOK, Becomes
  <2>. QED  BY <2>1, <2>2, <2>6 DEF Undisturbed, WorkOK
<1>. QED  BY <1>3, <1>4 DEF IInv

LEMMA TruncatesStep ==
  ASSUME IInv, NEW t \in Trainers, Truncates(t)
  PROVE  IInv'
<1>. DEFINE l == [pc |-> "write", camp |-> trainer[t].camp, name |-> trainer[t].name,
                  out |-> trainer[t].out, then |-> trainer[t].then]
<1>1. Becomes(t, l)
  BY PcBecomes DEF Truncates, IInv
<1>2. LocalOK(l)
  BY DEF LocalOK, Stages, IInv, Shape
<1>3. Shape'
  BY <1>1, <1>2, BecomesShape DEF IInv
<1>4. ASSUME ~disturbed' PROVE Undisturbed'
  <2>1. Undisturbed /\ readIndex' = {}
    BY <1>4 DEF Truncates, IInv, readIndex
  <2>2. OneAtATime' /\ \A u \in Trainers \ {t} : trainer'[u].pc = "idle"
    BY <1>1, <2>1, Alone DEF Truncates, IInv, Undisturbed
  <2>3. WorkOK(trainer[t])'
    <3>1. /\ Single(trainer[t].out)
          /\ trainer[t].then = "create" =>
                 Matches(trainer[t].out, trainer[t].camp, trainer[t].name) = {}
      BY <2>1 DEF Undisturbed, WorkOK, Truncates
    <3>2. trainer'[t] = l
      BY <1>1 DEF Becomes
    <3>3. /\ trainer'[t].pc = "write" /\ trainer'[t].then = trainer[t].then
          /\ trainer'[t].camp = trainer[t].camp /\ trainer'[t].name = trainer[t].name
          /\ trainer'[t].out = trainer[t].out
      BY <3>2
    <3>. QED  BY <3>1, <3>3 DEF WorkOK, Single, Matches
  <2>. QED  BY <2>1, <2>2, <2>3, SingleEmpty DEF Undisturbed, WorkOK
<1>. QED  BY <1>3, <1>4 DEF IInv

LEMMA WritesStep ==
  ASSUME IInv, NEW t \in Trainers, Writes(t)
  PROVE  IInv'
<1>. DEFINE l == IF trainer[t].then = "idle" THEN Resting
                 ELSE [pc |-> "create", camp |-> trainer[t].camp, name |-> trainer[t].name,
                       out |-> {}, then |-> "idle"]
<1>1. Becomes(t, l)
  BY WritesBecomes DEF IInv
<1>2. LocalOK(l) /\ l.pc \in {"idle", "create"}
  BY RestingOK DEF LocalOK, Stages
<1>3. Shape'
  BY <1>1, <1>2, BecomesShape DEF IInv
<1>4. ASSUME ~disturbed' PROVE Undisturbed'
  <2>1. Undisturbed
    BY <1>4 DEF Writes, IInv
  <2>2. OneAtATime' /\ \A u \in Trainers \ {t} : trainer'[u].pc = "idle"
    BY <1>1, <2>1, Alone DEF Writes, IInv, Undisturbed
  <2>3. readIndex' = trainer[t].out \/ readIndex' = {}
    BY DEF Writes, readIndex
  <2>4. /\ Single(trainer[t].out)
        /\ trainer[t].then = "create" =>
               Matches(trainer[t].out, trainer[t].camp, trainer[t].name) = {}
    BY <2>1 DEF Undisturbed, WorkOK, Writes
  <2>5. Single(readIndex)'
    BY <2>3, <2>4, SingleEmpty
  <2>6. WorkOK(trainer[t])'
    <3>1. trainer[t].then \in {"idle", "create"}
      BY DEF IInv, Shape, LocalOK
    <3>2. CASE trainer[t].then = "idle"
      BY <1>1, <3>2, RestingOK DEF Becomes, WorkOK
    <3>3. CASE trainer[t].then = "create"
      <4>1. Matches(readIndex', trainer[t].camp, trainer[t].name) = {}
        BY <2>3, <2>4, <3>3, MatchesEmpty
      <4>2. /\ trainer'[t].pc = "create"
            /\ trainer'[t].camp = trainer[t].camp /\ trainer'[t].name = trainer[t].name
        BY <1>1, <3>3 DEF Becomes
      <4>. QED  BY <4>1, <4>2 DEF WorkOK, Matches
    <3>. QED  BY <3>1, <3>2, <3>3
  <2>. QED  BY <2>2, <2>5, <2>6 DEF Undisturbed, WorkOK
<1>. QED  BY <1>3, <1>4 DEF IInv

\* What stops leaves the file as it is, or with a text that nobody can read.
LEMMA FailsStep ==
  ASSUME IInv, NEW t \in Trainers, Fails(t)
  PROVE  IInv'
<1>1. Becomes(t, Resting)
  BY DEF Fails, Becomes, IInv, Shape
<1>2. Shape'
  BY <1>1, RestingOK, BecomesShape DEF IInv
<1>3. (readIndex' = readIndex \/ readIndex' = {}) /\ disturbed' = disturbed
  BY DEF Fails, readIndex
<1>4. ASSUME ~disturbed' PROVE Undisturbed'
  <2>1. Undisturbed
    BY <1>3, <1>4 DEF IInv
  <2>2. OneAtATime' /\ \A u \in Trainers \ {t} : trainer'[u].pc = "idle"
    BY <1>1, <2>1, Alone DEF Fails, IInv, Undisturbed
  <2>3. WorkOK(trainer[t])'
    BY <1>1, RestingOK DEF WorkOK, Becomes
  <2>4. Single(readIndex)'
    BY <1>3, <2>1, SingleEmpty DEF Undisturbed
  <2>. QED  BY <2>2, <2>3, <2>4 DEF Undisturbed, WorkOK
<1>. QED  BY <1>2, <1>4 DEF IInv

LEMMA CrashesStep ==
  ASSUME IInv, Crashes
  PROVE  IInv'
<1>1. trainer' = [t \in Trainers |-> Resting]
  BY DEF Crashes
<1>2. Shape'
  BY <1>1, RestingOK DEF Shape
<1>3. readIndex' = readIndex /\ disturbed' = disturbed
  BY DEF Crashes, readIndex
<1>4. ASSUME ~disturbed' PROVE Undisturbed'
  BY <1>1, <1>3, <1>4, RestingOK DEF IInv, Undisturbed, OneAtATime, WorkOK
<1>. QED  BY <1>2, <1>4 DEF IInv

-----------------------------------------------------------------------------
LEMMA InitIInv == Init => IInv
<1>. SUFFICES ASSUME Init PROVE IInv
  OBVIOUS
<1>1. trainer = [t \in Trainers |-> Resting] /\ readIndex = {}
  BY DEF Init, readIndex
<1>2. Shape
  BY <1>1, RestingOK DEF Shape
<1>3. Undisturbed
  BY <1>1, RestingOK, SingleEmpty DEF Undisturbed, OneAtATime, WorkOK
<1>. QED  BY <1>2, <1>3 DEF IInv

LEMMA StepIInv == IInv /\ [Next]_vars => IInv'
<1>. SUFFICES ASSUME IInv, [Next]_vars PROVE IInv'
  OBVIOUS
<1>1. ASSUME NEW t \in Trainers, trainModel(t) PROVE IInv'
  <2>. PICK camp \in Known, name \in Names : Starts(t, camp, name)
    BY <1>1 DEF trainModel
  <2>. QED  BY <1>1, StartsStep DEF trainModel
<1>2. CASE trainFromFileIfMissingModel
  <2>0. PICK records \in {readIndex, {}} :
          IF Missing(records, Head(todo))
          THEN Starts(Booter, Head(todo).camp, Head(todo).name)
          ELSE UNCHANGED <<trainer, reader, spoilt, disturbed>>
    BY <1>2 DEF trainFromFileIfMissingModel
  <2>1. CASE Missing(records, Head(todo))
    <3>1. Booter \in Trainers
      BY NamesAssumption
    <3>2. Starts(Booter, Head(todo).camp, Head(todo).name) /\ UNCHANGED index
      BY <1>2, <2>0, <2>1 DEF trainFromFileIfMissingModel
    <3>. QED  BY <3>1, <3>2, StartsStep
  <2>2. CASE ~Missing(records, Head(todo))
    BY <1>2, <2>0, <2>2, Unmoved DEF trainFromFileIfMissingModel
  <2>. QED  BY <2>1, <2>2
<1>3. ASSUME NEW t \in Trainers, Works(t) PROVE IInv'
  BY <1>3, DeactivatesStep, CreatesStep, TruncatesStep, WritesStep DEF Works
<1>4. ASSUME NEW t \in Trainers, Fails(t) PROVE IInv'
  BY <1>4, FailsStep
<1>5. CASE Crashes
  BY <1>5, CrashesStep
<1>6. CASE Boots \/ Listens \/ GivesUp
  BY <1>6, Unmoved DEF Boots, Listens, GivesUp
<1>7. CASE NewCamp \/ Asks \/ Answers
  BY <1>7, Unmoved DEF NewCamp, Asks, Answers
<1>8. CASE ReadsModel \/ ReadsRole \/ Misreads
  BY <1>8, Unmoved DEF ReadsModel, ReadsRole, Misreads
<1>9. CASE UNCHANGED vars
  BY <1>9, Unmoved DEF vars
<1>. QED  BY <1>1, <1>2, <1>3, <1>4, <1>5, <1>6, <1>7, <1>8, <1>9 DEF Next, Starting

\* Any two of the records that match are the same, so there is one at most.
LEMMA IInvOneActive == IInv => OneActive
<1>. SUFFICES ASSUME IInv, ~disturbed, NEW camp \in Camps, NEW name \in Names
              PROVE  Cardinality(findActiveByModelName(camp, name)) <= 1
  BY DEF OneActive
<1>. DEFINE found == findActiveByModelName(camp, name)
<1>1. \A r, s \in found : r = s
  BY DEF findActiveByModelName, Matches, IInv, Undisturbed, Single
<1>2. CASE found = {}
  BY <1>2, FS_EmptySet
<1>3. CASE found # {}
  <2>. PICK r \in found : TRUE
    BY <1>3
  <2>1. found = {r}
    BY <1>1
  <2>2. Cardinality({r}) = 1
    BY FS_Singleton
  <2>. QED  BY <2>1, <2>2
<1>. QED  BY <1>2, <1>3

\* While trainings follow one another and see the models they replace, a camp has one
\* active model of a name at most, for any camps and trainings and whatever crashes,
\* failing writes and the other failing reads leave of the index
\* (decisionTree.repository.ts:15-70).
THEOREM OneModelActive == Spec => []OneActive
<1>. QED  BY InitIInv, StepIInv, IInvOneActive, PTL DEF Spec


-----------------------------------------------------------------------------
(* That every camp is served.  What the start of the server has seen to, and *)
(* what a training that is not spoilt replaces, is always there but for the  *)
(* model being replaced, in the file or in what is about to be written.      *)

\* The models that are to be there: those of all camps but what the start has yet
\* to come to, and afterwards those of the camps it saw to.
Ahead == {<<todo[i].camp, todo[i].name>> : i \in DOMAIN todo}

Due == IF server = "booting" THEN (Known \X Names) \ Ahead ELSE booted \X Names

Covers(records, pairs) ==
    \A camp \in Camps, name \in Names :
        <<camp, name>> \in pairs => Matches(records, camp, name) # {}

Own(l) == {<<l.camp, l.name>>}

\* What a training promises while it is at work.
Keeps(l) ==
    /\ l.pc \in {"deactivate", "create"} => Covers(readIndex, Due \ Own(l))
    /\ l.pc \in {"open", "write"} => Covers(l.out, IF l.then = "idle" THEN Due ELSE Due \ Own(l))
    /\ l.pc = "write" => index.text = "empty"

Covered ==
    /\ OneAtATime
    /\ Quiet => Covers(readIndex, Due)
    /\ \A t \in Trainers : Keeps(trainer[t])

Serving ==
    /\ camps \in Seq(Camps) /\ todo \in Seq([camp : Camps, name : Names])
    /\ booted \subseteq Camps
    /\ server = "down" => Quiet
    /\ server # "down" /\ ~spoilt => Covered
    /\ server \in {"down", "booting", "listening"}

SoundFor(camp) == \A r \in readIndex : r.camp = camp /\ r.active => r.sound

\* A request that no training has met finds all quiet, its camp seen to and its models sound.
Reading ==
    /\ reader = [pc |-> reader.pc, camp |-> reader.camp, clash |-> reader.clash,
                 advice |-> reader.advice]
    /\ reader.pc # "idle" =>
          /\ server = "listening" /\ reader.camp \in Camps
          /\ reader.clash \/ (Quiet /\ ~spoilt /\ reader.camp \in booted /\ SoundFor(reader.camp))
    /\ reader.pc = "unadvised" => reader.clash

LEMMA CoversLess ==
  ASSUME NEW R, NEW P, NEW Q, Covers(R, P), Q \subseteq P
  PROVE  Covers(R, Q)
BY DEF Covers

\* Deactivating takes nothing from the other camps and names.
LEMMA DeactivationCovers ==
  ASSUME NEW R, NEW P, NEW camp, NEW name, Covers(R, P),
         NEW old, old = Matches(R, camp, name),
         NEW S, S = (R \ old) \cup {Inactive(r) : r \in old}
  PROVE  Covers(S, P \ {<<camp, name>>})
<1>. SUFFICES ASSUME NEW c \in Camps, NEW n \in Names, <<c, n>> \in P, <<c, n>> # <<camp, name>>
              PROVE  Matches(S, c, n) # {}
  BY DEF Covers
<1>1. c # camp \/ n # name
  OBVIOUS
<1>2. PICK r \in R : r.camp = c /\ r.name = n /\ r.active
  BY DEF Covers, Matches
<1>3. r \in S
  BY <1>1, <1>2 DEF Matches
<1>. QED  BY <1>2, <1>3 DEF Matches

LEMMA AdditionCovers ==
  ASSUME NEW R, NEW P, NEW camp, NEW name, Covers(R, P \ {<<camp, name>>}), NEW id, NEW sound
  PROVE  Covers(R \cup {[id |-> id, camp |-> camp, name |-> name, active |-> TRUE, sound |-> sound]}, P)
<1>. DEFINE new == [id |-> id, camp |-> camp, name |-> name, active |-> TRUE, sound |-> sound]
<1>1. new.camp = camp /\ new.name = name /\ new.active
  OBVIOUS
<1>. HIDE DEF new
<1>. SUFFICES ASSUME NEW c \in Camps, NEW n \in Names, <<c, n>> \in P
              PROVE  Matches(R \cup {new}, c, n) # {}
  BY DEF Covers, new
<1>2. CASE <<c, n>> = <<camp, name>>
  <2>1. c = camp /\ n = name
    BY <1>2
  <2>. QED  BY <1>1, <2>1 DEF Matches
<1>3. CASE <<c, n>> # <<camp, name>>
  <2>1. PICK r \in R : r.camp = c /\ r.name = n /\ r.active
    BY <1>3 DEF Covers, Matches
  <2>. QED  BY <2>1 DEF Matches
<1>. QED  BY <1>2, <1>3

-----------------------------------------------------------------------------
(* A step of the training that is alone at work.                           *)

\* It keeps what it promises, or rests with all that is due in the file.
LEMMA WorkCovers ==
  ASSUME Shape, Covered, NEW t \in Trainers, NEW l, LocalOK(l), trainer[t].pc # "idle",
         Becomes(t, l), Due' = Due,
         l.pc = "idle" => Covers(readIndex', Due),
         l.pc \in {"deactivate", "create"} => Covers(readIndex', Due \ Own(l)),
         l.pc \in {"open", "write"} => Covers(l.out, IF l.then = "idle" THEN Due ELSE Due \ Own(l)),
         l.pc = "write" => index'.text = "empty"
  PROVE  Covered'
<1>1. OneAtATime' /\ \A u \in Trainers \ {t} : trainer'[u].pc = "idle"
  BY Alone DEF Covered
<1>2. trainer'[t] = l
  BY DEF Becomes
<1>3. Quiet' => Covers(readIndex', Due')
  BY <1>2 DEF Quiet, Idle
<1>4. ASSUME NEW u \in Trainers PROVE Keeps(trainer[u])'
  <2>1. CASE u = t
    BY <1>2, <2>1 DEF Keeps, Own, Covers, Matches
  <2>2. CASE u # t
    BY <1>1, <2>2 DEF Keeps
  <2>. QED  BY <2>1, <2>2
<1>5. (Quiet => Covers(readIndex, Due))'
  BY <1>3 DEF Covers, Matches
<1>. QED  BY <1>1, <1>4, <1>5 DEF Covered

\* A training that finds nothing to deactivate, for what it can read, writes nothing.
LEMMA DeactivatesCovers ==
  ASSUME Shape, Covered, NEW t \in Trainers, Deactivates(t), Due' = Due
  PROVE  Covered'
<1>0. PICK records \in {readIndex, {}} :
        IF Replaced(records, t) = {}
        THEN trainer' = [trainer EXCEPT ![t].pc = "create"]
        ELSE Rewrites(t, (records \ Replaced(records, t))
                           \cup {Inactive(r) : r \in Replaced(records, t)}, "create")
  BY DEF Deactivates
<1>1. /\ readIndex' = readIndex /\ trainer[t].pc = "deactivate"
      /\ Covers(readIndex, Due \ Own(trainer[t]))
  BY DEF Deactivates, readIndex, Covered, Keeps
<1>2. PICK old : old = Replaced(records, t)
  OBVIOUS
<1>3. PICK new : new = (records \ old) \cup {Inactive(r) : r \in old}
  OBVIOUS
<1>5. CASE old = {}
  <2>1. PICK l : l = [pc |-> "create", camp |-> trainer[t].camp, name |-> trainer[t].name,
                      out |-> trainer[t].out, then |-> trainer[t].then]
    OBVIOUS
  <2>2. Becomes(t, l)
    BY <1>0, <1>2, <1>5, <2>1, PcBecomes
  <2>3. LocalOK(l) /\ l.pc = "create" /\ Own(l) = Own(trainer[t])
    BY <2>1 DEF LocalOK, Stages, Shape, Own
  <2>. QED  BY <1>1, <2>2, <2>3, WorkCovers
<1>6. CASE old # {}
  <2>0. records = readIndex
    BY <1>0, <1>2, <1>6, MatchesEmpty DEF Replaced
  <2>1. PICK l : l = [pc |-> "open", camp |-> trainer[t].camp, name |-> trainer[t].name,
                      out |-> new, then |-> "create"]
    OBVIOUS
  <2>2. Becomes(t, l)
    BY <1>0, <1>2, <1>3, <1>6, <2>1, RewritesBecomes
  <2>3. LocalOK(l) /\ l.pc = "open" /\ l.then = "create" /\ l.out = new /\ Own(l) = Own(trainer[t])
    BY <2>1 DEF LocalOK, Stages, Own
  <2>4. Covers(new, Due \ Own(trainer[t]))
    <3>1. old = Matches(records, trainer[t].camp, trainer[t].name) /\ Covers(records, Due \ Own(trainer[t]))
      BY <1>1, <1>2, <2>0 DEF Replaced
    <3>2. Covers(new, (Due \ Own(trainer[t])) \ {<<trainer[t].camp, trainer[t].name>>})
      BY <1>3, <3>1, DeactivationCovers
    <3>3. (Due \ Own(trainer[t])) \ {<<trainer[t].camp, trainer[t].name>>} = Due \ Own(trainer[t])
      BY DEF Own
    <3>. QED  BY <3>2, <3>3
  <2>. QED  BY <1>1, <2>2, <2>3, <2>4, WorkCovers
<1>. QED  BY <1>5, <1>6

\* A training that adds its model to what is there.
LEMMA CreatesCovers ==
  ASSUME Shape, Covered, NEW t \in Trainers, Creates(t), ~spoilt', Due' = Due
  PROVE  Covered'
<1>0. PICK sound : Rewrites(t, readIndex \cup {[id     |-> nextId(readIndex),
                                                camp   |-> trainer[t].camp,
                                                name   |-> trainer[t].name,
                                                active |-> TRUE,
                                                sound  |-> sound]}, "idle")
  BY DEF Creates
<1>1. /\ readIndex' = readIndex /\ trainer[t].pc = "create"
      /\ Covers(readIndex, Due \ Own(trainer[t]))
  BY DEF Creates, readIndex, Covered, Keeps
<1>2. PICK new : new = readIndex \cup {[id |-> nextId(readIndex), camp |-> trainer[t].camp,
                                        name |-> trainer[t].name, active |-> TRUE, sound |-> sound]}
  OBVIOUS
<1>3. Covers(new, Due)
  BY <1>1, <1>2, AdditionCovers DEF Own
<1>4. PICK l : l = [pc |-> "open", camp |-> trainer[t].camp, name |-> trainer[t].name,
                    out |-> new, then |-> "idle"]
  OBVIOUS
<1>5. Becomes(t, l)
  BY <1>0, <1>2, <1>4, RewritesBecomes
<1>6. LocalOK(l) /\ l.pc = "open" /\ l.then = "idle" /\ l.out = new
  BY <1>4 DEF LocalOK, Stages
<1>. QED  BY <1>1, <1>3, <1>5, <1>6, WorkCovers

LEMMA TruncatesCovers ==
  ASSUME Shape, Covered, NEW t \in Trainers, Truncates(t), Due' = Due
  PROVE  Covered'
<1>1. PICK l : l = [pc |-> "write", camp |-> trainer[t].camp, name |-> trainer[t].name,
                    out |-> trainer[t].out, then |-> trainer[t].then]
  OBVIOUS
<1>2. Becomes(t, l)
  BY <1>1, PcBecomes DEF Truncates
<1>3. /\ LocalOK(l) /\ l.pc = "write" /\ Own(l) = Own(trainer[t])
      /\ l.out = trainer[t].out /\ l.then = trainer[t].then
  BY <1>1 DEF LocalOK, Stages, Shape, Own
<1>4. /\ trainer[t].pc = "open" /\ index'.text = "empty"
      /\ Covers(l.out, IF l.then = "idle" THEN Due ELSE Due \ Own(l))
  BY <1>3 DEF Truncates, Covered, Keeps
<1>. QED  BY <1>2, <1>3, <1>4, WorkCovers

\* The file was truncated and nobody else has written: the text is whole.
LEMMA WritesCovers ==
  ASSUME Shape, Covered, NEW t \in Trainers, Writes(t), Due' = Due
  PROVE  Covered'
<1>1. /\ trainer[t].pc = "write" /\ trainer[t].then \in {"idle", "create"}
      /\ readIndex' = trainer[t].out
  <2>1. trainer[t].pc = "write" /\ trainer[t].then \in {"idle", "create"}
    BY DEF Writes, Shape, LocalOK
  <2>2. index.text = "empty"
    BY <2>1 DEF Covered, Keeps
  <2>3. index' = [text |-> "whole", records |-> trainer[t].out]
    BY <2>2 DEF Writes
  <2>. QED  BY <2>1, <2>3 DEF readIndex
<1>2. Covers(readIndex', IF trainer[t].then = "idle" THEN Due ELSE Due \ Own(trainer[t]))
  BY <1>1 DEF Covered, Keeps
<1>3. PICK l : l = IF trainer[t].then = "idle" THEN Resting
                   ELSE [pc |-> "create", camp |-> trainer[t].camp, name |-> trainer[t].name,
                         out |-> {}, then |-> "idle"]
  OBVIOUS
<1>4. Becomes(t, l)
  BY <1>3, WritesBecomes
<1>5. LocalOK(l)
  BY <1>3, RestingOK DEF LocalOK, Stages
<1>6. CASE trainer[t].then = "idle"
  <2>1. l.pc = "idle" /\ Covers(readIndex', Due)
    BY <1>2, <1>3, <1>6, RestingOK
  <2>. QED  BY <1>1, <1>4, <1>5, <2>1, WorkCovers
<1>7. CASE trainer[t].then # "idle"
  <2>1. l.pc = "create" /\ Own(l) = Own(trainer[t]) /\ Covers(readIndex', Due \ Own(l))
    BY <1>2, <1>3, <1>7 DEF Own
  <2>. QED  BY <1>1, <1>4, <1>5, <2>1, WorkCovers
<1>. QED  BY <1>6, <1>7

\* A training that starts where all is quiet; what it trains may be missing.
LEMMA StartsCovers ==
  ASSUME Shape, NEW t \in Trainers, NEW camp, NEW name, Starts(t, camp, name), Quiet,
         UNCHANGED index, Covers(readIndex, Due' \ {<<camp, name>>})
  PROVE  Covered'
<1>1. PICK l : l = [pc |-> "deactivate", camp |-> camp, name |-> name, out |-> {}, then |-> "idle"]
  OBVIOUS
<1>2. Becomes(t, l)
  BY <1>1, StartsBecomes
<1>3. trainer'[t] = l /\ l.pc = "deactivate" /\ Own(l) = {<<camp, name>>}
  BY <1>1, <1>2 DEF Becomes, Own
<1>4. \A u \in Trainers \ {t} : trainer'[u].pc = "idle"
  BY <1>2 DEF Becomes, Quiet, Idle
<1>5. OneAtATime' /\ ~Quiet'
  BY <1>3, <1>4 DEF OneAtATime, Quiet, Idle
<1>6. readIndex' = readIndex
  BY DEF readIndex
<1>7. ASSUME NEW u \in Trainers PROVE Keeps(trainer[u])'
  <2>1. CASE u = t
    BY <1>3, <1>6, <2>1 DEF Keeps, Own, Covers, Matches
  <2>2. CASE u # t
    BY <1>4, <2>2 DEF Keeps
  <2>. QED  BY <2>1, <2>2
<1>. QED  BY <1>5, <1>7 DEF Covered


-----------------------------------------------------------------------------
(* The start of the server, its stops, and the requests for advice.        *)

\* The order in which the start sees to the models leaves none out.
LEMMA BootsAhead ==
  ASSUME Serving, Boots
  PROVE  /\ todo' \in Seq([camp : Camps, name : Names])
         /\ (Known \X Names) \subseteq Ahead'
<1>1. /\ camps \in Seq(Camps) /\ Len(camps) \in Nat /\ DOMAIN camps = 1..Len(camps)
      /\ \A i \in 1..Len(camps) : camps[i] \in Camps
  BY DEF Serving
<1>2. PICK n \in Nat : n = Len(camps)
  BY <1>1
<1>3. todo' = [i \in 1..2 * n |-> [camp |-> camps[(i + 1) \div 2],
                                   name |-> IF i % 2 = 1 THEN AdmissionModel ELSE RoleModel]]
  BY <1>2 DEF Boots
<1>4. \A i \in 1..2 * n : (i + 1) \div 2 \in 1..n
  BY <1>2
<1>5. \A i \in 1..2 * n : todo'[i] \in [camp : Camps, name : Names]
  BY <1>1, <1>2, <1>3, <1>4 DEF Names
<1>6. todo' \in [1..2 * n -> [camp : Camps, name : Names]] /\ 2 * n \in Nat
  BY <1>2, <1>3, <1>5
<1>7. todo' \in Seq([camp : Camps, name : Names])
  <2>1. PICK X : X = [camp : Camps, name : Names]
    OBVIOUS
  <2>2. PICK m \in Nat : m = 2 * n
    BY <1>6
  <2>3. todo' \in [1..m -> X]
    BY <1>6, <2>1, <2>2
  <2>4. todo' \in Seq(X)
    BY <2>3, SeqDef
  <2>. QED  BY <2>1, <2>4
<1>8. ASSUME NEW j \in 1..n, NEW name \in Names PROVE <<camps[j], name>> \in Ahead'
  <2>1. 2 * j - 1 \in 1..2 * n /\ 2 * j \in 1..2 * n
    BY <1>2
  <2>2. /\ (2 * j - 1 + 1) \div 2 = j /\ (2 * j - 1) % 2 = 1
        /\ (2 * j + 1) \div 2 = j /\ (2 * j) % 2 = 0
    BY <1>2
  <2>3. /\ todo'[2 * j - 1] = [camp |-> camps[j], name |-> AdmissionModel]
        /\ todo'[2 * j] = [camp |-> camps[j], name |-> RoleModel]
    BY <1>3, <2>1, <2>2
  <2>4. DOMAIN todo' = 1..2 * n
    BY <1>6
  <2>5. CASE name = AdmissionModel
    <3>1. <<camps[j], name>> = <<todo'[2 * j - 1].camp, todo'[2 * j - 1].name>>
      BY <2>3, <2>5
    <3>. QED  BY <2>1, <2>4, <3>1 DEF Ahead
  <2>6. CASE name = RoleModel
    <3>1. <<camps[j], name>> = <<todo'[2 * j].camp, todo'[2 * j].name>>
      BY <2>3, <2>6
    <3>. QED  BY <2>1, <2>4, <3>1 DEF Ahead
  <2>. QED  BY <2>5, <2>6 DEF Names
<1>. QED  BY <1>1, <1>2, <1>7, <1>8 DEF Known

\* Whatever is ahead of the start is its next model or ahead of the rest of it.
LEMMA NextAhead ==
  ASSUME Serving, todo # <<>>, todo' = Tail(todo)
  PROVE  /\ todo' \in Seq([camp : Camps, name : Names])
         /\ Head(todo) \in [camp : Camps, name : Names]
         /\ Ahead \subseteq Ahead' \cup {<<Head(todo).camp, Head(todo).name>>}
<1>1. /\ todo \in Seq([camp : Camps, name : Names]) /\ Len(todo) \in Nat /\ Len(todo) > 0
      /\ DOMAIN todo = 1..Len(todo) /\ Head(todo) = todo[1]
  BY DEF Serving
<1>2. /\ todo' \in Seq([camp : Camps, name : Names]) /\ DOMAIN todo' = 1..(Len(todo) - 1)
      /\ \A i \in 1..(Len(todo) - 1) : todo'[i] = todo[i + 1]
  BY <1>1
<1>3. ASSUME NEW i \in DOMAIN todo, i # 1
      PROVE  <<todo[i].camp, todo[i].name>> \in Ahead'
  <2>1. i - 1 \in 1..(Len(todo) - 1) /\ (i - 1) + 1 = i
    BY <1>1, <1>3
  <2>2. todo'[i - 1] = todo[i]
    BY <1>2, <2>1
  <2>3. PICK k \in DOMAIN todo' : todo'[k] = todo[i]
    BY <1>2, <2>1, <2>2
  <2>4. <<todo[i].camp, todo[i].name>> = <<todo'[k].camp, todo'[k].name>>
    BY <2>3
  <2>. QED  BY <2>4 DEF Ahead
<1>4. Head(todo) \in [camp : Camps, name : Names]
  <2>1. PICK X : X = [camp : Camps, name : Names]
    OBVIOUS
  <2>2. todo \in Seq(X) /\ 1 \in 1..Len(todo)
    BY <1>1, <2>1
  <2>3. todo[1] \in X
    BY <2>2
  <2>. QED  BY <1>1, <2>1, <2>3
<1>. QED  BY <1>1, <1>2, <1>3, <1>4 DEF Ahead

\* Steps that leave the file and the trainings alone.
LEMMA QuietCovers ==
  ASSUME Shape, Quiet, UNCHANGED <<index, trainer>>, Covers(readIndex, Due')
  PROVE  Covered'
<1>1. readIndex' = readIndex /\ Quiet'
  BY DEF readIndex, Quiet, Idle
<1>2. \A t \in Trainers : Keeps(trainer[t])'
  BY DEF Keeps, Quiet, Idle
<1>. QED  BY <1>1, <1>2 DEF Covered, Covers, Matches, OneAtATime, Quiet, Idle

LEMMA SameCovers ==
  ASSUME Covered, UNCHANGED <<index, trainer>>, Due' = Due
  PROVE  Covered'
<1>1. readIndex' = readIndex
  BY DEF readIndex
<1>2. \A R, P : Covers(R, P)' <=> Covers(R, P)
  BY DEF Covers, Matches
<1>. QED  BY <1>1 DEF Covered, Keeps, Covers, Matches, Own, OneAtATime, Quiet, Idle

LEMMA StepServing ==
  ASSUME Shape, Serving, [Next]_vars
  PROVE  Serving'
<1>1. CASE Boots
  <2>1. /\ todo' \in Seq([camp : Camps, name : Names]) /\ Known \X Names \subseteq Ahead'
        /\ server' = "booting" /\ UNCHANGED <<index, trainer, camps, booted>> /\ Quiet
    BY <1>1, BootsAhead DEF Boots, Serving
  <2>2. Due' = {}
    BY <2>1 DEF Due, Known
  <2>3. Covers(readIndex, Due')
    BY <2>2 DEF Covers
  <2>. QED  BY <2>1, <2>3, QuietCovers DEF Serving
<1>2. CASE trainFromFileIfMissingModel
  <2>1. PICK job \in [camp : Camps, name : Names] : job = Head(todo)
    BY <1>2, NextAhead DEF trainFromFileIfMissingModel
  <2>2. /\ todo' \in Seq([camp : Camps, name : Names])
        /\ Ahead \subseteq Ahead' \cup {<<job.camp, job.name>>}
        /\ UNCHANGED <<index, server, camps, booted>> /\ server = "booting" /\ Quiet
    BY <1>2, <2>1, NextAhead DEF trainFromFileIfMissingModel
  <2>3. Due' \ {<<job.camp, job.name>>} \subseteq Due
    BY <2>2 DEF Due, Known
  <2>4. ~spoilt => Covers(readIndex, Due' \ {<<job.camp, job.name>>})
    BY <2>2, <2>3, CoversLess DEF Serving, Covered
  <2>0. PICK records \in {readIndex, {}} :
          IF Missing(records, job)
          THEN Starts(Booter, job.camp, job.name)
          ELSE UNCHANGED <<trainer, reader, spoilt, disturbed>>
    BY <1>2, <2>1 DEF trainFromFileIfMissingModel
  <2>5. CASE Missing(records, job)
    <3>1. Booter \in Trainers /\ Starts(Booter, job.camp, job.name)
      BY <2>0, <2>5, NamesAssumption
    <3>2. ASSUME ~spoilt' PROVE Covered'
      BY <2>2, <2>4, <3>1, <3>2, StartsCovers DEF Starts
    <3>. QED  BY <2>2, <3>2 DEF Serving
  <2>6. CASE ~Missing(records, job)
    <3>1. Matches(readIndex, job.camp, job.name) # {}
      BY <2>0, <2>6, MatchesEmpty DEF Missing
    <3>2. ~spoilt => Covers(readIndex, Due')
      BY <2>4, <3>1 DEF Covers
    <3>3. UNCHANGED <<trainer, spoilt>>
      BY <2>0, <2>6
    <3>4. ~spoilt => Covered'
      BY <2>2, <3>2, <3>3, QuietCovers
    <3>. QED  BY <2>2, <3>3, <3>4 DEF Serving
  <2>. QED  BY <2>5, <2>6
<1>3. CASE Listens
  <2>1. /\ server = "booting" /\ Quiet /\ todo = <<>> /\ server' = "listening" /\ booted' = Known
        /\ UNCHANGED <<index, trainer, camps, todo, spoilt>>
    BY <1>3 DEF Listens
  <2>2. Ahead = {} /\ Due' = Due
    BY <2>1 DEF Ahead, Due
  <2>3. ~spoilt => Covered'
    BY <2>1, <2>2, SameCovers DEF Serving
  <2>4. Known \subseteq Camps
    BY DEF Known, Serving
  <2>. QED  BY <2>1, <2>3, <2>4 DEF Serving
<1>4. CASE GivesUp
  BY <1>4 DEF GivesUp, Serving
<1>5. CASE Crashes
  <2>1. Quiet' /\ server' = "down" /\ todo' = <<>> /\ UNCHANGED <<camps, booted>>
    BY <1>5, RestingOK DEF Crashes, Quiet, Idle
  <2>. QED  BY <2>1 DEF Serving
<1>6. ASSUME NEW t \in Trainers, Fails(t) PROVE Serving'
  <2>1. server \in {"booting", "listening"}
    BY <1>6 DEF Fails, Serving, Quiet, Idle
  <2>2. server' = "listening" /\ spoilt' /\ UNCHANGED <<camps, booted>>
    BY <1>6, <2>1 DEF Fails
  <2>3. todo' = <<>> \/ todo' = todo
    BY <1>6 DEF Fails
  <2>4. todo' \in Seq([camp : Camps, name : Names])
    <3>1. <<>> \in Seq([camp : Camps, name : Names])
      OBVIOUS
    <3>. QED  BY <2>3, <3>1 DEF Serving
  <2>. QED  BY <2>2, <2>4 DEF Serving
<1>7. ASSUME NEW t \in Trainers, trainModel(t) PROVE Serving'
  <2>1. /\ server = "listening" /\ UNCHANGED <<index, server, camps, todo, booted>>
    BY <1>7 DEF trainModel
  <2>2. PICK camp \in Known, name \in Names : Starts(t, camp, name)
    BY <1>7 DEF trainModel
  <2>3. ASSUME ~spoilt' PROVE Covered'
    <3>1. Quiet /\ ~spoilt
      BY <2>2, <2>3 DEF Starts
    <3>2. Due' = Due
      BY <2>1 DEF Due
    <3>3. Covers(readIndex, Due' \ {<<camp, name>>})
      BY <2>1, <3>1, <3>2 DEF Serving, Covered, Covers
    <3>. QED  BY <2>1, <2>2, <3>1, <3>3, StartsCovers
  <2>. QED  BY <2>1, <2>3 DEF Serving
<1>8. ASSUME NEW t \in Trainers, Works(t) PROVE Serving'
  <2>1. UNCHANGED <<server, todo, camps, booted>> /\ server # "down" /\ (spoilt => spoilt')
    <3>1. UNCHANGED <<server, todo, camps, booted>>
      BY <1>8 DEF Works, Deactivates, Creates, Truncates, Writes
    <3>2. trainer[t].pc # "idle"
      BY <1>8 DEF Works, Deactivates, Creates, Truncates, Writes
    <3>3. server # "down"
      BY <3>2 DEF Serving, Quiet, Idle
    <3>4. CASE Creates(t)
      BY <3>1, <3>3, <3>4, Zenon DEF Creates
    <3>5. CASE Deactivates(t) \/ Truncates(t) \/ Writes(t)
      <4>1. UNCHANGED spoilt
        BY <3>5 DEF Deactivates, Truncates, Writes
      <4>. QED  BY <3>1, <3>3, <4>1
    <3>. QED  BY <1>8, <3>4, <3>5 DEF Works
  <2>2. Due' = Due
    BY <2>1 DEF Due, Known, Ahead
  <2>3. ASSUME Covered, ~spoilt' PROVE Covered'
    BY <1>8, <2>2, <2>3, DeactivatesCovers, CreatesCovers, TruncatesCovers, WritesCovers DEF Works
  <2>. QED  BY <2>1, <2>3 DEF Serving
<1>9. CASE NewCamp
  <2>1. /\ UNCHANGED <<index, server, todo, trainer, booted, spoilt>> /\ server = "listening"
        /\ camps' \in Seq(Camps)
    BY <1>9 DEF NewCamp, Serving
  <2>2. Due' = Due
    BY <2>1 DEF Due
  <2>3. ASSUME Covered PROVE Covered'
    BY <2>1, <2>2, <2>3, SameCovers
  <2>. QED  BY <2>1, <2>3 DEF Serving
<1>10. CASE UNCHANGED <<index, server, todo, camps, trainer, booted, spoilt>>
  <2>1. Due' = Due
    BY <1>10 DEF Due, Known, Ahead
  <2>2. ASSUME Covered PROVE Covered'
    BY <1>10, <2>1, <2>2, SameCovers
  <2>. QED  BY <1>10, <2>2 DEF Serving, Quiet, Idle
<1>11. ASSUME Asks \/ ReadsModel \/ ReadsRole \/ Misreads \/ Answers
       PROVE  UNCHANGED <<index, server, todo, camps, trainer, booted, spoilt>>
  BY <1>11 DEF Asks, ReadsModel, ReadsRole, Misreads, Answers
<1>. QED  BY <1>1, <1>2, <1>3, <1>4, <1>5, <1>6, <1>7, <1>8, <1>9, <1>10, <1>11 DEF Next, Starting, vars

LEMMA InitServing == Init => Serving
<1>. SUFFICES ASSUME Init PROVE Serving
  OBVIOUS
<1>1. camps \in Seq(Camps) /\ todo \in Seq([camp : Camps, name : Names])
  BY NamesAssumption DEF Init
<1>2. Quiet /\ server = "down" /\ booted = {}
  BY RestingOK DEF Init, Quiet, Idle
<1>. QED  BY <1>1, <1>2 DEF Serving

LEMMA ServingServed == Serving => Served
<1>. SUFFICES ASSUME Serving, server = "listening", Quiet, ~spoilt, NEW camp \in booted, NEW name \in Names
              PROVE  findActiveByModelName(camp, name) # {}
  BY DEF Served
<1>. QED  BY DEF Serving, Covered, Covers, Due, findActiveByModelName

\* A server that has started without an error has an active model of each name for every
\* camp it started with, until a training fails or overlaps with another or adds its model
\* to an index it could not read: for any camps and trees, and from whatever a crash at any
\* point has left of the file.
THEOREM EveryCampServed == Spec => []Served
<1>1. Init => Shape /\ Serving
  BY InitIInv, InitServing DEF IInv
<1>2. Shape /\ Serving /\ [Next]_vars => Serving'
  BY StepServing
<1>3. IInv => Shape
  BY DEF IInv
<1>. QED  BY <1>1, <1>2, <1>3, InitIInv, StepIInv, ServingServed, PTL DEF Spec


-----------------------------------------------------------------------------
(* The requests for advice.                                                *)

\* A training that starts is noticed by whoever is reading.
LEMMA StartsReading ==
  ASSUME Reading, NEW t \in Trainers, NEW camp, NEW name, Starts(t, camp, name), server' = server
  PROVE  Reading'
<1>1. reader' = [pc |-> reader.pc, camp |-> reader.camp, clash |-> (reader.clash \/ reader.pc # "idle"),
                 advice |-> reader.advice]
  BY DEF Starts, Reading
<1>2. /\ reader'.pc = reader.pc /\ reader'.camp = reader.camp
      /\ reader'.pc # "idle" => reader'.clash
  BY <1>1
<1>. QED  BY <1>1, <1>2 DEF Reading

\* Steps that leave what is read alone.
LEMMA SameReading ==
  ASSUME Reading, UNCHANGED <<reader, server, index, trainer, booted, spoilt>>
  PROVE  Reading'
BY DEF Reading, Quiet, Idle, SoundFor, readIndex

\* A training that was at work is no reason to think that nobody was.
LEMMA WorksReading ==
  ASSUME Reading, UNCHANGED reader, ~Quiet, server' = server \/ server # "listening"
  PROVE  Reading'
BY DEF Reading

LEMMA StepReading ==
  ASSUME Shape, Serving, Reading, [Next]_vars
  PROVE  Reading'
<1>1. ASSUME NEW t \in Trainers, trainModel(t) PROVE Reading'
  BY <1>1, StartsReading DEF trainModel
<1>2. CASE trainFromFileIfMissingModel
  <2>0. PICK records \in {readIndex, {}} :
          IF Missing(records, Head(todo))
          THEN Starts(Booter, Head(todo).camp, Head(todo).name)
          ELSE UNCHANGED <<trainer, reader, spoilt, disturbed>>
    BY <1>2 DEF trainFromFileIfMissingModel
  <2>1. CASE Missing(records, Head(todo))
    BY <1>2, <2>0, <2>1, StartsReading, NamesAssumption DEF trainFromFileIfMissingModel
  <2>2. CASE ~Missing(records, Head(todo))
    BY <1>2, <2>0, <2>2, SameReading DEF trainFromFileIfMissingModel
  <2>. QED  BY <2>1, <2>2
<1>3. ASSUME NEW t \in Trainers, Works(t) PROVE Reading'
  <2>1. UNCHANGED <<reader, server>> /\ ~Quiet
    BY <1>3 DEF Works, Deactivates, Creates, Truncates, Writes, Quiet, Idle
  <2>. QED  BY <2>1, WorksReading
<1>4. ASSUME NEW t \in Trainers, Fails(t) PROVE Reading'
  <2>1. UNCHANGED reader /\ ~Quiet /\ (server' = server \/ server # "listening")
    BY <1>4 DEF Fails, Quiet, Idle
  <2>. QED  BY <2>1, WorksReading
<1>5. CASE Boots \/ Listens \/ GivesUp
  <2>1. UNCHANGED reader /\ server # "listening"
    BY <1>5 DEF Boots, Listens, GivesUp
  <2>. QED  BY <2>1 DEF Reading
<1>6. CASE Crashes \/ Answers
  <2>1. reader' = NoReader
    BY <1>6 DEF Crashes, Answers
  <2>2. reader' = [pc |-> "idle", camp |-> None, clash |-> FALSE, advice |-> None]
    BY <2>1 DEF NoReader
  <2>3. reader'.pc = "idle" /\ reader' = [pc |-> reader'.pc, camp |-> reader'.camp,
                                          clash |-> reader'.clash, advice |-> reader'.advice]
    BY <2>2
  <2>. QED  BY <2>3 DEF Reading
<1>7. CASE NewCamp
  BY <1>7, SameReading DEF NewCamp
<1>8. CASE Asks
  <2>1. PICK camp \in Known :
          reader' = [pc |-> "model", camp |-> camp,
                     clash |-> (\/ spoilt \/ ~Quiet \/ camp \notin booted
                                \/ \E r \in readIndex : r.camp = camp /\ r.active /\ ~r.sound),
                     advice |-> None]
    BY <1>8 DEF Asks, NoReader
  <2>2. camp \in Camps
    BY DEF Known, Serving
  <2>3. /\ reader'.pc = "model" /\ reader'.camp = camp
        /\ reader'.clash = (\/ spoilt \/ ~Quiet \/ camp \notin booted
                            \/ \E r \in readIndex : r.camp = camp /\ r.active /\ ~r.sound)
    BY <2>1
  <2>4. Quiet' = Quiet /\ spoilt' = spoilt /\ booted' = booted /\ server' = "listening"
        /\ readIndex' = readIndex
    BY <1>8 DEF Asks, Quiet, Idle, readIndex
  <2>5. reader'.clash \/ (Quiet' /\ ~spoilt' /\ camp \in booted' /\ SoundFor(reader.camp)')
    BY <2>3, <2>4 DEF SoundFor
  <2>. QED  BY <2>1, <2>2, <2>3, <2>4, <2>5 DEF Reading
\* What is read while no training is met is there, and sound.
<1>9. ASSUME NEW pc, NEW clash, NEW advice, reader.pc # "idle",
             reader' = [pc |-> pc, camp |-> reader.camp, clash |-> clash, advice |-> advice],
             reader.clash => clash,
             UNCHANGED <<server, index, trainer, booted, spoilt>>, pc = "unadvised" => clash
      PROVE  Reading'
  <2>1. reader'.pc = pc /\ reader'.camp = reader.camp /\ reader'.clash = clash
    BY <1>9
  <2>. QED  BY <1>9, <2>1 DEF Reading, Quiet, Idle, SoundFor, readIndex
<1>10. ASSUME reader.pc # "idle", ~reader.clash, NEW name \in Names
       PROVE  ~MayThrow(name)
  <2>1. server = "listening" /\ Quiet /\ ~spoilt /\ reader.camp \in booted /\ SoundFor(reader.camp)
    BY <1>10 DEF Reading
  <2>2. findActiveByModelName(reader.camp, name) # {}
    BY <2>1, ServingServed DEF Served
  <2>3. \A r \in findActiveByModelName(reader.camp, name) : r.sound
    BY <2>1 DEF SoundFor, findActiveByModelName, Matches
  <2>. QED  BY <2>2, <2>3 DEF MayThrow, Latest
<1>0. reader = [pc |-> reader.pc, camp |-> reader.camp, clash |-> reader.clash, advice |-> reader.advice]
  BY DEF Reading
<1>11. CASE ReadsModel
  <2>1. reader.pc = "model" /\ UNCHANGED <<server, index, trainer, booted, spoilt>>
    BY <1>11 DEF ReadsModel
  <2>2. PICK pc \in {"unadvised", "role"} :
          reader' = [reader EXCEPT !.pc = pc] /\ (pc = "unadvised" => MayThrow(AdmissionModel))
    BY <1>11 DEF ReadsModel
  <2>3. pc = "unadvised" => reader.clash
    BY <1>10, <2>1, <2>2 DEF Names
  <2>4. reader' = [pc |-> pc, camp |-> reader.camp, clash |-> reader.clash, advice |-> reader.advice]
    BY <1>0, <2>2
  <2>. QED  BY <1>9, <2>1, <2>3, <2>4
<1>12. CASE ReadsRole
  <2>1. reader.pc = "role" /\ UNCHANGED <<server, index, trainer, booted, spoilt>>
    BY <1>12 DEF ReadsRole
  <2>2. CASE MayThrow(RoleModel) /\ reader' = [reader EXCEPT !.pc = "unadvised"]
    <3>1. reader' = [pc |-> "unadvised", camp |-> reader.camp, clash |-> reader.clash,
                     advice |-> reader.advice]
      BY <1>0, <2>2
    <3>2. reader.clash
      BY <1>10, <2>1, <2>2 DEF Names
    <3>. QED  BY <1>9, <2>1, <3>1, <3>2
  <2>3. CASE \E tree \in Trees, x \in Applicants : \E prediction \in Predictions(tree, x) :
                 reader' = [reader EXCEPT !.pc = "advised", !.advice = Explained(tree, x, prediction)]
    <3>1. PICK tree, x, prediction :
              reader' = [reader EXCEPT !.pc = "advised", !.advice = Explained(tree, x, prediction)]
      BY <2>3
    <3>2. PICK advice : advice = Explained(tree, x, prediction)
      OBVIOUS
    <3>3. reader' = [pc |-> "advised", camp |-> reader.camp, clash |-> reader.clash, advice |-> advice]
      BY <1>0, <3>1, <3>2
    <3>. QED  BY <1>9, <2>1, <3>3
  <2>. QED  BY <1>12, <2>2, <2>3 DEF ReadsRole
<1>14. CASE Misreads
  <2>1. reader.pc # "idle" /\ UNCHANGED <<server, index, trainer, booted, spoilt>>
    BY <1>14 DEF Misreads
  <2>2. reader' = [reader EXCEPT !.pc = "unadvised", !.clash = TRUE]
    BY <1>14 DEF Misreads
  <2>3. reader' = [pc |-> "unadvised", camp |-> reader.camp, clash |-> TRUE, advice |-> reader.advice]
    BY <1>0, <2>2
  <2>. QED  BY <1>9, <2>1, <2>3
<1>13. CASE UNCHANGED vars
  BY <1>13, SameReading DEF vars
<1>. QED  BY <1>1, <1>2, <1>3, <1>4, <1>5, <1>6, <1>7, <1>8, <1>11, <1>12, <1>13, <1>14 DEF Next, Starting

\* A request goes without advice only if a training was at work between its arrival and
\* its reads, one of its own reads failed, its camp had a model that is not sound, or the
\* server had not seen to its camp: for any camps and trees.
THEOREM AdviceIsGiven == Spec => []AdvisedUnlessDisturbed
<1>1. Init => Reading
  <2>. SUFFICES ASSUME Init PROVE Reading
    OBVIOUS
  <2>1. reader = [pc |-> "idle", camp |-> None, clash |-> FALSE, advice |-> None]
    BY DEF Init, NoReader
  <2>. QED  BY <2>1 DEF Reading
<1>2. Shape /\ Serving /\ Reading /\ [Next]_vars => Serving' /\ Reading'
  BY StepServing, StepReading
<1>3. IInv => Shape
  BY DEF IInv
<1>4. Reading => AdvisedUnlessDisturbed
  BY DEF Reading, AdvisedUnlessDisturbed
<1>. QED  BY <1>1, <1>2, <1>3, <1>4, InitIInv, StepIInv, InitServing, PTL DEF Spec

-----------------------------------------------------------------------------
(* Definitions by recursion on the positions of a finite tree.             *)

\* A set in a set of sets that includes no other of them.
HasSmallest(B) == \E s \in B : \A t \in B : t \subseteq s => t = s

\* A set of subsets of a finite set has one that includes no other.
LEMMA Smallest ==
  ASSUME NEW S, IsFiniteSet(S), NEW B, B \in SUBSET (SUBSET S), B # {}
  PROVE  HasSmallest(B)
<1>1. IsWellFoundedOn(StrictSubsetOrdering(S), SUBSET S)
  BY FS_StrictSubsetOrderingWellFounded, FS_FiniteSubsetsOfFinite
<1>2. PICK s \in B : \A t \in B : ~(<<t, s>> \in StrictSubsetOrdering(S))
  BY <1>1, WFMin
<1>. QED  BY <1>2 DEF HasSmallest, StrictSubsetOrdering

\* A finite set of naturals has a largest one.
LEMMA Largest ==
  ASSUME NEW S, IsFiniteSet(S), S \subseteq Nat, S # {}
  PROVE  \E n \in S : \A m \in S : m <= n
<1> DEFINE Above(n) == {m \in S : m > n}
<1>0. PICK Tails \in SUBSET (SUBSET S) : Tails = {Above(n) : n \in S}
  OBVIOUS
<1>1. PICK T \in Tails : \A U \in Tails : U \subseteq T => U = T
  <2>1. PICK n \in S : TRUE
    OBVIOUS
  <2>2. Above(n) \in Tails
    BY <1>0
  <2>3. HasSmallest(Tails)
    BY <2>2, Smallest
  <2>. QED  BY <2>3 DEF HasSmallest
<1>2. PICK n \in S : T = Above(n)
  BY <1>0
<1>3. ASSUME NEW m \in S, m > n PROVE FALSE
  <2>0. \A k \in S : k > m => k > n
    BY <1>3
  <2>1. Above(m) \subseteq T /\ Above(m) \in Tails
    BY <1>0, <1>2, <2>0
  <2>2. m \in T /\ m \notin Above(m)
    BY <1>2, <1>3
  <2>. QED  BY <1>1, <2>1, <2>2
<1>. QED  BY <1>3

\* The body of a recursive definition on D uses only what is defined at larger positions.
LooksAhead(B, D, V) ==
    \A n \in D : \A f, g \in [D -> V] :
        (\A m \in D : m > n => f[m] = g[m]) => B[n][f] = B[n][g]

IsDefined(B, D, V) == \E f \in [D -> V] : \A n \in D : f[n] = B[n][f]

\* A definition of this kind on a finite set has a solution: a largest part of D that is
\* solved is all of it.
LEMMA Recursion ==
  ASSUME NEW D, IsFiniteSet(D), D \subseteq Nat, NEW V, V # {},
         NEW B, B \in [D -> [[D -> V] -> V]], LooksAhead(B, D, V)
  PROVE  IsDefined(B, D, V)
<1> USE DEF LooksAhead, IsDefined
<1> DEFINE Solves(f, S) == \A n \in S : f[n] = B[n][f]
           Above(S)     == \A n \in S, m \in D : m > n => m \in S
<1>0. PICK Rests \in SUBSET (SUBSET D) :
        Rests = {T \in SUBSET D : Above(D \ T) /\ \E f \in [D -> V] : Solves(f, D \ T)}
  OBVIOUS
<1>1. D \in Rests
  <2>1. PICK v \in V : TRUE
    OBVIOUS
  <2>2. [n \in D |-> v] \in [D -> V] /\ D \ D = {}
    BY <2>1
  <2>. QED  BY <1>0, <2>2
<1>2. PICK T \in Rests : \A U \in Rests : U \subseteq T => U = T
  <2>1. HasSmallest(Rests)
    BY <1>1, Smallest
  <2>. QED  BY <2>1 DEF HasSmallest
<1>3. PICK f \in [D -> V] : Solves(f, D \ T)
  BY <1>0
<1>4. Above(D \ T) /\ T \subseteq D
  BY <1>0
<1>5. CASE T = {}
  BY <1>3, <1>5
<1>6. CASE T # {}
  <2>1. IsFiniteSet(T) /\ T \subseteq Nat
    BY <1>4, FS_Subset
  <2>2. PICK n \in T : \A m \in T : m <= n
    BY <1>6, <2>1, Largest
  <2>3. n \in D /\ n \in Nat
    BY <1>4, <2>2
  <2>4. PICK g : g = [f EXCEPT ![n] = B[n][f]]
    OBVIOUS
  <2>5. B[n][f] \in V
    BY <2>3
  <2>6. g \in [D -> V] /\ g[n] = B[n][f] /\ \A m \in D : m # n => g[m] = f[m]
    BY <2>3, <2>4, <2>5
  <2>7. ASSUME NEW m \in D \ T PROVE m > n
    <3>1. m # n /\ m \in D
      BY <2>7
    <3>2. ~(n > m)
      BY <1>4, <2>7
    <3>. QED  BY <2>3, <3>1, <3>2
  <2>8. Above(D \ (T \ {n}))
    <3>1. ASSUME NEW k \in D \ (T \ {n}), NEW m \in D, m > k PROVE m \in D \ (T \ {n})
      BY <1>4, <2>2, <2>3, <2>7, <3>1
    <3>. QED  BY <3>1
  <2>9. Solves(g, D \ (T \ {n}))
    <3>1. ASSUME NEW m \in D \ (T \ {n}), \A k \in D : k > m => f[k] = g[k], g[m] = B[m][f]
          PROVE  g[m] = B[m][g]
      BY <2>6, <3>1
    <3>2. \A k \in D : k > n => f[k] = g[k]
      <4>1. \A k \in D : k > n => k # n
        BY <2>3
      <4>. QED  BY <2>6, <4>1
    <3>3. ASSUME NEW m \in D \ T
          PROVE  (\A k \in D : k > m => f[k] = g[k]) /\ g[m] = B[m][f]
      <4>1. m > n /\ m \in Nat /\ m \in D
        BY <2>7
      <4>2. \A k \in D : k > m => k > n
        BY <2>3, <4>1
      <4>. QED  BY <1>3, <2>3, <2>6, <3>2, <4>1, <4>2
    <3>4. \A m \in D \ (T \ {n}) : m = n \/ m \in D \ T
      OBVIOUS
    <3>. QED  BY <2>3, <2>6, <3>1, <3>2, <3>3, <3>4
  <2>10. T \ {n} \in Rests
    BY <1>0, <1>4, <2>6, <2>8, <2>9
  <2>. QED  BY <1>2, <2>2, <2>10
<1>. QED  BY <1>5, <1>6

-----------------------------------------------------------------------------
(* Trees.                                                                  *)

IsTree(tree, x) ==
    /\ IsFiniteSet(DOMAIN tree) /\ DOMAIN tree \subseteq Nat \ {0} /\ 1 \in DOMAIN tree
    /\ \A n \in DOMAIN tree :
           ~IsLeaf(tree[n]) =>
               /\ 2 * n \in DOMAIN tree /\ 2 * n + 1 \in DOMAIN tree
               /\ tree[n].threshold \in Int /\ x[tree[n].feature] \in Int

\* The trees of a training are of this kind.
LEMMA TreesAreTrees == ASSUME NEW tree \in Trees, NEW x \in Applicants PROVE IsTree(tree, x)
BY TreesAssumption DEF IsTree

\* Children come after their parent.
LEMMA ChildIsLarger ==
  ASSUME NEW tree, NEW x, IsTree(tree, x), NEW n \in DOMAIN tree, ~IsLeaf(tree[n])
  PROVE  /\ Child(n, tree[n], x) \in DOMAIN tree /\ Child(n, tree[n], x) > n
         /\ 2 * n + 1 \in DOMAIN tree /\ 2 * n + 1 > n
<1>1. n \in Nat /\ n > 0 /\ 2 * n \in DOMAIN tree /\ 2 * n + 1 \in DOMAIN tree
  BY DEF IsTree
<1>2. Child(n, tree[n], x) = 2 * n \/ Child(n, tree[n], x) = 2 * n + 1
  BY DEF Child
<1>. QED  BY <1>1, <1>2

\* The largest position is a leaf.
LEMMA SomeLeaf ==
  ASSUME NEW tree, NEW x, IsTree(tree, x)
  PROVE  \E n \in DOMAIN tree : IsLeaf(tree[n])
<1>1. PICK n \in DOMAIN tree : \A m \in DOMAIN tree : m <= n
  <2>1. DOMAIN tree \subseteq Nat /\ DOMAIN tree # {} /\ IsFiniteSet(DOMAIN tree)
    BY DEF IsTree
  <2>. QED  BY <2>1, Largest
<1>2. n \in Nat
  BY DEF IsTree
<1>3. ASSUME ~IsLeaf(tree[n]) PROVE FALSE
  <2>1. 2 * n + 1 \in DOMAIN tree /\ 2 * n + 1 > n
    BY <1>3, ChildIsLarger
  <2>2. 2 * n + 1 <= n
    BY <1>1, <2>1
  <2>. QED  BY <1>2, <2>1, <2>2
<1>. QED  BY <1>3

\* What holds at a position when it does at all larger ones holds at all.
LEMMA FromTheLeaves ==
  ASSUME NEW tree, NEW x, IsTree(tree, x), NEW Good \in SUBSET DOMAIN tree,
         \A n \in DOMAIN tree : (\A m \in DOMAIN tree : m > n => m \in Good) => n \in Good
  PROVE  Good = DOMAIN tree
<1>1. PICK Bad : Bad = DOMAIN tree \ Good
  OBVIOUS
<1>2. ASSUME Bad # {} PROVE FALSE
  <2>1. IsFiniteSet(Bad) /\ Bad \subseteq Nat
    BY <1>1, FS_Subset DEF IsTree
  <2>2. PICK n \in Bad : \A m \in Bad : m <= n
    BY <1>2, <2>1, Largest
  <2>3. n \in DOMAIN tree /\ DOMAIN tree \subseteq Nat
    BY <1>1 DEF IsTree
  <2>4. ASSUME NEW m \in DOMAIN tree, m > n PROVE m \in Good
    BY <1>1, <2>2, <2>3, <2>4
  <2>. QED  BY <1>1, <2>3, <2>4
<1>. QED  BY <1>1, <1>2

\* An applicant ends in a leaf.
LEMMA LeafDistributionIs ==
  ASSUME NEW tree, NEW x, IsTree(tree, x)
  PROVE  \E n \in DOMAIN tree : IsLeaf(tree[n]) /\ LeafDistribution(tree, x) = tree[n].distribution
<1> DEFINE D == DOMAIN tree
           V == {tree[n].distribution : n \in {n \in D : IsLeaf(tree[n])}}
           Walk(f) == [n \in D |-> IF IsLeaf(tree[n]) THEN tree[n].distribution
                                                      ELSE f[Child(n, tree[n], x)]]
           From == CHOOSE f : f = Walk(f)
<1>1. LeafDistribution(tree, x) = From[1]
  BY DEF LeafDistribution
<1>2. \E f \in [D -> V] : f = Walk(f)
  <2>1. PICK B : B = [n \in D |-> [f \in [D -> V] |-> Walk(f)[n]]]
    OBVIOUS
  <2>2. ASSUME NEW f \in [D -> V], NEW n \in D PROVE Walk(f)[n] \in V
    BY ChildIsLarger
  <2>3. B \in [D -> [[D -> V] -> V]]
    BY <2>1, <2>2
  <2>4. ASSUME NEW n \in D, NEW f \in [D -> V], NEW g \in [D -> V],
               \A m \in D : m > n => f[m] = g[m]
        PROVE  B[n][f] = B[n][g]
    <3>1. Walk(f)[n] = Walk(g)[n]
      BY <2>4, ChildIsLarger
    <3>. QED  BY <2>1, <3>1
  <2>5. IsFiniteSet(D) /\ D \subseteq Nat
    BY DEF IsTree
  <2>6. V # {}
    <3>1. PICK n \in D : IsLeaf(tree[n])
      BY SomeLeaf
    <3>2. tree[n].distribution \in V
      BY <3>1
    <3>. QED  BY <3>2
  <2>. HIDE DEF V, Walk
  <2>7. PICK f \in [D -> V] : \A n \in D : f[n] = B[n][f]
    <3>1. LooksAhead(B, D, V)
      BY <2>4 DEF LooksAhead
    <3>2. IsDefined(B, D, V)
      BY <2>3, <2>5, <2>6, <3>1, Recursion
    <3>. QED  BY <3>2 DEF IsDefined
  <2>8. f = Walk(f)
    <3>1. \A n \in D : f[n] = Walk(f)[n]
      BY <2>1, <2>7
    <3>. QED  BY <3>1 DEF Walk
  <2>. QED  BY <2>8
<1>3. From = Walk(From)
  BY <1>2
<1>4. D = {n \in D : From[n] \in V}
  <2>1. ASSUME NEW n \in D, \A m \in D : m > n => From[m] \in V
        PROVE  From[n] \in V
    <3>1. From[n] = Walk(From)[n]
      BY <1>3
    <3>2. CASE IsLeaf(tree[n])
      BY <3>1, <3>2
    <3>3. CASE ~IsLeaf(tree[n])
      BY <2>1, <3>1, <3>3, ChildIsLarger
    <3>. QED  BY <3>2, <3>3
  <2>. HIDE DEF V, From
  <2>. QED  BY <2>1, FromTheLeaves
<1>5. 1 \in D
  BY DEF IsTree
<1>6. From[1] \in V
  BY <1>4, <1>5
<1>. HIDE DEF From
<1>. QED  BY <1>1, <1>6

\* What ml-cart may use are leaves.
LEMMA ReachableIs ==
  ASSUME NEW tree, NEW x, IsTree(tree, x)
  PROVE  Reachable(tree, x) \subseteq {n \in DOMAIN tree : IsLeaf(tree[n])}
<1> DEFINE D == DOMAIN tree
           V == SUBSET {n \in D : IsLeaf(tree[n])}
           Walk(f) == [n \in D |-> IF IsLeaf(tree[n]) THEN {n}
                                   ELSE f[Child(n, tree[n], x)]
                                        \cup IF Margin(tree[n], x) = 0 THEN f[2 * n + 1] ELSE {}]
           From == CHOOSE f : f = Walk(f)
<1>1. Reachable(tree, x) = From[1]
  BY DEF Reachable
<1>0. ASSUME NEW f, NEW n \in D, \A m \in D : m > n => f[m] \in V
      PROVE  Walk(f)[n] \in V
  <2>1. CASE IsLeaf(tree[n])
    BY <2>1
  <2>2. CASE ~IsLeaf(tree[n])
    <3>1. PICK left \in V, right \in V : left = f[Child(n, tree[n], x)] /\ right = f[2 * n + 1]
      BY <1>0, <2>2, ChildIsLarger
    <3>2. Walk(f)[n] = left \cup IF Margin(tree[n], x) = 0 THEN right ELSE {}
      BY <2>2, <3>1
    <3>. QED  BY <3>2
  <2>. QED  BY <2>1, <2>2
<1>2. \E f \in [D -> V] : f = Walk(f)
  <2>1. PICK B : B = [n \in D |-> [f \in [D -> V] |-> Walk(f)[n]]]
    OBVIOUS
  <2>2. ASSUME NEW f \in [D -> V], NEW n \in D PROVE Walk(f)[n] \in V
    <3>. HIDE DEF V, Walk
    <3>. QED  BY <1>0
  <2>3. B \in [D -> [[D -> V] -> V]]
    <3>. HIDE DEF V, Walk
    <3>. QED  BY <2>1, <2>2
  <2>4. ASSUME NEW n \in D, NEW f \in [D -> V], NEW g \in [D -> V],
               \A m \in D : m > n => f[m] = g[m]
        PROVE  B[n][f] = B[n][g]
    <3>1. Walk(f)[n] = Walk(g)[n]
      BY <2>4, ChildIsLarger
    <3>. QED  BY <2>1, <3>1
  <2>5. IsFiniteSet(D) /\ D \subseteq Nat
    BY DEF IsTree
  <2>6. V # {}
    OBVIOUS
  <2>. HIDE DEF V, Walk
  <2>7. PICK f \in [D -> V] : \A n \in D : f[n] = B[n][f]
    <3>1. LooksAhead(B, D, V)
      BY <2>4 DEF LooksAhead
    <3>2. IsDefined(B, D, V)
      BY <2>3, <2>5, <2>6, <3>1, Recursion
    <3>. QED  BY <3>2 DEF IsDefined
  <2>8. f = Walk(f)
    <3>1. \A n \in D : f[n] = Walk(f)[n]
      BY <2>1, <2>7
    <3>. QED  BY <3>1 DEF Walk
  <2>. QED  BY <2>8
<1>3. From = Walk(From)
  BY <1>2
<1>4. D = {n \in D : From[n] \in V}
  <2>1. ASSUME NEW n \in D, \A m \in D : m > n => From[m] \in V
        PROVE  From[n] \in V
    <3>. HIDE DEF V, Walk, From
    <3>. QED  BY <1>0, <1>3, <2>1
  <2>. HIDE DEF V, From
  <2>. QED  BY <2>1, FromTheLeaves
<1>5. 1 \in D
  BY DEF IsTree
<1>6. From[1] \in V
  BY <1>4, <1>5
<1>. HIDE DEF From
<1>. QED  BY <1>1, <1>6

\* A confidence is a fraction between zero and one, and so is what a split makes of it.
Fractions == {r \in [num : Nat, den : Nat \ {0}] : r.num <= r.den}

LEMMA MoreDoubt ==
  ASSUME NEW r \in Fractions, NEW s \in Nat \ {0}, NEW m \in 0..s
  PROVE  [num |-> (s + m) * r.num, den |-> 2 * s * r.den] \in Fractions
<1>1. r.num \in Nat /\ r.den \in Nat /\ r.den > 0 /\ r.num <= r.den /\ s > 0
  BY DEF Fractions
<1>2. (s + m) * r.num \in Nat /\ 2 * s * r.den \in Nat
  BY <1>1
<1>3. 2 * s * r.den > 0
  <2>1. s * r.den > 0
    BY <1>1
  <2>. QED  BY <1>1, <2>1
<1>4. (s + m) * r.num <= 2 * s * r.den
  <2>1. (s + m) * r.num <= (s + m) * r.den
    BY <1>1
  <2>2. (s + m) * r.den <= (2 * s) * r.den
    BY <1>1
  <2>. QED  BY <1>1, <2>1, <2>2
<1>. QED  BY <1>2, <1>3, <1>4 DEF Fractions

\* The doubts of a split are part of its scale.
LEMMA DoubtsOfASplit ==
  ASSUME NEW tree, NEW x, IsTree(tree, x), NEW n \in DOMAIN tree, ~IsLeaf(tree[n])
  PROVE  /\ Scale(tree[n].feature) \in Nat \ {0}
         /\ Capped(Margin(tree[n], x), Scale(tree[n].feature)) \in 0..Scale(tree[n].feature)
<1>1. Scale(tree[n].feature) \in Nat \ {0}
  BY DEF Scale
<1>2. Margin(tree[n], x) \in Nat
  BY DEF Margin, IsTree
<1>. QED  BY <1>1, <1>2 DEF Capped

\* The confidence of a path is such a fraction.
LEMMA PathConfidenceIs ==
  ASSUME NEW tree, NEW x, IsTree(tree, x)
  PROVE  PathConfidence(tree, x) \in Fractions
<1> DEFINE D == DOMAIN tree
           V == Fractions
           Walk(f) == [n \in D |->
               IF IsLeaf(tree[n])
               THEN [num |-> 1, den |-> 1]
               ELSE LET s    == Scale(tree[n].feature)
                        rest == f[Child(n, tree[n], x)]
                    IN  [num |-> (s + Capped(Margin(tree[n], x), s)) * rest.num,
                         den |-> 2 * s * rest.den]]
           From == CHOOSE f : f = Walk(f)
<1>1. PathConfidence(tree, x) = From[1]
  BY DEF PathConfidence
<1>0. ASSUME NEW f, NEW n \in D, \A m \in D : m > n => f[m] \in V
      PROVE  Walk(f)[n] \in V
  <2>1. CASE IsLeaf(tree[n])
    BY <2>1 DEF Fractions
  <2>2. CASE ~IsLeaf(tree[n])
    <3>1. PICK r \in Fractions : r = f[Child(n, tree[n], x)]
      BY <1>0, <2>2, ChildIsLarger
    <3>2. PICK s \in Nat \ {0} : s = Scale(tree[n].feature)
      BY <2>2, DoubtsOfASplit
    <3>3. PICK m \in 0..s : m = Capped(Margin(tree[n], x), s)
      BY <2>2, <3>2, DoubtsOfASplit
    <3>4. Walk(f)[n] = [num |-> (s + m) * r.num, den |-> 2 * s * r.den]
      BY <2>2, <3>1, <3>2, <3>3
    <3>. QED  BY <3>4, MoreDoubt
  <2>. QED  BY <2>1, <2>2
<1>2. \E f \in [D -> V] : f = Walk(f)
  <2>1. PICK B : B = [n \in D |-> [f \in [D -> V] |-> Walk(f)[n]]]
    OBVIOUS
  <2>2. ASSUME NEW f \in [D -> V], NEW n \in D PROVE Walk(f)[n] \in V
    <3>. HIDE DEF V, Walk
    <3>. QED  BY <1>0
  <2>3. B \in [D -> [[D -> V] -> V]]
    <3>. HIDE DEF V, Walk
    <3>. QED  BY <2>1, <2>2
  <2>4. ASSUME NEW n \in D, NEW f \in [D -> V], NEW g \in [D -> V],
               \A m \in D : m > n => f[m] = g[m]
        PROVE  B[n][f] = B[n][g]
    <3>1. Walk(f)[n] = Walk(g)[n]
      BY <2>4, ChildIsLarger
    <3>. HIDE DEF V, Walk
    <3>. QED  BY <2>1, <3>1
  <2>5. IsFiniteSet(D) /\ D \subseteq Nat
    BY DEF IsTree
  <2>6. V # {}
    <3>1. [num |-> 1, den |-> 1] \in V
      BY DEF Fractions
    <3>. QED  BY <3>1
  <2>. HIDE DEF V, Walk
  <2>7. PICK f \in [D -> V] : \A n \in D : f[n] = B[n][f]
    <3>1. LooksAhead(B, D, V)
      BY <2>4 DEF LooksAhead
    <3>2. IsDefined(B, D, V)
      BY <2>3, <2>5, <2>6, <3>1, Recursion
    <3>. QED  BY <3>2 DEF IsDefined
  <2>8. f = Walk(f)
    <3>1. \A n \in D : f[n] = Walk(f)[n]
      BY <2>1, <2>7
    <3>. QED  BY <3>1 DEF Walk
  <2>. QED  BY <2>8
<1>3. From = Walk(From)
  BY <1>2
<1>4. D = {n \in D : From[n] \in V}
  <2>1. ASSUME NEW n \in D, \A m \in D : m > n => From[m] \in V
        PROVE  From[n] \in V
    <3>. HIDE DEF V, Walk, From
    <3>. QED  BY <1>0, <1>3, <2>1
  <2>. HIDE DEF V, From
  <2>. QED  BY <2>1, FromTheLeaves
<1>5. 1 \in D
  BY DEF IsTree
<1>6. From[1] \in V
  BY <1>4, <1>5
<1>. HIDE DEF From
<1>. QED  BY <1>1, <1>6

-----------------------------------------------------------------------------
(* What the rounding leaves of a score.                                    *)

\* The quotient rounds down.
LEMMA Quotient ==
  ASSUME NEW a \in Int, NEW b \in Nat \ {0}
  PROVE  a \div b \in Int /\ b * (a \div b) <= a /\ a < b * (a \div b) + b
OBVIOUS

Percent(share) == Round(100 * share, 1000)

\* A rounded share above 70 per cent or below 30 is close to one.
LEMMA PercentIs ==
  ASSUME NEW share \in 0..1000
  PROVE  /\ Percent(share) \in 0..100
         /\ Percent(share) >= 71 => share >= 705
         /\ Percent(share) <= 29 => share < 295
BY DEF Percent, Round

\* A score beyond the limits comes from a share beyond them and a path without much doubt,
\* for doubts only pull it towards 50.
LEMMA FuzzyIs ==
  ASSUME NEW raw \in 0..100, NEW c \in Fractions
  PROVE  /\ FuzzyScore(raw, c) \in Int
         /\ FuzzyScore(raw, c) > 70 => raw >= 71 /\ 5 * c.num > 2 * c.den
         /\ FuzzyScore(raw, c) < 30 => raw <= 29 /\ 5 * c.num > 2 * c.den
<1>1. PICK N \in Nat, M \in Nat \ {0} : N = c.num /\ M = c.den /\ N <= M
  BY DEF Fractions
<1>2. PICK P \in Int : P = (raw - 50) * N
  BY <1>1
<1>3. PICK q \in Int : q = (2 * (50 * M + P) + M) \div (2 * M)
  <2>1. 2 * (50 * M + P) + M \in Int /\ 2 * M \in Nat \ {0}
    BY <1>1
  <2>. QED  BY <2>1, Quotient
<1>4. FuzzyScore(raw, c) = q
  BY <1>1, <1>2, <1>3 DEF FuzzyScore, Round
<1>5. /\ (2 * M) * q <= 2 * (50 * M + P) + M
      /\ 2 * (50 * M + P) + M < (2 * M) * q + 2 * M
  <2>1. PICK a \in Int : a = 2 * (50 * M + P) + M
    BY <1>1
  <2>2. PICK b \in Nat \ {0} : b = 2 * M
    BY <1>1
  <2>3. b * (a \div b) <= a /\ a < b * (a \div b) + b
    BY Quotient
  <2>4. q = a \div b
    BY <1>3, <2>1, <2>2
  <2>. QED  BY <2>1, <2>2, <2>3, <2>4
<1>6. CASE q > 70
  <2>1. (2 * M) * 71 <= (2 * M) * q
    BY <1>1, <1>6
  <2>2. 41 * M <= 2 * P
    BY <1>1, <1>2, <1>5, <2>1
  <2>3. raw >= 50
    BY <1>1, <1>2, <2>2
  <2>4. P <= (raw - 50) * M /\ P <= 50 * N
    BY <1>1, <1>2, <2>3
  <2>5. raw >= 71
    <3>1. CASE raw <= 70
      <4>1. (raw - 50) * M <= 20 * M
        BY <1>1, <3>1
      <4>. QED  BY <1>1, <1>2, <2>2, <2>4, <4>1
    <3>. QED  BY <3>1
  <2>. QED  BY <1>1, <1>2, <1>4, <1>6, <2>2, <2>4, <2>5
<1>7. CASE q < 30
  <2>1. (2 * M) * q <= (2 * M) * 29
    BY <1>1, <1>7
  <2>2. 41 * M < 2 * (-P)
    BY <1>1, <1>2, <1>5, <2>1
  <2>3. -P = (50 - raw) * N
    BY <1>1, <1>2
  <2>4. raw <= 50
    BY <1>1, <1>2, <2>2, <2>3
  <2>5. -P <= (50 - raw) * M /\ -P <= 50 * N
    BY <1>1, <2>3, <2>4
  <2>6. raw <= 29
    <3>1. CASE raw >= 30
      <4>1. (50 - raw) * M <= 20 * M
        BY <1>1, <3>1
      <4>. QED  BY <1>1, <1>2, <2>2, <2>5, <4>1
    <3>. QED  BY <3>1
  <2>. QED  BY <1>1, <1>2, <1>4, <1>7, <2>2, <2>5, <2>6
<1>8. CASE q \in 30..70
  BY <1>4, <1>8
<1>. QED  BY <1>3, <1>6, <1>7, <1>8

\* What ClearDecisions asks of an answer.
Clear(a) ==
    /\ a.action = "AUTO_APPROVE" => a.prediction = Accept /\ a.share > 700
    /\ a.action = "AUTO_REJECT" => a.prediction # Accept \/ a.share < 300
    /\ 5 * a.confidence.num <= 2 * a.confidence.den => a.action = "SUGGEST"

\* What the service answers is clear for any tree and applicant.
LEMMA ExplainedIsClear ==
  ASSUME NEW tree \in Trees, NEW x \in Applicants, NEW prediction \in Predictions(tree, x)
  PROVE  Clear(Explained(tree, x, prediction))
<1>1. IsTree(tree, x)
  BY TreesAreTrees
<1>2. PICK m \in DOMAIN tree : IsLeaf(tree[m]) /\ LeafDistribution(tree, x) = tree[m].distribution
  BY <1>1, LeafDistributionIs
<1>3. PICK n \in Reachable(tree, x) : prediction \in DOMAIN tree[n].distribution
  BY DEF Predictions
<1>4. n \in DOMAIN tree /\ IsLeaf(tree[n])
  BY <1>1, ReachableIs
<1>5. DOMAIN tree[m].distribution = DOMAIN tree[n].distribution
  BY <1>2, <1>4, TreesAssumption
<1>6. PICK leaf : leaf = tree[m].distribution
  OBVIOUS
<1>7. \A class \in DOMAIN leaf : leaf[class] \in 0..1000
  BY <1>2, <1>6, TreesAssumption
<1>8. PICK c \in Fractions : c = PathConfidence(tree, x)
  BY <1>1, PathConfidenceIs
<1>9. PICK class \in DOMAIN leaf :
        class = IF Accept \in DOMAIN leaf THEN Accept ELSE prediction
  BY <1>3, <1>5, <1>6
<1>10. PICK share \in 0..1000 : share = leaf[class]
  BY <1>7
<1>11. PICK raw \in 0..100 : raw = Percent(share)
  BY PercentIs
<1>12. PICK score \in Int : score = FuzzyScore(raw, c)
  BY FuzzyIs
<1>13. PICK a : a = Explained(tree, x, prediction)
  OBVIOUS
<1>14. a = [share      |-> IF Accept \in DOMAIN leaf THEN leaf[Accept] ELSE 0,
            confidence |-> c,
            prediction |-> prediction,
            action     |-> DecisionAction(score, prediction)]
  <2>1. RawScore(leaf, prediction) = raw
    BY <1>9, <1>10, <1>11 DEF RawScore, Percent
  <2>2. LeafDistribution(tree, x) = leaf
    BY <1>2, <1>6
  <2>. QED  BY <1>8, <1>12, <1>13, <2>1, <2>2 DEF Explained
<1>15. /\ a.share = IF Accept \in DOMAIN leaf THEN share ELSE 0
       /\ a.confidence = c /\ a.prediction = prediction
       /\ a.action = DecisionAction(score, prediction)
  BY <1>9, <1>10, <1>14
<1>16. prediction = Accept => Accept \in DOMAIN leaf
  BY <1>3, <1>5, <1>6
<1>17. /\ score > 70 => share >= 705 /\ 5 * c.num > 2 * c.den
       /\ score < 30 => share < 295 /\ 5 * c.num > 2 * c.den
  <2>1. (raw >= 71 => share >= 705) /\ (raw <= 29 => share < 295)
    BY <1>11, PercentIs
  <2>2. /\ score > 70 => raw >= 71 /\ 5 * c.num > 2 * c.den
        /\ score < 30 => raw <= 29 /\ 5 * c.num > 2 * c.den
    BY <1>12, FuzzyIs
  <2>. QED  BY <2>1, <2>2
<1>18. /\ score > 70 => a.action = IF prediction = Accept THEN "AUTO_APPROVE" ELSE "AUTO_REJECT"
       /\ score < 30 => a.action = "AUTO_REJECT"
       /\ score \in 30..70 => a.action = "SUGGEST"
  BY <1>12, <1>15 DEF DecisionAction
<1>19. c.num \in Nat /\ c.den \in Nat
  BY DEF Fractions
<1>20. Clear(a)
  BY <1>15, <1>16, <1>17, <1>18, <1>19 DEF Clear
<1>. QED  BY <1>13, <1>20

-----------------------------------------------------------------------------
(* The answers of the server are those.                                    *)

ClearlyAdvised == reader.pc = "advised" => Clear(reader.advice)

\* No step gives another answer.
LEMMA StepClear ==
  ASSUME Reading, ClearlyAdvised, [Next]_vars
  PROVE  ClearlyAdvised'
<1>1. CASE reader' = reader
  BY <1>1 DEF ClearlyAdvised
<1>2. ASSUME NEW t, NEW camp, NEW name, Starts(t, camp, name) PROVE ClearlyAdvised'
  <2>1. reader' = [pc |-> reader.pc, camp |-> reader.camp, clash |-> (reader.clash \/ reader.pc # "idle"),
                   advice |-> reader.advice]
    BY <1>2 DEF Starts, Reading
  <2>2. reader'.pc = reader.pc /\ reader'.advice = reader.advice
    BY <2>1
  <2>. QED  BY <2>2 DEF ClearlyAdvised
<1>3. CASE Crashes \/ Answers
  BY <1>3 DEF Crashes, Answers, NoReader, ClearlyAdvised
<1>4. CASE Asks
  BY <1>4 DEF Asks, NoReader, ClearlyAdvised
<1>5. CASE ReadsModel \/ Misreads
  <2>1. reader'.pc \in {"unadvised", "role"}
    BY <1>5 DEF ReadsModel, Misreads, Reading
  <2>. QED  BY <2>1 DEF ClearlyAdvised
<1>6. CASE ReadsRole
  <2>1. CASE reader' = [reader EXCEPT !.pc = "unadvised"]
    <3>1. reader'.pc = "unadvised"
      BY <2>1 DEF Reading
    <3>. QED  BY <3>1 DEF ClearlyAdvised
  <2>2. CASE \E tree \in Trees, x \in Applicants : \E prediction \in Predictions(tree, x) :
                 reader' = [reader EXCEPT !.pc = "advised", !.advice = Explained(tree, x, prediction)]
    <3>1. PICK tree \in Trees, x \in Applicants : \E prediction \in Predictions(tree, x) :
              reader' = [reader EXCEPT !.pc = "advised", !.advice = Explained(tree, x, prediction)]
      BY <2>2
    <3>2. PICK prediction \in Predictions(tree, x) :
              reader' = [reader EXCEPT !.pc = "advised", !.advice = Explained(tree, x, prediction)]
      BY <3>1
    <3>3. PICK advice : advice = Explained(tree, x, prediction)
      OBVIOUS
    <3>4. reader' = [pc |-> "advised", camp |-> reader.camp, clash |-> reader.clash, advice |-> advice]
      BY <3>2, <3>3 DEF Reading
    <3>5. reader'.advice = advice
      BY <3>4
    <3>6. Clear(advice)
      BY <3>3, ExplainedIsClear
    <3>. QED  BY <3>5, <3>6 DEF ClearlyAdvised
  <2>. QED  BY <1>6, <2>1, <2>2 DEF ReadsRole
<1>7. CASE trainFromFileIfMissingModel
  BY <1>1, <1>2, <1>7 DEF trainFromFileIfMissingModel
<1>8. ASSUME NEW t \in Trainers, trainModel(t) \/ Works(t) \/ Fails(t) PROVE ClearlyAdvised'
  <2>1. CASE trainModel(t)
    BY <1>2, <2>1 DEF trainModel
  <2>2. CASE Works(t) \/ Fails(t)
    BY <1>1, <2>2 DEF Works, Deactivates, Creates, Truncates, Writes, Fails
  <2>. QED  BY <1>8, <2>1, <2>2
<1>9. CASE Boots \/ Listens \/ GivesUp \/ NewCamp \/ UNCHANGED vars
  BY <1>1, <1>9 DEF Boots, Listens, GivesUp, NewCamp, vars
<1>. QED  BY <1>3, <1>4, <1>5, <1>6, <1>7, <1>8, <1>9 DEF Next, Starting

\* An applicant is let in by itself only if ACCEPT is predicted and has more than 70 per
\* cent of the leaf, and is turned away by itself only if something else is predicted or
\* ACCEPT has less than 30; and never in doubt: for any trees, features and classes.
THEOREM DecidesClearly == Spec => []ClearDecisions
<1>1. Init => Shape /\ Serving /\ Reading /\ ClearlyAdvised
  <2>. SUFFICES ASSUME Init PROVE Reading /\ ClearlyAdvised
    BY InitIInv, InitServing DEF IInv
  <2>1. reader = [pc |-> "idle", camp |-> None, clash |-> FALSE, advice |-> None]
    BY DEF Init, NoReader
  <2>. QED  BY <2>1 DEF Reading, ClearlyAdvised
<1>2. Shape /\ Serving /\ Reading /\ ClearlyAdvised /\ [Next]_vars => Serving' /\ Reading' /\ ClearlyAdvised'
  BY StepServing, StepReading, StepClear
<1>3. IInv => Shape
  BY DEF IInv
<1>4. ClearlyAdvised => ClearDecisions
  BY DEF ClearlyAdvised, Clear, ClearDecisions
<1>. QED  BY <1>1, <1>2, <1>3, <1>4, InitIInv, StepIInv, PTL DEF Spec

=============================================================================
