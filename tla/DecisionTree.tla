---------------------------- MODULE DecisionTree ----------------------------
(***************************************************************************)
(* The models that advise on admissions                                    *)
(* (src/modules/decisionTree/decisionTree.service.ts and .repository.ts).  *)
(* They are kept in one JSON file, an index of records, which every        *)
(* operation reads or rewrites whole and nothing locks: a training reads   *)
(* and rewrites it twice, once to deactivate the models it replaces and    *)
(* once to add its own.  The server trains what a camp lacks when it       *)
(* starts (src/main.ts), before it listens.  A read that fails passes for  *)
(* an index without models, and what goes on from it may rewrite the file. *)
(***************************************************************************)
EXTENDS Scoring, FiniteSets, FiniteSetsExt, Sequences

CONSTANTS
    Camps,          \* camps that exist or may be created
    FirstCamps,     \* those that exist when the server is first started, in order
    Jobs,           \* models a camp needs, in the order they are trained in
    Trainers,       \* trainings that may be at work at once
    Booter,         \* the one that works while the server starts
    Trees,          \* what a training may make of its samples
    Applicants,     \* features of those who ask to be admitted
    MaxTrainings,   \* bound: trainings that requests ask for
    MaxFaults,      \* bound: file operations that fail
    None

ASSUME NamesAssumption ==
    /\ FirstCamps \in Seq(Camps) /\ Len(Jobs) = 2
    /\ Booter \in Trainers
    /\ None \notin Camps
    /\ MaxTrainings \in Nat /\ MaxFaults \in Nat

\* A tree is finite and starts at its root, and a split has both children.  The
\* classes are those of the model (labelClasses), in every leaf: the trailing ones a
\* leaf has none of are left out of its array and have a share of zero.
ASSUME TreesAssumption ==
    \A tree \in Trees :
        /\ IsFiniteSet(DOMAIN tree) /\ DOMAIN tree \subseteq Nat \ {0} /\ 1 \in DOMAIN tree
        /\ \A n \in DOMAIN tree :
               IF IsLeaf(tree[n])
               THEN \A class \in DOMAIN tree[n].distribution : tree[n].distribution[class] \in 0..1000
               ELSE /\ 2 * n \in DOMAIN tree /\ 2 * n + 1 \in DOMAIN tree
                    /\ tree[n].threshold \in Int
                    /\ \A x \in Applicants : x[tree[n].feature] \in Int
        /\ \A m, n \in {n \in DOMAIN tree : IsLeaf(tree[n])} :
               DOMAIN tree[m].distribution = DOMAIN tree[n].distribution

AdmissionModel == Jobs[1]
RoleModel      == Jobs[2]
Names          == {AdmissionModel, RoleModel}

VARIABLES
    index,      \* the file: its text, and the records of a text that is whole
    server,     \* "down", "booting" or "listening"
    todo,       \* the models the start has yet to see to
    camps,      \* table camp, by id
    trainer,    \* the local state of each training
    reader,     \* the local state of a request for advice
    trainings, faults,
    booted,     \* camps the last start that ended without an error saw to
    spoilt,     \* since that start began a training or the start has failed, a training
                \* has not seen the models it rewrites, or two have been at work at once
    disturbed   \* two trainings have been at work at once, or one has not seen what it
                \* replaces

vars == <<index, server, todo, camps, trainer, reader, trainings, faults, booted, spoilt, disturbed>>

\* A model is sound if the service can advise every applicant with it: it is
\* trained with features that applicants have and, if it is to assign a role,
\* with the six labels that stand for roles.
Records == [id : Nat \ {0}, camp : Camps, name : Names, active : BOOLEAN, sound : BOOLEAN]

\* Between its truncation and the write the file is empty; two writes that
\* overlap may leave the end of the longer text behind the shorter one.
Texts == {"whole", "empty", "garbled"}

Resting == [pc |-> "idle", camp |-> None, name |-> AdmissionModel, out |-> {}, then |-> "idle"]
NoReader == [pc |-> "idle", camp |-> None, clash |-> FALSE, advice |-> None]

Init ==
    /\ index = [text |-> "empty", records |-> {}]
    /\ server = "down" /\ todo = <<>> /\ camps = FirstCamps
    /\ trainer = [t \in Trainers |-> Resting]
    /\ reader = NoReader
    /\ trainings = 0 /\ faults = 0
    /\ booted = {} /\ spoilt = FALSE /\ disturbed = FALSE

\* A text that cannot be parsed counts as no models at all.
readIndex == IF index.text = "whole" THEN index.records ELSE {}

\* The read of a handler, which takes a failure for an empty index.
Reads(records) ==
    \/ records = readIndex /\ UNCHANGED faults
    \/ records = {} /\ faults < MaxFaults /\ faults' = faults + 1

Matches(records, camp, name) ==
    {r \in records : r.camp = camp /\ r.name = name /\ r.active}

\* Mutant of Missing: a model that is not active will do.
MissingAltogether(records, job) == ~\E r \in records : r.camp = job.camp /\ r.name = job.name

findActiveByModelName(camp, name) == Matches(readIndex, camp, name)

\* Does the start of the server have to train it?
Missing(records, job) == Matches(records, job.camp, job.name) = {}

Known == {camps[i] : i \in DOMAIN camps}

\* Mutant of Replaced: those of every camp.
ReplacedEverywhere(records, t) == {r \in records : r.name = trainer[t].name /\ r.active}

\* The active models a training replaces: those of its camp and name.
Replaced(records, t) == Matches(records, trainer[t].camp, trainer[t].name)

Idle(t) == trainer[t].pc = "idle"
Quiet   == \A t \in Trainers : Idle(t)

-----------------------------------------------------------------------------
(* A training, once its input is valid and its tree is grown.              *)

Starts(t, camp, name) ==
    /\ Idle(t)
    /\ trainer' = [trainer EXCEPT ![t] =
                      [Resting EXCEPT !.pc = "deactivate", !.camp = camp, !.name = name]]
    /\ reader' = [reader EXCEPT !.clash = @ \/ reader.pc # "idle"]
    /\ disturbed' = (disturbed \/ ~Quiet)
    /\ spoilt' = (spoilt \/ ~Quiet)

\* writeIndex, first the truncation of the file.
Rewrites(t, records, then) ==
    trainer' = [trainer EXCEPT ![t].pc = "open", ![t].out = records, ![t].then = then]

Inactive(r) == [id |-> r.id, camp |-> r.camp, name |-> r.name, active |-> FALSE, sound |-> r.sound]

\* Mutant of Deactivates: the records are changed and never written.
DeactivatesInMemory(t) ==
    /\ trainer[t].pc = "deactivate"
    /\ trainer' = [trainer EXCEPT ![t].pc = "create"]
    /\ UNCHANGED <<index, server, todo, camps, reader, trainings, faults, booted, spoilt, disturbed>>

\* deactivateByModelName; nothing is written if there is nothing to deactivate.
Deactivates(t) ==
    /\ trainer[t].pc = "deactivate"
    /\ \E records \in {readIndex, {}} :
           LET old == Replaced(records, t) IN
           /\ Reads(records)
           /\ IF old = {}
              THEN trainer' = [trainer EXCEPT ![t].pc = "create"]
              ELSE Rewrites(t, (records \ old) \cup {Inactive(r) : r \in old}, "create")
           /\ disturbed' = (disturbed \/ old # Replaced(readIndex, t))
    /\ UNCHANGED <<index, server, todo, camps, reader, trainings, booted, spoilt>>

nextId(records) == 1 + IF records = {} THEN 0 ELSE Max({r.id : r \in records})

\* The samples that the server comes with make sound models; those of a request
\* may have any features and labels.
Soundness == IF server = "booting" THEN {TRUE} ELSE BOOLEAN

\* create: the file of the model is written, then the index is read again.
Creates(t) ==
    /\ trainer[t].pc = "create"
    /\ \E records \in {readIndex, {}}, sound \in Soundness :
           /\ Reads(records)
           /\ Rewrites(t, records \cup {[id     |-> nextId(records),
                                         camp   |-> trainer[t].camp,
                                         name   |-> trainer[t].name,
                                         active |-> TRUE,
                                         sound  |-> sound]}, "idle")
           /\ spoilt' = (spoilt \/ records # readIndex)
    /\ UNCHANGED <<index, server, todo, camps, reader, trainings, booted, disturbed>>

Truncates(t) ==
    /\ trainer[t].pc = "open"
    /\ index' = [text |-> "empty", records |-> {}]
    /\ trainer' = [trainer EXCEPT ![t].pc = "write"]
    /\ UNCHANGED <<server, todo, camps, reader, trainings, faults, booted, spoilt, disturbed>>

\* Each write starts at the beginning of the file: over a text that another
\* training has written since the truncation it may leave that one's end.
Writes(t) ==
    /\ trainer[t].pc = "write"
    /\ \/ index' = [text |-> "whole", records |-> trainer[t].out]
       \/ index.text # "empty" /\ index' = [text |-> "garbled", records |-> {}]
    /\ trainer' = [trainer EXCEPT ![t] =
                      IF trainer[t].then = "idle" THEN Resting
                      ELSE [@ EXCEPT !.pc = trainer[t].then, !.out = {}, !.then = "idle"]]
    /\ UNCHANGED <<server, todo, camps, reader, trainings, faults, booted, spoilt, disturbed>>

\* A directory cannot be made or a file not be written, or only in part: the
\* request is answered with an error, and the start of the server gives up the
\* models it has not come to.
Fails(t) ==
    /\ trainer[t].pc \in {"create", "open", "write"}
    /\ faults < MaxFaults
    /\ faults' = faults + 1
    /\ trainer' = [trainer EXCEPT ![t] = Resting]
    /\ \/ UNCHANGED index
       \/ trainer[t].pc = "write" /\ index' = [text |-> "garbled", records |-> {}]
    /\ spoilt' = TRUE
    /\ IF server = "booting" THEN server' = "listening" /\ todo' = <<>>
                             ELSE UNCHANGED <<server, todo>>
    /\ UNCHANGED <<camps, reader, trainings, booted, disturbed>>

\* trainModel, for the camp of the administrator.
trainModel(t) ==
    /\ server = "listening"
    /\ trainings < MaxTrainings
    /\ trainings' = trainings + 1
    /\ \E camp \in Known, name \in Names : Starts(t, camp, name)
    /\ UNCHANGED <<index, server, todo, camps, faults, booted>>

-----------------------------------------------------------------------------
(* The start of the server.                                                *)

Boots ==
    /\ server = "down"
    /\ server' = "booting"
    /\ todo' = [i \in 1..2 * Len(camps) |-> [camp |-> camps[(i + 1) \div 2],
                                           name |-> IF i % 2 = 1 THEN AdmissionModel ELSE RoleModel]]
    /\ spoilt' = FALSE
    /\ UNCHANGED <<index, camps, trainer, reader, trainings, faults, booted, disturbed>>

\* trainFromFileIfMissingModel, one model after the other.
trainFromFileIfMissingModel ==
    /\ server = "booting" /\ Quiet /\ todo # <<>>
    /\ todo' = Tail(todo)
    /\ \E records \in {readIndex, {}} :
           /\ Reads(records)
           /\ IF Missing(records, Head(todo))
              THEN Starts(Booter, Head(todo).camp, Head(todo).name)
              ELSE UNCHANGED <<trainer, reader, spoilt, disturbed>>
    /\ UNCHANGED <<index, server, camps, trainings, booted>>

\* Every model is seen to; requests are accepted.
Listens ==
    /\ server = "booting" /\ Quiet /\ todo = <<>>
    /\ server' = "listening"
    /\ booted' = Known
    /\ UNCHANGED <<index, todo, camps, trainer, reader, trainings, faults, spoilt, disturbed>>

\* The training data or the camps cannot be read: main goes on to listen.
GivesUp ==
    /\ server = "booting" /\ Quiet
    /\ faults < MaxFaults
    /\ faults' = faults + 1
    /\ server' = "listening" /\ todo' = <<>>
    /\ spoilt' = TRUE
    /\ UNCHANGED <<index, camps, trainer, reader, trainings, booted, disturbed>>

\* The process stops, at any point and as often as it likes.
Crashes ==
    /\ server # "down"
    /\ server' = "down" /\ todo' = <<>>
    /\ trainer' = [t \in Trainers |-> Resting]
    /\ reader' = NoReader
    /\ UNCHANGED <<index, camps, trainings, faults, booted, spoilt, disturbed>>

\* CampService: the models of a new camp wait for the next start.
NewCamp ==
    /\ server = "listening"
    /\ \E camp \in Camps \ Known : camps' = Append(camps, camp)
    /\ UNCHANGED <<index, server, todo, trainer, reader, trainings, faults, booted, spoilt, disturbed>>

-----------------------------------------------------------------------------
(* A request to be admitted asks for advice.                               *)

Asks ==
    /\ server = "listening" /\ reader.pc = "idle"
    /\ \E camp \in Known :
           reader' = [NoReader EXCEPT !.pc = "model", !.camp = camp,
                                      !.clash = \/ spoilt \/ ~Quiet \/ camp \notin booted
                                                \/ \E r \in readIndex : r.camp = camp /\ r.active /\ ~r.sound]
    /\ UNCHANGED <<index, server, todo, camps, trainer, trainings, faults, booted, spoilt, disturbed>>

\* The models that may advise: of several that are active the latest is taken.
Latest(matches) == {r \in matches : \A s \in matches : s.id <= r.id}

\* The service finds no model of a name, or one that it cannot use for every
\* applicant: buildSingleRow and normalizeRoleLabel throw.
MayThrow(name) ==
    LET matches == findActiveByModelName(reader.camp, name)
    IN  matches = {} \/ \E r \in Latest(matches) : ~r.sound

\* getActiveModelByNameWithFallbackOrThrow and what explainWithModel does before
\* it comes to the role.  No training makes a model that belongs to no camp, so
\* the fallback finds none.
ReadsModel ==
    /\ reader.pc = "model"
    /\ \/ /\ MayThrow(AdmissionModel)
          /\ reader' = [reader EXCEPT !.pc = "unadvised"]
       \/ /\ findActiveByModelName(reader.camp, AdmissionModel) # {}
          /\ reader' = [reader EXCEPT !.pc = "role"]
    /\ UNCHANGED <<index, server, todo, camps, trainer, trainings, faults, booted, spoilt, disturbed>>

\* predictRoleAssignment, with a read of its own, and the answer.
ReadsRole ==
    /\ reader.pc = "role"
    /\ \/ /\ MayThrow(RoleModel)
          /\ reader' = [reader EXCEPT !.pc = "unadvised"]
       \/ /\ findActiveByModelName(reader.camp, RoleModel) # {}
          /\ \E tree \in Trees, x \in Applicants : \E prediction \in Predictions(tree, x) :
                 reader' = [reader EXCEPT !.pc = "advised", !.advice = Explained(tree, x, prediction)]
    /\ UNCHANGED <<index, server, todo, camps, trainer, trainings, faults, booted, spoilt, disturbed>>

\* A read of the index fails, or of the file of a model (loadModelFromModel).
Misreads ==
    /\ reader.pc \in {"model", "role"}
    /\ faults < MaxFaults
    /\ faults' = faults + 1
    /\ reader' = [reader EXCEPT !.pc = "unadvised", !.clash = TRUE]
    /\ UNCHANGED <<index, server, todo, camps, trainer, trainings, booted, spoilt, disturbed>>

Answers ==
    /\ reader.pc \in {"advised", "unadvised"}
    /\ reader' = NoReader
    /\ UNCHANGED <<index, server, todo, camps, trainer, trainings, faults, booted, spoilt, disturbed>>

-----------------------------------------------------------------------------
Works(t) == Deactivates(t) \/ Creates(t) \/ Truncates(t) \/ Writes(t)

Starting == Boots \/ trainFromFileIfMissingModel \/ Listens \/ GivesUp

Next ==
    \/ \E t \in Trainers : trainModel(t) \/ Works(t) \/ Fails(t)
    \/ Starting \/ Crashes \/ NewCamp
    \/ Asks \/ ReadsModel \/ ReadsRole \/ Misreads \/ Answers

Spec == Init /\ [][Next]_vars

-----------------------------------------------------------------------------
(* Properties.                                                             *)

\* As long as no two trainings have been at work at once, and none has failed to
\* see a model it replaces, a camp has one active model of a name at most:
\* whatever crashes, failing writes and the other reads, of the start or before
\* a model is added, have done to the file (decisionTree.repository.ts:15-70).
OneActive ==
    ~disturbed => \A camp \in Camps, name \in Names :
                      Cardinality(findActiveByModelName(camp, name)) <= 1

\* A server that has started without an error has an active model of each name
\* for every camp that was there when it started, whatever state a crash, a
\* failed training or overlapping ones had left the index in (main.ts:99-128):
\* until a training fails or overlaps with another, or adds its model to an index
\* that it could not read and so takes for empty.
Served ==
    server = "listening" /\ Quiet /\ ~spoilt =>
        \A camp \in booted, name \in Names : findActiveByModelName(camp, name) # {}

\* On such a server a request that comes to a camp with sound models goes without
\* advice only if one of its own reads fails or a training was at work between
\* its arrival and its reads: it deactivates the old model before it adds the new
\* one, and the file of all camps is empty while it is rewritten.
AdvisedUnlessDisturbed == reader.pc = "unadvised" => reader.clash

\* Nobody is admitted or turned away in doubt: an admission is automatic only if
\* ACCEPT is predicted and has more than 70 % of the leaf, a refusal only if
\* something else is predicted or ACCEPT has less than 30 %, and neither is
\* if the splits on the way leave a confidence of two fifths or less.
ClearDecisions ==
    reader.pc = "advised" =>
        LET a == reader.advice IN
            /\ a.action = "AUTO_APPROVE" => a.prediction = Accept /\ a.share > 700
            /\ a.action = "AUTO_REJECT" => a.prediction # Accept \/ a.share < 300
            /\ 5 * a.confidence.num <= 2 * a.confidence.den => a.action = "SUGGEST"

=============================================================================
