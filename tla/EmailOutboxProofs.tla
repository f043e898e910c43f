------------------------- MODULE EmailOutboxProofs -------------------------
(***************************************************************************)
(* Theorems of module EmailOutbox, for any emails, numbers of attempts,    *)
(* delays, batch size and number of overlapping runs, and without any      *)
(* assumption on how long the provider takes.                              *)
(***************************************************************************)
EXTENDS EmailOutbox, TLAPS

-----------------------------------------------------------------------------
(* The inductive invariant.                                                *)

\* A run holds counts that were below the maximum when it loaded them, and no
\* more than the tries made so far; past its own try, strictly fewer.
RunsCount ==
    /\ \A r \in Runs, e \in Emails :
         run[r].attempts[e] < MaxAttempts[e] /\ run[r].attempts[e] <= tried[e]
    /\ \A r \in Runs :
         run[r].pc \in {"sent", "failed"} => run[r].attempts[run[r].email] < tried[run[r].email]

\* An entry counts no more attempts than were tried, and fewer than the maximum
\* until it is given up.
EntriesCount ==
    \A e \in Emails :
      /\ outbox[e].attempts <= tried[e]
      /\ outbox[e].status # "FAILED" => outbox[e].attempts < MaxAttempts[e]

\* A run that is about to save SENT has had the email accepted.
SentIsAccepted ==
    \A r \in Runs : run[r].pc = "sent" => accepted[run[r].email] > 0

IInv ==
    /\ TypeOK
    /\ RunsCount /\ EntriesCount
    /\ SentIsAccepted
    /\ NotGivenUpEarly /\ SentWasAccepted

-----------------------------------------------------------------------------
(* Types of what the actions write.                                        *)

LEMMA AttemptsPositive ==
  ASSUME NEW e \in Emails PROVE MaxAttempts[e] \in Nat /\ MaxAttempts[e] > 0
BY OutboxAssumption

LEMMA RestingType ==
  /\ Resting \in RunType
  /\ Resting.pc = "idle" /\ Resting.left = {} /\ Resting.attempts = [e \in Emails |-> 0]
<1>1. (CHOOSE e \in Emails : TRUE) \in Emails
  BY OutboxAssumption, Zenon
<1>. QED  BY <1>1 DEF Resting, RunType

LEMMA DelayType ==
  ASSUME NEW failed \in Nat, failed > 0 PROVE DelayAfter(failed) \in Nat
<1>1. Len(Delays) \in Nat /\ Len(Delays) > 0 /\ Delays \in [1..Len(Delays) -> Nat]
  BY OutboxAssumption
<1>2. (IF failed > Len(Delays) THEN Len(Delays) ELSE failed) \in 1..Len(Delays)
  BY <1>1
<1>. QED  BY <1>1, <1>2 DEF DelayAfter

LEMMA EntryTypes ==
  ASSUME NEW e \in Emails, NEW n \in Nat
  PROVE  /\ Claimed(n) \in EntryType /\ Sent(n) \in EntryType
         /\ n > 0 => Failed(e, n) \in EntryType
<1>1. Claimed(n) \in EntryType /\ Sent(n) \in EntryType
  BY OutboxAssumption DEF Claimed, Sent, EntryType
<1>2. n > 0 => Failed(e, n) \in EntryType
  BY DelayType DEF Failed, EntryType
<1>. QED  BY <1>1, <1>2

\* A run that goes on with its batch keeps the counts it has loaded.
LEMMA NextEntryType ==
  ASSUME NEW r \in Runs, run \in [Runs -> RunType]
  PROVE  /\ NextEntry(r) \in RunType
         /\ NextEntry(r).pc \in {"idle", "batch"}
         /\ NextEntry(r).left = run[r].left
         /\ \A e \in Emails : \/ NextEntry(r).attempts[e] = 0
                              \/ NextEntry(r).attempts[e] = run[r].attempts[e]
<1>1. run[r] \in RunType
  OBVIOUS
<1>2. CASE run[r].left = {}
  BY <1>2, RestingType DEF NextEntry
<1>3. CASE run[r].left # {}
  <2>. DEFINE next == [run[r] EXCEPT !.pc = "batch", !.attempts[run[r].email] = 0, !.lease = 0]
  <2>1. NextEntry(r) = next
    BY <1>3 DEF NextEntry
  <2>2. /\ next.pc = "batch" /\ next.left = run[r].left /\ next.lease = 0
        /\ next.email = run[r].email
        /\ next.attempts = [run[r].attempts EXCEPT ![run[r].email] = 0]
    BY <1>1 DEF RunType
  <2>3. next.attempts \in [Emails -> Nat]
    BY <1>1, <2>2 DEF RunType
  <2>4. next \in RunType
    BY <1>1, <2>2, <2>3 DEF RunType
  <2>. QED  BY <1>1, <2>1, <2>2, <2>4 DEF RunType
<1>. QED  BY <1>2, <1>3

LEMMA LessType == ASSUME NEW n \in Nat PROVE Less(n) \in Nat
BY DEF Less

-----------------------------------------------------------------------------
(* Every action keeps the invariant.                                       *)

\* What the invariant says of the new states of the runs is a matter of each
\* run; a step that changes one of them has to be checked for that one only.
LEMMA OneRunChanges ==
  ASSUME IInv, NEW r \in Runs, NEW next \in RunType, run' = [run EXCEPT ![r] = next],
         tried' \in [Emails -> Nat], accepted' \in [Emails -> Nat],
         \A e \in Emails : tried'[e] >= tried[e] /\ accepted'[e] >= accepted[e],
         \A e \in Emails : next.attempts[e] < MaxAttempts[e] /\ next.attempts[e] <= tried'[e],
         next.pc \in {"sent", "failed"} => next.attempts[next.email] < tried'[next.email],
         next.pc = "sent" => accepted'[next.email] > 0
  PROVE  run' \in [Runs -> RunType] /\ RunsCount' /\ SentIsAccepted'
<1>1. /\ run \in [Runs -> RunType]
      /\ tried \in [Emails -> Nat] /\ accepted \in [Emails -> Nat]
  BY DEF IInv, TypeOK
<1>2. run' \in [Runs -> RunType] /\ run'[r] = next
  BY <1>1
<1>3. ASSUME NEW q \in Runs
      PROVE  /\ \A e \in Emails :
                  run'[q].attempts[e] < MaxAttempts[e] /\ run'[q].attempts[e] <= tried'[e]
             /\ run'[q].pc \in {"sent", "failed"} =>
                  run'[q].attempts[run'[q].email] < tried'[run'[q].email]
             /\ run'[q].pc = "sent" => accepted'[run'[q].email] > 0
  <2>1. CASE q = r
    BY <1>2, <2>1
  <2>2. CASE q # r
    <3>1. run'[q] = run[q] /\ run[q] \in RunType
      BY <1>1, <2>2
    <3>2. run[q].email \in Emails /\ run[q].attempts \in [Emails -> Nat]
      BY <3>1 DEF RunType
    <3>3. \A e \in Emails : run[q].attempts[e] \in Nat /\ tried[e] \in Nat /\ tried'[e] \in Nat
                            /\ accepted[e] \in Nat /\ accepted'[e] \in Nat
      BY <1>1, <3>2
    <3>4. /\ \A e \in Emails :
               run[q].attempts[e] < MaxAttempts[e] /\ run[q].attempts[e] <= tried[e]
          /\ run[q].pc \in {"sent", "failed"} =>
               run[q].attempts[run[q].email] < tried[run[q].email]
          /\ run[q].pc = "sent" => accepted[run[q].email] > 0
      BY DEF IInv, RunsCount, SentIsAccepted
    <3>. QED  BY <3>1, <3>2, <3>3, <3>4
  <2>. QED  BY <2>1, <2>2
<1>. QED  BY <1>2, <1>3 DEF RunsCount, SentIsAccepted

\* A run that rests or goes on to the next entry of its batch is such a change.
LEMMA RunLeavesEntry ==
  ASSUME IInv, NEW r \in Runs, NEW next \in {Resting, NextEntry(r)},
         run' = [run EXCEPT ![r] = next], UNCHANGED <<tried, accepted>>
  PROVE  run' \in [Runs -> RunType] /\ RunsCount' /\ SentIsAccepted'
<1>1. /\ run \in [Runs -> RunType]
      /\ tried \in [Emails -> Nat] /\ accepted \in [Emails -> Nat]
  BY DEF IInv, TypeOK
<1>2. next \in RunType /\ next.pc \in {"idle", "batch"}
  BY <1>1, RestingType, NextEntryType
<1>3. ASSUME NEW e \in Emails
      PROVE  next.attempts[e] < MaxAttempts[e] /\ next.attempts[e] <= tried[e]
  <2>1. next.attempts[e] = 0 \/ next.attempts[e] = run[r].attempts[e]
    BY <1>1, RestingType, NextEntryType
  <2>2. run[r].attempts[e] < MaxAttempts[e] /\ run[r].attempts[e] <= tried[e]
    BY DEF IInv, RunsCount
  <2>. QED  BY <1>1, <2>1, <2>2, AttemptsPositive
<1>4. /\ \A e \in Emails : tried'[e] >= tried[e] /\ accepted'[e] >= accepted[e]
      /\ tried' \in [Emails -> Nat] /\ accepted' \in [Emails -> Nat]
  BY <1>1
<1>. QED  BY <1>2, <1>3, <1>4, OneRunChanges

\* Writing one entry leaves what the invariant says of the others.
LEMMA OneEntryWritten ==
  ASSUME IInv, NEW e \in Emails, NEW entry \in EntryType,
         outbox' = [outbox EXCEPT ![e] = entry], UNCHANGED <<tried, accepted>>,
         entry.attempts <= MaxAttempts[e], entry.attempts <= tried[e],
         entry.status # "FAILED" => entry.attempts < MaxAttempts[e],
         entry.status = "FAILED" => tried[e] >= MaxAttempts[e],
         entry.status = "SENT" => accepted[e] > 0
  PROVE  /\ outbox' \in [Emails -> EntryType]
         /\ \A d \in Emails : outbox'[d].attempts <= MaxAttempts[d]
         /\ EntriesCount' /\ NotGivenUpEarly' /\ SentWasAccepted'
<1>1. outbox \in [Emails -> EntryType] /\ \A d \in Emails : outbox[d].attempts <= MaxAttempts[d]
  BY DEF IInv, TypeOK
<1>2. outbox' \in [Emails -> EntryType]
  BY <1>1
<1>3. ASSUME NEW d \in Emails
      PROVE  /\ outbox'[d].attempts <= MaxAttempts[d]
             /\ outbox'[d].attempts <= tried[d]
             /\ outbox'[d].status # "FAILED" => outbox'[d].attempts < MaxAttempts[d]
             /\ outbox'[d].status = "FAILED" => tried[d] >= MaxAttempts[d]
             /\ outbox'[d].status = "SENT" => accepted[d] > 0
  <2>1. CASE d = e
    BY <1>1, <2>1
  <2>2. CASE d # e
    <3>1. outbox'[d] = outbox[d]
      BY <1>1, <2>2
    <3>. QED  BY <1>1, <3>1 DEF IInv, EntriesCount, NotGivenUpEarly, SentWasAccepted
  <2>. QED  BY <2>1, <2>2
<1>. QED  BY <1>2, <1>3 DEF EntriesCount, NotGivenUpEarly, SentWasAccepted

LEMMA EnqueueKeeps == ASSUME IInv, NEW e \in Emails, Enqueue(e) PROVE IInv'
<1>1. outbox \in [Emails -> EntryType]
  BY DEF IInv, TypeOK
<1>. DEFINE entry == [outbox[e] EXCEPT !.status = "PENDING"]
<1>2. /\ outbox' = [outbox EXCEPT ![e] = entry]
      /\ entry \in EntryType /\ entry.status = "PENDING" /\ entry.attempts = outbox[e].attempts
  BY <1>1 DEF Enqueue, EntryType
<1>3. /\ outbox[e].attempts <= MaxAttempts[e] /\ outbox[e].attempts <= tried[e]
      /\ outbox[e].attempts < MaxAttempts[e]
  BY DEF Enqueue, IInv, TypeOK, EntriesCount
<1>4. /\ outbox' \in [Emails -> EntryType]
      /\ \A d \in Emails : outbox'[d].attempts <= MaxAttempts[d]
      /\ EntriesCount' /\ NotGivenUpEarly' /\ SentWasAccepted'
  <2>. HIDE DEF entry
  <2>. QED  BY <1>2, <1>3, OneEntryWritten DEF Enqueue
<1>. QED  BY <1>4 DEF Enqueue, IInv, TypeOK, RunsCount, SentIsAccepted

\* The entries do not change: neither does what the invariant says of them.
LEMMA EntriesKept ==
  ASSUME IInv, UNCHANGED outbox, tried' \in [Emails -> Nat], accepted' \in [Emails -> Nat],
         \A e \in Emails : tried'[e] >= tried[e] /\ accepted'[e] >= accepted[e]
  PROVE  /\ outbox' \in [Emails -> EntryType]
         /\ \A e \in Emails : outbox'[e].attempts <= MaxAttempts[e]
         /\ EntriesCount' /\ NotGivenUpEarly' /\ SentWasAccepted'
<1>1. ASSUME NEW e \in Emails
      PROVE  /\ outbox[e].attempts <= tried'[e]
             /\ outbox[e].status = "FAILED" => tried'[e] >= MaxAttempts[e]
             /\ outbox[e].status = "SENT" => accepted'[e] > 0
  <2>1. /\ tried[e] \in Nat /\ tried'[e] \in Nat /\ accepted[e] \in Nat /\ accepted'[e] \in Nat
        /\ outbox[e].attempts \in Nat /\ MaxAttempts[e] \in Nat
    BY AttemptsPositive DEF IInv, TypeOK, EntryType
  <2>2. /\ outbox[e].attempts <= tried[e]
        /\ outbox[e].status = "FAILED" => tried[e] >= MaxAttempts[e]
        /\ outbox[e].status = "SENT" => accepted[e] > 0
    BY DEF IInv, EntriesCount, NotGivenUpEarly, SentWasAccepted
  <2>. QED  BY <2>1, <2>2
<1>. QED  BY <1>1 DEF IInv, TypeOK, EntriesCount, NotGivenUpEarly, SentWasAccepted

LEMMA FindsKeeps == ASSUME IInv, NEW r \in Runs, Finds(r) PROVE IInv'
<1>1. PICK batch \in SUBSET Emails :
        run' = [run EXCEPT ![r] = [Resting EXCEPT
                 !.pc = "batch", !.left = batch,
                 !.attempts = [e \in Emails |-> IF e \in batch THEN outbox[e].attempts ELSE 0]]]
        /\ \A e \in batch : outbox[e].status \in Deliverable
  BY DEF Finds, Batches, DueForDelivery
<1>. DEFINE loaded == [e \in Emails |-> IF e \in batch THEN outbox[e].attempts ELSE 0]
            next == [Resting EXCEPT !.pc = "batch", !.left = batch, !.attempts = loaded]
<1>2. /\ outbox \in [Emails -> EntryType]
      /\ tried \in [Emails -> Nat] /\ accepted \in [Emails -> Nat]
  BY DEF IInv, TypeOK
<1>3. loaded \in [Emails -> Nat]
  BY <1>2 DEF EntryType
<1>4. ASSUME NEW e \in Emails PROVE loaded[e] < MaxAttempts[e] /\ loaded[e] <= tried[e]
  <2>1. CASE e \in batch
    BY <1>1, <2>1 DEF IInv, EntriesCount, Deliverable
  <2>2. CASE e \notin batch
    BY <1>2, <2>2, AttemptsPositive
  <2>. QED  BY <2>1, <2>2
<1>5. /\ next \in RunType /\ next.pc = "batch" /\ next.attempts = loaded
      /\ run' = [run EXCEPT ![r] = next]
  BY <1>1, <1>3, RestingType DEF RunType
<1>6. \A e \in Emails : tried'[e] >= tried[e] /\ accepted'[e] >= accepted[e]
  BY <1>2 DEF Finds
<1>7. run' \in [Runs -> RunType] /\ RunsCount' /\ SentIsAccepted'
  <2>. HIDE DEF loaded, next
  <2>. QED  BY <1>2, <1>4, <1>5, <1>6, OneRunChanges DEF Finds
<1>8. /\ outbox' \in [Emails -> EntryType]
      /\ \A d \in Emails : outbox'[d].attempts <= MaxAttempts[d]
      /\ EntriesCount' /\ NotGivenUpEarly' /\ SentWasAccepted'
  BY <1>2, <1>6, EntriesKept DEF Finds
<1>9. faults' \in 0..MaxFaults /\ overlapped' \in BOOLEAN
  BY DEF Finds, IInv, TypeOK
<1>. QED  BY <1>2, <1>7, <1>8, <1>9 DEF Finds, IInv, TypeOK

LEMMA ClaimsKeeps == ASSUME IInv, NEW r \in Runs, Claims(r) PROVE IInv'
<1>1. PICK e \in Emails :
         /\ outbox' = [outbox EXCEPT ![e] = Claimed(run[r].attempts[e])]
         /\ run' = [run EXCEPT ![r].pc = "send", ![r].email = e,
                               ![r].left = run[r].left \ {e}, ![r].lease = Lease]
  BY DEF Claims, IInv, TypeOK, RunType
<1>. DEFINE next == [run[r] EXCEPT !.pc = "send", !.email = e,
                                   !.left = run[r].left \ {e}, !.lease = Lease]
<1>2. /\ run \in [Runs -> RunType] /\ run[r] \in RunType
      /\ tried \in [Emails -> Nat] /\ accepted \in [Emails -> Nat]
  BY DEF IInv, TypeOK
<1>3. /\ next \in RunType /\ next.pc = "send" /\ next.attempts = run[r].attempts
      /\ run' = [run EXCEPT ![r] = next]
  BY <1>1, <1>2, OutboxAssumption DEF RunType
<1>4. \A d \in Emails : run[r].attempts[d] < MaxAttempts[d] /\ run[r].attempts[d] <= tried[d]
  BY DEF IInv, RunsCount
<1>5. run[r].attempts[e] \in Nat
  BY <1>2 DEF RunType
<1>. UNCHANGED <<tried, accepted>>
  BY DEF Claims
<1>6. run' \in [Runs -> RunType] /\ RunsCount' /\ SentIsAccepted'
  <2>1. /\ tried' \in [Emails -> Nat] /\ accepted' \in [Emails -> Nat]
        /\ \A d \in Emails : tried'[d] >= tried[d] /\ accepted'[d] >= accepted[d]
        /\ \A d \in Emails : next.attempts[d] < MaxAttempts[d] /\ next.attempts[d] <= tried'[d]
    BY <1>2, <1>3, <1>4
  <2>. HIDE DEF next
  <2>. QED  BY <1>3, <2>1, OneRunChanges
<1>. DEFINE entry == Claimed(run[r].attempts[e])
<1>7. /\ entry \in EntryType /\ outbox' = [outbox EXCEPT ![e] = entry]
      /\ entry.attempts = run[r].attempts[e] /\ entry.status = "PROCESSING"
  BY <1>1, <1>5, EntryTypes DEF Claimed
<1>8. /\ outbox' \in [Emails -> EntryType]
      /\ \A d \in Emails : outbox'[d].attempts <= MaxAttempts[d]
      /\ EntriesCount' /\ NotGivenUpEarly' /\ SentWasAccepted'
  <2>1. /\ entry.attempts <= MaxAttempts[e] /\ entry.attempts <= tried[e]
        /\ entry.attempts < MaxAttempts[e]
    BY <1>4, <1>5, <1>7, AttemptsPositive
  <2>. HIDE DEF entry
  <2>. QED  BY <1>7, <2>1, OneEntryWritten
<1>. QED  BY <1>6, <1>8 DEF Claims, IInv, TypeOK

LEMMA SendsKeeps == ASSUME IInv, NEW r \in Runs, Sends(r) PROVE IInv'
<1>. DEFINE e == run[r].email
<1>1. /\ run \in [Runs -> RunType] /\ run[r] \in RunType /\ e \in Emails
      /\ tried \in [Emails -> Nat] /\ accepted \in [Emails -> Nat]
  BY DEF IInv, TypeOK, RunType
<1>2. PICK pc \in {"sent", "failed"} :
         /\ run' = [run EXCEPT ![r].pc = pc]
         /\ tried' = [tried EXCEPT ![e] = tried[e] + 1]
         /\ \/ pc = "sent" /\ accepted' = [accepted EXCEPT ![e] = accepted[e] + 1]
            \/ pc = "failed" /\ accepted' = accepted
  BY DEF Sends
<1>. DEFINE next == [run[r] EXCEPT !.pc = pc]
<1>3. /\ next \in RunType /\ next.pc = pc /\ next.email = e /\ next.attempts = run[r].attempts
      /\ run' = [run EXCEPT ![r] = next]
  BY <1>1, <1>2 DEF RunType
<1>. HIDE DEF next, e
<1>4. /\ tried' \in [Emails -> Nat] /\ tried'[e] = tried[e] + 1
      /\ \A d \in Emails : tried'[d] >= tried[d]
  BY <1>1, <1>2
<1>5. /\ accepted' \in [Emails -> Nat] /\ (pc = "sent" => accepted'[e] > 0)
      /\ \A d \in Emails : accepted'[d] >= accepted[d]
  BY <1>1, <1>2
<1>6. ASSUME NEW d \in Emails
      PROVE  /\ run[r].attempts[d] < MaxAttempts[d] /\ run[r].attempts[d] <= tried[d]
             /\ run[r].attempts[d] \in Nat /\ tried[d] \in Nat /\ tried'[d] \in Nat
  BY <1>1, <1>4 DEF IInv, RunsCount, RunType
<1>7. run' \in [Runs -> RunType] /\ RunsCount' /\ SentIsAccepted'
  <2>1. /\ \A d \in Emails : next.attempts[d] < MaxAttempts[d] /\ next.attempts[d] <= tried'[d]
        /\ next.attempts[next.email] < tried'[next.email]
        /\ next.pc = "sent" => accepted'[next.email] > 0
    BY <1>1, <1>3, <1>4, <1>5, <1>6
  <2>. QED  BY <1>3, <1>4, <1>5, <2>1, OneRunChanges
<1>8. /\ outbox' \in [Emails -> EntryType]
      /\ \A d \in Emails : outbox'[d].attempts <= MaxAttempts[d]
      /\ EntriesCount' /\ NotGivenUpEarly' /\ SentWasAccepted'
  BY <1>4, <1>5, EntriesKept DEF Sends
<1>. QED  BY <1>4, <1>5, <1>7, <1>8 DEF Sends, IInv, TypeOK

LEMMA SavesKeep ==
  ASSUME IInv, NEW r \in Runs, SavesSent(r) \/ SavesFailure(r) PROVE IInv'
<1>. DEFINE e == run[r].email
            loaded == run[r].attempts[e]
<1>1. /\ run \in [Runs -> RunType] /\ run[r] \in RunType /\ e \in Emails /\ loaded \in Nat
      /\ tried \in [Emails -> Nat] /\ accepted \in [Emails -> Nat]
  BY DEF IInv, TypeOK, RunType
<1>2. /\ run' = [run EXCEPT ![r] = NextEntry(r)]
      /\ UNCHANGED <<tried, accepted, faults, overlapped>>
      /\ run[r].pc \in {"sent", "failed"}
  BY DEF SavesSent, SavesFailure
<1>3. loaded < MaxAttempts[e] /\ loaded < tried[e]
  BY <1>1, <1>2 DEF IInv, RunsCount
<1>4. run' \in [Runs -> RunType] /\ RunsCount' /\ SentIsAccepted'
  BY <1>2, RunLeavesEntry
<1>5. /\ outbox' \in [Emails -> EntryType]
      /\ \A d \in Emails : outbox'[d].attempts <= MaxAttempts[d]
      /\ EntriesCount' /\ NotGivenUpEarly' /\ SentWasAccepted'
  <2>1. CASE SavesSent(r)
    <3>. DEFINE entry == Sent(loaded)
    <3>1. /\ entry \in EntryType /\ entry.status = "SENT" /\ entry.attempts = loaded
          /\ outbox' = [outbox EXCEPT ![e] = entry]
      BY <1>1, <2>1, EntryTypes DEF SavesSent, Sent
    <3>2. accepted[e] > 0
      BY <2>1 DEF SavesSent, IInv, SentIsAccepted
    <3>3. entry.attempts < MaxAttempts[e] /\ entry.attempts <= MaxAttempts[e]
          /\ entry.attempts <= tried[e]
      BY <1>1, <1>3, <3>1, AttemptsPositive
    <3>. HIDE DEF entry, e
    <3>. QED  BY <1>1, <1>2, <3>1, <3>2, <3>3, OneEntryWritten
  <2>2. CASE SavesFailure(r)
    <3>. DEFINE entry == Failed(e, loaded + 1)
    <3>1. entry \in EntryType /\ outbox' = [outbox EXCEPT ![e] = entry]
      BY <1>1, <2>2, EntryTypes DEF SavesFailure
    <3>2. /\ entry.attempts = loaded + 1
          /\ entry.status \in {"PENDING", "FAILED"}
          /\ entry.status = "FAILED" <=> loaded + 1 >= MaxAttempts[e]
      BY DEF Failed, Exhausted
    <3>3. /\ entry.attempts <= MaxAttempts[e] /\ entry.attempts <= tried[e]
          /\ entry.status # "FAILED" => entry.attempts < MaxAttempts[e]
          /\ entry.status = "FAILED" => tried[e] >= MaxAttempts[e]
      <4>. HIDE DEF entry, e, loaded
      <4>. QED  BY <1>1, <1>3, <3>2, AttemptsPositive
    <3>. HIDE DEF entry, e
    <3>. QED  BY <1>1, <1>2, <3>1, <3>2, <3>3, OneEntryWritten
  <2>. QED  BY <2>1, <2>2
<1>. QED  BY <1>1, <1>2, <1>4, <1>5 DEF IInv, TypeOK

LEMMA LosesSaveKeeps == ASSUME IInv, NEW r \in Runs, LosesSave(r) PROVE IInv'
<1>1. /\ run \in [Runs -> RunType] /\ run[r] \in RunType /\ run[r].email \in Emails
      /\ tried \in [Emails -> Nat] /\ accepted \in [Emails -> Nat]
  BY DEF IInv, TypeOK, RunType
<1>. UNCHANGED <<outbox, tried, accepted, overlapped>> /\ faults' \in 0..MaxFaults
  BY OutboxAssumption DEF LosesSave, IInv, TypeOK
<1>2. run' \in [Runs -> RunType] /\ RunsCount' /\ SentIsAccepted'
  <2>1. CASE run' = [run EXCEPT ![r] = Resting]
    BY <2>1, RunLeavesEntry
  <2>2. CASE run[r].pc = "sent" /\ run' = [run EXCEPT ![r].pc = "failed"]
    <3>. DEFINE next == [run[r] EXCEPT !.pc = "failed"]
    <3>1. /\ next \in RunType /\ next.pc = "failed" /\ next.email = run[r].email
          /\ next.attempts = run[r].attempts /\ run' = [run EXCEPT ![r] = next]
      BY <1>1, <2>2 DEF RunType
    <3>2. /\ \A e \in Emails : next.attempts[e] < MaxAttempts[e] /\ next.attempts[e] <= tried'[e]
          /\ next.attempts[next.email] < tried'[next.email]
      BY <2>2, <3>1 DEF IInv, RunsCount
    <3>3. /\ \A e \in Emails : tried'[e] >= tried[e] /\ accepted'[e] >= accepted[e]
          /\ tried' \in [Emails -> Nat] /\ accepted' \in [Emails -> Nat]
      BY <1>1
    <3>. HIDE DEF next
    <3>. QED  BY <3>1, <3>2, <3>3, OneRunChanges
  <2>. QED  BY <2>1, <2>2 DEF LosesSave
<1>. QED  BY <1>2 DEF IInv, TypeOK, EntriesCount, NotGivenUpEarly, SentWasAccepted

LEMMA CrashesKeeps == ASSUME IInv, Crashes PROVE IInv'
<1>1. UNCHANGED <<outbox, tried, accepted, overlapped>> /\ faults' \in 0..MaxFaults
  BY OutboxAssumption DEF Crashes, IInv, TypeOK
<1>2. run' \in [Runs -> RunType] /\ \A r \in Runs : run'[r] = Resting
  BY RestingType DEF Crashes
<1>3. RunsCount' /\ SentIsAccepted'
  <2>1. \A e \in Emails : tried[e] \in Nat /\ tried'[e] = tried[e]
    BY <1>1 DEF IInv, TypeOK
  <2>2. \A r \in Runs : run'[r].pc = "idle" /\ run'[r].attempts = [e \in Emails |-> 0]
    BY <1>2, RestingType
  <2>. QED  BY <2>1, <2>2, AttemptsPositive DEF RunsCount, SentIsAccepted
<1>. QED  BY <1>1, <1>2, <1>3 DEF IInv, TypeOK, EntriesCount, NotGivenUpEarly, SentWasAccepted

LEMMA TickKeeps == ASSUME IInv, Tick PROVE IInv'
<1>1. UNCHANGED <<tried, accepted, faults, overlapped>>
  BY DEF Tick
<1>2. ASSUME NEW e \in Emails
      PROVE  /\ outbox'[e] = [outbox[e] EXCEPT !.due = Less(outbox[e].due)]
             /\ outbox'[e] \in EntryType
             /\ outbox'[e].status = outbox[e].status /\ outbox'[e].attempts = outbox[e].attempts
  <2>1. outbox[e] \in EntryType /\ Less(outbox[e].due) \in Nat
    BY LessType DEF IInv, TypeOK, EntryType
  <2>. QED  BY <2>1 DEF Tick, EntryType
<1>3. ASSUME NEW r \in Runs
      PROVE  /\ run'[r] \in RunType
             /\ run'[r].pc = run[r].pc /\ run'[r].email = run[r].email
             /\ run'[r].attempts = run[r].attempts
  <2>1. run[r] \in RunType /\ Less(run[r].lease) \in Nat
    BY LessType DEF IInv, TypeOK, RunType
  <2>. QED  BY <2>1 DEF Tick, RunType
<1>4. outbox' \in [Emails -> EntryType] /\ run' \in [Runs -> RunType]
  BY <1>2, <1>3 DEF Tick
<1>5. TypeOK'
  BY <1>1, <1>2, <1>4 DEF IInv, TypeOK
<1>6. RunsCount' /\ SentIsAccepted'
  BY <1>1, <1>3 DEF IInv, RunsCount, SentIsAccepted
<1>. QED  BY <1>1, <1>2, <1>5, <1>6 DEF IInv, EntriesCount, NotGivenUpEarly, SentWasAccepted

\* The invariant holds at first and every step keeps it.
LEMMA InvariantInductive ==
  /\ Init => IInv
  /\ IInv /\ [Next]_vars => IInv'
<1>1. Init => IInv
  <2>. SUFFICES ASSUME Init PROVE IInv
    OBVIOUS
  <2>1. /\ \A e \in Emails : outbox[e].status = "NEW" /\ outbox[e].attempts = 0 /\ outbox[e] \in EntryType
        /\ outbox \in [Emails -> EntryType]
    BY DEF Init, EntryType
  <2>2. /\ \A r \in Runs : run[r] = Resting
        /\ run \in [Runs -> RunType]
    BY RestingType DEF Init
  <2>3. tried \in [Emails -> Nat] /\ accepted \in [Emails -> Nat] /\ \A e \in Emails : tried[e] = 0
    BY DEF Init
  <2>4. TypeOK
    <3>1. \A e \in Emails : outbox[e].attempts <= MaxAttempts[e]
      BY <2>1, AttemptsPositive
    <3>2. faults = 0 /\ MaxFaults \in Nat /\ overlapped \in BOOLEAN
      BY OutboxAssumption, Zenon DEF Init
    <3>3. faults \in 0..MaxFaults
      BY <3>2
    <3>. QED  BY <2>1, <2>2, <2>3, <3>1, <3>2, <3>3 DEF TypeOK
  <2>5. RunsCount /\ SentIsAccepted
    BY <2>2, <2>3, RestingType, AttemptsPositive DEF RunsCount, SentIsAccepted
  <2>. QED  BY <2>1, <2>3, <2>4, <2>5, AttemptsPositive
            DEF IInv, EntriesCount, NotGivenUpEarly, SentWasAccepted
<1>2. ASSUME IInv, [Next]_vars PROVE IInv'
  <2>1. CASE \E e \in Emails : Enqueue(e)
    BY <1>2, <2>1, EnqueueKeeps
  <2>2. CASE \E r \in Runs : Works(r) \/ LosesSave(r)
    BY <1>2, <2>2, FindsKeeps, ClaimsKeeps, SendsKeeps, SavesKeep, LosesSaveKeeps DEF Works
  <2>3. CASE Crashes \/ Tick
    BY <1>2, <2>3, CrashesKeeps, TickKeeps
  <2>4. CASE UNCHANGED vars
    BY <1>2, <2>4 DEF vars, IInv, TypeOK, RunsCount, EntriesCount, SentIsAccepted,
                      NotGivenUpEarly, SentWasAccepted
  <2>. QED  BY <1>2, <2>1, <2>2, <2>3, <2>4 DEF Next
<1>. QED  BY <1>1, <1>2

\* Types, and no entry with more attempts than its maximum.
THEOREM TypeCorrect == Spec => []TypeOK
<1>1. IInv => TypeOK
  BY DEF IInv
<1>. QED  BY <1>1, InvariantInductive, PTL DEF Spec

\* However many runs overlap and write old counts over new ones, an email is not
\* given up before it has been tried as often as asked.
THEOREM GivenUpAfterMaxAttempts == Spec => []NotGivenUpEarly
<1>1. IInv => NotGivenUpEarly
  BY DEF IInv
<1>. QED  BY <1>1, InvariantInductive, PTL DEF Spec

\* Whichever run has written it, SENT means that the provider took the email.
THEOREM SentMeansAccepted == Spec => []SentWasAccepted
<1>1. IInv => SentWasAccepted
  BY DEF IInv
<1>. QED  BY <1>1, InvariantInductive, PTL DEF Spec

-----------------------------------------------------------------------------
(* Runs that do not overlap.                                               *)

\* One run is at work; what it has still to do is not SENT; and only the entry it
\* is about to mark, or one that is marked, may have gone out once more than there
\* were faults.
Alone ==
    /\ \A r, q \in Runs : run[r].pc # "idle" /\ run[q].pc # "idle" => r = q
    /\ \A r \in Runs :
         /\ run[r].pc = "idle" => run[r].left = {}
         /\ \A e \in run[r].left : outbox[e].status # "SENT"
         /\ run[r].pc \in {"send", "sent", "failed"} =>
              outbox[run[r].email].status # "SENT" /\ run[r].email \notin run[r].left
    /\ \A e \in Emails :
         /\ accepted[e] <= 1 + faults
         /\ \/ outbox[e].status = "SENT"
            \/ \E r \in Runs : run[r].pc = "sent" /\ run[r].email = e
            \/ accepted[e] <= faults

AloneInv == TypeOK /\ (~overlapped => Alone)

\* The run that acts is the one at work; the others rest.
LEMMA OthersRest ==
  ASSUME TypeOK, Alone, NEW r \in Runs, run[r].pc # "idle"
  PROVE  /\ \A q \in Runs : q # r => run[q].pc = "idle" /\ run[q].left = {}
         /\ \A e \in Emails : \/ outbox[e].status = "SENT"
                              \/ run[r].pc = "sent" /\ run[r].email = e
                              \/ accepted[e] <= faults
BY DEF Alone

\* A step of the run at work keeps the others resting, so what it leaves of its
\* own batch and of the entry it works on decides.
LEMMA StaysAlone ==
  ASSUME TypeOK, NEW r \in Runs, NEW next, run' = [run EXCEPT ![r] = next],
         \A q \in Runs : q # r => run[q].pc = "idle" /\ run[q].left = {},
         next.pc = "idle" => next.left = {},
         \A e \in next.left : outbox'[e].status # "SENT",
         next.pc \in {"send", "sent", "failed"} =>
           outbox'[next.email].status # "SENT" /\ next.email \notin next.left,
         \A e \in Emails :
           /\ accepted'[e] <= 1 + faults'
           /\ \/ outbox'[e].status = "SENT"
              \/ next.pc = "sent" /\ next.email = e
              \/ accepted'[e] <= faults'
  PROVE  Alone'
<1>1. run'[r] = next /\ \A q \in Runs : q # r => run'[q] = run[q]
  BY DEF TypeOK
<1>2. \A q \in Runs : q # r => run'[q].pc = "idle" /\ run'[q].left = {}
  BY <1>1
<1>3. \A p, q \in Runs : run'[p].pc # "idle" /\ run'[q].pc # "idle" => p = q
  BY <1>2
<1>4. ASSUME NEW q \in Runs
      PROVE  /\ run'[q].pc = "idle" => run'[q].left = {}
             /\ \A e \in run'[q].left : outbox'[e].status # "SENT"
             /\ run'[q].pc \in {"send", "sent", "failed"} =>
                  outbox'[run'[q].email].status # "SENT" /\ run'[q].email \notin run'[q].left
  BY <1>1, <1>2
<1>5. \A e \in Emails :
         /\ accepted'[e] <= 1 + faults'
         /\ \/ outbox'[e].status = "SENT"
            \/ \E q \in Runs : run'[q].pc = "sent" /\ run'[q].email = e
            \/ accepted'[e] <= faults'
  BY <1>1
<1>. QED  BY <1>3, <1>4, <1>5 DEF Alone

LEMMA WorksAlone ==
  ASSUME TypeOK, Alone, NEW r \in Runs, Works(r), ~overlapped' PROVE Alone'
<1>1. /\ run \in [Runs -> RunType] /\ outbox \in [Emails -> EntryType]
      /\ run[r] \in RunType /\ run[r].email \in Emails /\ run[r].left \in SUBSET Emails
      /\ accepted \in [Emails -> Nat] /\ faults \in Nat
  <2>1. /\ run \in [Runs -> RunType] /\ outbox \in [Emails -> EntryType]
        /\ accepted \in [Emails -> Nat] /\ faults \in 0..MaxFaults
    BY DEF TypeOK
  <2>2. run[r] \in RunType
    BY <2>1
  <2>3. MaxFaults \in Nat
    BY OutboxAssumption, Zenon
  <2>. QED  BY <2>1, <2>2, <2>3 DEF RunType
<1>2. CASE Finds(r)
  <2>1. \A q \in Runs : run[q].pc = "idle" /\ run[q].left = {}
    BY <1>2 DEF Finds, Alone
  <2>2. PICK batch \in SUBSET Emails :
          run' = [run EXCEPT ![r] = [Resting EXCEPT
                   !.pc = "batch", !.left = batch,
                   !.attempts = [e \in Emails |-> IF e \in batch THEN outbox[e].attempts ELSE 0]]]
          /\ \A e \in batch : outbox[e].status \in Deliverable
    BY <1>2 DEF Finds, Batches, DueForDelivery
  <2>. DEFINE next == [Resting EXCEPT
                   !.pc = "batch", !.left = batch,
                   !.attempts = [e \in Emails |-> IF e \in batch THEN outbox[e].attempts ELSE 0]]
  <2>3. next.pc = "batch" /\ next.left = batch /\ run' = [run EXCEPT ![r] = next]
    BY <2>2 DEF Resting
  <2>4. \A e \in batch : outbox'[e].status # "SENT"
    BY <1>2, <2>2 DEF Finds, Deliverable
  <2>5. \A e \in Emails : /\ accepted'[e] <= 1 + faults'
                          /\ outbox'[e].status = "SENT" \/ accepted'[e] <= faults'
    BY <1>2, <2>1 DEF Finds, Alone
  <2>. HIDE DEF next
  <2>. QED  BY <2>1, <2>3, <2>4, <2>5, StaysAlone
<1>3. CASE Claims(r)
  <2>1. PICK e \in run[r].left :
         /\ outbox' = [outbox EXCEPT ![e] = Claimed(run[r].attempts[e])]
         /\ run' = [run EXCEPT ![r].pc = "send", ![r].email = e,
                               ![r].left = run[r].left \ {e}, ![r].lease = Lease]
    BY <1>3 DEF Claims
  <2>. DEFINE next == [run[r] EXCEPT !.pc = "send", !.email = e,
                                     !.left = run[r].left \ {e}, !.lease = Lease]
  <2>2. /\ next.pc = "send" /\ next.email = e /\ next.left = run[r].left \ {e}
        /\ run' = [run EXCEPT ![r] = next] /\ e \in Emails
    BY <1>1, <2>1 DEF RunType
  <2>3. outbox'[e].status = "PROCESSING" /\ \A d \in Emails : d # e => outbox'[d] = outbox[d]
    BY <1>1, <2>1, <2>2 DEF Claimed
  <2>4. \A d \in run[r].left : outbox[d].status # "SENT"
    BY DEF Alone
  <2>5. run[r].pc = "batch" /\ UNCHANGED <<accepted, faults>>
    BY <1>3 DEF Claims
  <2>6. \A d \in Emails : /\ accepted'[d] <= 1 + faults'
                          /\ outbox'[d].status = "SENT" \/ accepted'[d] <= faults'
    BY <2>3, <2>4, <2>5, OthersRest DEF Alone
  <2>7. \A d \in next.left : outbox'[d].status # "SENT"
    BY <1>1, <2>2, <2>3, <2>4
  <2>. HIDE DEF next
  <2>. QED  BY <2>2, <2>3, <2>5, <2>6, <2>7, OthersRest, StaysAlone
<1>4. CASE Sends(r)
  <2>. DEFINE e == run[r].email
  <2>1. PICK pc \in {"sent", "failed"} :
           /\ run' = [run EXCEPT ![r].pc = pc]
           /\ \/ pc = "sent" /\ accepted' = [accepted EXCEPT ![e] = accepted[e] + 1]
              \/ pc = "failed" /\ accepted' = accepted
    BY <1>4 DEF Sends
  <2>. DEFINE next == [run[r] EXCEPT !.pc = pc]
  <2>2. /\ next.pc = pc /\ next.email = e /\ next.left = run[r].left
        /\ run' = [run EXCEPT ![r] = next]
    BY <1>1, <2>1 DEF RunType
  <2>3. run[r].pc = "send" /\ UNCHANGED <<outbox, faults>>
    BY <1>4 DEF Sends
  <2>4. outbox[e].status # "SENT" /\ e \notin run[r].left
        /\ \A d \in run[r].left : outbox[d].status # "SENT"
    BY <2>3 DEF Alone
  <2>5. \A d \in Emails : accepted[d] <= 1 + faults /\ (outbox[d].status = "SENT" \/ accepted[d] <= faults)
    BY <2>3, OthersRest DEF Alone
  <2>6. \A d \in Emails :
           /\ accepted'[d] <= 1 + faults'
           /\ \/ outbox'[d].status = "SENT"
              \/ pc = "sent" /\ e = d
              \/ accepted'[d] <= faults'
    <3>. HIDE DEF e, next
    <3>. QED  BY <1>1, <2>1, <2>3, <2>4, <2>5
  <2>7. /\ next.pc # "idle" /\ next.pc = pc
        /\ \A d \in next.left : outbox'[d].status # "SENT"
        /\ outbox'[next.email].status # "SENT" /\ next.email \notin next.left
    BY <2>2, <2>3, <2>4
  <2>8. \A d \in Emails :
           /\ accepted'[d] <= 1 + faults'
           /\ \/ outbox'[d].status = "SENT"
              \/ next.pc = "sent" /\ next.email = d
              \/ accepted'[d] <= faults'
    BY <2>2, <2>6
  <2>9. \A q \in Runs : q # r => run[q].pc = "idle" /\ run[q].left = {}
    BY <2>3, OthersRest
  <2>. HIDE DEF next, e
  <2>. QED  BY <2>2, <2>7, <2>8, <2>9, StaysAlone
<1>5. CASE SavesSent(r) \/ SavesFailure(r)
  <2>. DEFINE e == run[r].email
  <2>1. /\ run' = [run EXCEPT ![r] = NextEntry(r)] /\ UNCHANGED <<accepted, faults>>
        /\ run[r].pc \in {"sent", "failed"}
    BY <1>5 DEF SavesSent, SavesFailure
  <2>2. /\ NextEntry(r).pc \in {"idle", "batch"} /\ NextEntry(r).left = run[r].left
        /\ NextEntry(r).pc = "idle" => NextEntry(r).left = {}
    <3>1. /\ NextEntry(r).pc \in {"idle", "batch"} /\ NextEntry(r).left = run[r].left
      BY <1>1, NextEntryType
    <3>2. CASE run[r].left # {}
      <4>1. NextEntry(r).pc = "batch"
        BY <1>1, <3>2 DEF NextEntry, RunType
      <4>. QED  BY <3>1, <4>1
    <3>. QED  BY <3>1, <3>2
  <2>3. outbox[e].status # "SENT" /\ e \notin run[r].left
        /\ \A d \in run[r].left : outbox[d].status # "SENT"
    BY <2>1 DEF Alone
  <2>4. /\ \A d \in Emails : d # e => outbox'[d] = outbox[d]
        /\ run[r].pc = "sent" => outbox'[e].status = "SENT"
    BY <1>1, <1>5 DEF SavesSent, SavesFailure, Sent
  <2>5. \A d \in Emails : /\ accepted'[d] <= 1 + faults'
                          /\ outbox'[d].status = "SENT" \/ accepted'[d] <= faults'
    <3>1. \A d \in Emails : accepted[d] <= 1 + faults
      BY DEF Alone
    <3>2. \A d \in Emails : \/ outbox[d].status = "SENT"
                            \/ run[r].pc = "sent" /\ e = d
                            \/ accepted[d] <= faults
      BY <2>1, OthersRest
    <3>. HIDE DEF e
    <3>. QED  BY <2>1, <2>3, <2>4, <3>1, <3>2
  <2>6. \A d \in run[r].left : outbox'[d].status # "SENT"
    BY <1>1, <2>3, <2>4
  <2>. QED  BY <2>1, <2>2, <2>5, <2>6, OthersRest, StaysAlone
<1>. QED  BY <1>2, <1>3, <1>4, <1>5 DEF Works

LEMMA FaultsAlone ==
  ASSUME TypeOK, TypeOK', Alone, Crashes \/ \E r \in Runs : LosesSave(r) PROVE Alone'
<1>1. /\ run \in [Runs -> RunType] /\ accepted \in [Emails -> Nat] /\ faults \in Nat
      /\ faults' = faults + 1 /\ UNCHANGED <<outbox, accepted>>
  BY OutboxAssumption DEF TypeOK, Crashes, LosesSave
<1>2. \A e \in Emails : accepted'[e] <= faults' /\ accepted'[e] <= 1 + faults'
  BY <1>1 DEF Alone
<1>3. CASE Crashes
  <2>1. \A r \in Runs : run'[r].pc = "idle" /\ run'[r].left = {}
    BY <1>3, RestingType DEF Crashes
  <2>. QED  BY <1>2, <2>1 DEF Alone
<1>4. ASSUME NEW r \in Runs, LosesSave(r) PROVE Alone'
  <2>1. run[r].pc # "idle"
    BY <1>4 DEF LosesSave
  <2>2. CASE run' = [run EXCEPT ![r] = Resting]
    BY <1>2, <2>1, <2>2, OthersRest, RestingType, StaysAlone
  <2>3. CASE run[r].pc = "sent" /\ run' = [run EXCEPT ![r].pc = "failed"]
    <3>. DEFINE next == [run[r] EXCEPT !.pc = "failed"]
    <3>1. /\ next.pc = "failed" /\ next.email = run[r].email /\ next.left = run[r].left
          /\ run' = [run EXCEPT ![r] = next]
      BY <1>1, <2>3 DEF RunType
    <3>2. /\ outbox'[next.email].status # "SENT" /\ next.email \notin next.left
          /\ \A e \in next.left : outbox'[e].status # "SENT"
      BY <1>1, <2>3, <3>1 DEF Alone
    <3>. HIDE DEF next
    <3>. QED  BY <1>2, <2>1, <3>1, <3>2, OthersRest, StaysAlone
  <2>. QED  BY <1>4, <2>2, <2>3 DEF LosesSave
<1>. QED  BY <1>3, <1>4

\* While runs do not overlap, an email goes out once, and once more for each
\* crash or failing save.
THEOREM OnceButForFaults == Spec => []AtMostOnceButForFaults
<1>1. Init => AloneInv
  <2>1. Init => IInv
    BY InvariantInductive
  <2>. QED  BY <2>1, RestingType, OutboxAssumption DEF Init, IInv, AloneInv, Alone
<1>2. AloneInv /\ TypeOK' /\ [Next]_vars => AloneInv'
  <2>. SUFFICES ASSUME AloneInv, TypeOK', [Next]_vars, ~overlapped' PROVE Alone'
    BY DEF AloneInv
  <2>1. TypeOK /\ Alone
    BY DEF AloneInv, Next, vars, Enqueue, Works, Finds, Claims, Sends, SavesSent, SavesFailure,
           LosesSave, Crashes, Tick
  <2>2. CASE \E e \in Emails : Enqueue(e)
    <3>1. PICK e \in Emails : Enqueue(e)
      BY <2>2
    <3>2. \A d \in Emails : outbox'[d].status = "SENT" <=> outbox[d].status = "SENT"
      BY <2>1, <3>1 DEF Enqueue, TypeOK, EntryType
    <3>. QED  BY <2>1, <3>1, <3>2 DEF Enqueue, Alone, TypeOK, RunType
  <2>3. CASE \E r \in Runs : Works(r)
    BY <2>1, <2>3, WorksAlone
  <2>4. CASE Crashes \/ \E r \in Runs : LosesSave(r)
    BY <2>1, <2>4, FaultsAlone
  <2>5. CASE Tick
    <3>1. \A e \in Emails : outbox'[e].status = outbox[e].status
      BY <2>1, <2>5 DEF Tick, TypeOK, EntryType
    <3>2. \A r \in Runs : run'[r].pc = run[r].pc /\ run'[r].left = run[r].left
                          /\ run'[r].email = run[r].email
      BY <2>1, <2>5 DEF Tick, TypeOK, RunType
    <3>3. accepted' = accepted /\ faults' = faults
      BY <2>5 DEF Tick
    <3>4. \A r \in Runs : run[r].email \in Emails /\ run[r].left \in SUBSET Emails
      BY <2>1 DEF TypeOK, RunType
    <3>. QED  BY <2>1, <3>1, <3>2, <3>3, <3>4 DEF Alone
  <2>6. CASE UNCHANGED vars
    BY <2>1, <2>6 DEF vars, Alone
  <2>. QED  BY <2>2, <2>3, <2>4, <2>5, <2>6 DEF Next
<1>3. AloneInv => AtMostOnceButForFaults
  BY DEF AloneInv, Alone, AtMostOnceButForFaults
<1>. QED  BY <1>1, <1>2, <1>3, TypeCorrect, PTL DEF Spec

=============================================================================
