---------------------------- MODULE EmailOutbox ----------------------------
(***************************************************************************)
(* The outbox of emails and the job that delivers them:                    *)
(* EmailDeliveryProcessor.processPendingEmails over table email_outbox.    *)
(*                                                                         *)
(* The job fires every minute and does not wait for the previous run, so   *)
(* runs overlap; each works on the entries it has loaded, and a save writes*)
(* them over whatever the table holds by then.                             *)
(*                                                                         *)
(* Time is kept as the minutes left until an entry's nextAttemptAt.        *)
(***************************************************************************)
EXTENDS Integers, Sequences, FiniteSets

CONSTANTS
    Emails,
    Runs,          \* runs of the job that may be active at once
    MaxAttempts,   \* of each email: what was asked for, or EMAIL_MAX_ATTEMPTS
    Delays,        \* RETRY_DELAYS_MINUTES
    Lease,         \* EMAIL_PROCESSING_LEASE_MINUTES
    BatchSize,     \* EMAIL_BATCH_SIZE
    SendsWithinLease,  \* the lease of an entry does not run out on the run that has it
    MaxFaults      \* bound of the model on crashes and failing saves

ASSUME OutboxAssumption ==
    /\ IsFiniteSet(Emails) /\ Emails # {}
    /\ MaxAttempts \in [Emails -> Nat \ {0}]
    /\ Delays \in Seq(Nat) /\ Len(Delays) > 0
    /\ Lease \in Nat \ {0} /\ BatchSize \in Nat \ {0}
    /\ SendsWithinLease \in BOOLEAN
    /\ MaxFaults \in Nat

VARIABLES
    outbox,      \* table email_outbox
    run,         \* the local state of each run
    tried,       \* how often a run has tried to deliver an email
    accepted,    \* how often the provider has accepted it
    faults,      \* crashes and failing saves so far
    overlapped   \* a run has loaded its batch while another one was at work

vars == <<outbox, run, tried, accepted, faults, overlapped>>

-----------------------------------------------------------------------------
\* NEW: nothing has been enqueued yet.
EntryType == [status : {"NEW", "PENDING", "PROCESSING", "SENT", "FAILED"},
              attempts : Nat, due : Nat]

\* left: the entries of the batch still to be processed; attempts: as loaded;
\* lease: what is left of the lease of the entry it works on.
RunType == [pc : {"idle", "batch", "send", "sent", "failed"},
            left : SUBSET Emails, attempts : [Emails -> Nat],
            email : Emails, lease : Nat]

Resting == [pc |-> "idle", left |-> {}, attempts |-> [e \in Emails |-> 0],
            email |-> CHOOSE e \in Emails : TRUE, lease |-> 0]

Init ==
    /\ outbox = [e \in Emails |-> [status |-> "NEW", attempts |-> 0, due |-> 0]]
    /\ run = [r \in Runs |-> Resting]
    /\ tried = [e \in Emails |-> 0]
    /\ accepted = [e \in Emails |-> 0]
    /\ faults = 0
    /\ overlapped = FALSE

-----------------------------------------------------------------------------
\* createPendingEntry: nextAttemptAt is the wall clock, never ahead of the
\* system time the runs compare it with.
Enqueue(e) ==
    /\ outbox[e].status = "NEW"
    /\ outbox' = [outbox EXCEPT ![e].status = "PENDING"]
    /\ UNCHANGED <<run, tried, accepted, faults, overlapped>>

\* Mutant of Deliverable: an entry whose run has died is not picked up again.
PendingOnly == {"PENDING"}

\* findDueForDelivery
Deliverable == {"PENDING", "PROCESSING"}

DueForDelivery == {e \in Emails : outbox[e].status \in Deliverable /\ outbox[e].due = 0}

\* The oldest of the due entries come first; which ones is left open.
Batches ==
    {batch \in SUBSET DueForDelivery :
        \/ Cardinality(batch) = BatchSize
        \/ batch = DueForDelivery /\ Cardinality(batch) < BatchSize}

Finds(r) ==
    /\ run[r].pc = "idle"
    /\ \E batch \in Batches \ {{}} :
         run' = [run EXCEPT ![r] = [Resting EXCEPT
                    !.pc = "batch", !.left = batch,
                    !.attempts = [e \in Emails |-> IF e \in batch THEN outbox[e].attempts ELSE 0]]]
    /\ overlapped' = (overlapped \/ \E other \in Runs : run[other].pc # "idle")
    /\ UNCHANGED <<outbox, tried, accepted, faults>>

\* The entry is taken for the time of a lease.
Claimed(attempts) == [status |-> "PROCESSING", attempts |-> attempts, due |-> Lease]

Claims(r) ==
    /\ run[r].pc = "batch"
    /\ \E e \in run[r].left :
         /\ outbox' = [outbox EXCEPT ![e] = Claimed(run[r].attempts[e])]
         /\ run' = [run EXCEPT ![r].pc = "send", ![r].email = e,
                               ![r].left = run[r].left \ {e}, ![r].lease = Lease]
    /\ UNCHANGED <<tried, accepted, faults, overlapped>>

\* render and sendMail: the provider accepts the email, or one of them throws.
Sends(r) ==
    /\ run[r].pc = "send"
    /\ tried' = [tried EXCEPT ![run[r].email] = tried[run[r].email] + 1]
    /\ \/ /\ accepted' = [accepted EXCEPT ![run[r].email] = accepted[run[r].email] + 1]
          /\ run' = [run EXCEPT ![r].pc = "sent"]
       \/ /\ run' = [run EXCEPT ![r].pc = "failed"]
          /\ UNCHANGED accepted
    /\ UNCHANGED <<outbox, faults, overlapped>>

\* The run goes on with its batch, or ends with it.
NextEntry(r) ==
    IF run[r].left = {} THEN Resting
    ELSE [run[r] EXCEPT !.pc = "batch", !.attempts[run[r].email] = 0, !.lease = 0]

\* Mutant of Sent: the entry keeps its lease.
SentKeepsLease(attempts) == [status |-> "PROCESSING", attempts |-> attempts, due |-> Lease]

\* The due date of a final entry is not read any more: 0 stands for it.
Sent(attempts) == [status |-> "SENT", attempts |-> attempts, due |-> 0]

SavesSent(r) ==
    /\ run[r].pc = "sent"
    /\ outbox' = [outbox EXCEPT ![run[r].email] = Sent(run[r].attempts[run[r].email])]
    /\ run' = [run EXCEPT ![r] = NextEntry(r)]
    /\ UNCHANGED <<tried, accepted, faults, overlapped>>

\* Mutant of Exhausted: one attempt too few.
ExhaustedEarly(e, failed) == failed + 1 >= MaxAttempts[e]

Exhausted(e, failed) == failed >= MaxAttempts[e]

\* calculateNextAttemptDate: the last delay serves for all further attempts.
DelayAfter(failed) == Delays[IF failed > Len(Delays) THEN Len(Delays) ELSE failed]

\* The catch block: one more attempt has failed.
Failed(e, failed) ==
    IF Exhausted(e, failed)
    THEN [status |-> "FAILED", attempts |-> failed, due |-> 0]
    ELSE [status |-> "PENDING", attempts |-> failed, due |-> DelayAfter(failed)]

SavesFailure(r) ==
    /\ run[r].pc = "failed"
    /\ LET e == run[r].email
       IN  outbox' = [outbox EXCEPT ![e] = Failed(e, run[r].attempts[e] + 1)]
    /\ run' = [run EXCEPT ![r] = NextEntry(r)]
    /\ UNCHANGED <<tried, accepted, faults, overlapped>>

\* A save fails: the save of SENT is inside the try block, so its failure counts
\* as one of the delivery (as does an answer of the provider that gets lost); the
\* other two end the run with its batch undone.
LosesSave(r) ==
    /\ faults < MaxFaults
    /\ \/ run[r].pc = "sent" /\ run' = [run EXCEPT ![r].pc = "failed"]
       \/ run[r].pc \in {"batch", "failed"} /\ run' = [run EXCEPT ![r] = Resting]
    /\ faults' = faults + 1
    /\ UNCHANGED <<outbox, tried, accepted, overlapped>>

\* The process stops; entries in PROCESSING wait for their lease to run out.
Crashes ==
    /\ faults < MaxFaults
    /\ \E r \in Runs : run[r].pc # "idle"
    /\ run' = [r \in Runs |-> Resting]
    /\ faults' = faults + 1
    /\ UNCHANGED <<outbox, tried, accepted, overlapped>>

Less(minutes) == IF minutes > 0 THEN minutes - 1 ELSE 0

\* A minute passes.
Tick ==
    /\ \E e \in Emails : outbox[e].due > 0
    /\ SendsWithinLease =>
         \A r \in Runs : run[r].pc \in {"send", "sent", "failed"} => run[r].lease > 1
    /\ outbox' = [e \in Emails |-> [outbox[e] EXCEPT !.due = Less(outbox[e].due)]]
    /\ run' = [r \in Runs |-> [run[r] EXCEPT !.lease = Less(run[r].lease)]]
    /\ UNCHANGED <<tried, accepted, faults, overlapped>>

Works(r) == Finds(r) \/ Claims(r) \/ Sends(r) \/ SavesSent(r) \/ SavesFailure(r)

Next ==
    \/ \E e \in Emails : Enqueue(e)
    \/ \E r \in Runs : Works(r) \/ LosesSave(r)
    \/ Crashes
    \/ Tick

\* The job fires every minute, a run that can go on goes on, time passes.
Fairness == (\A r \in Runs : WF_vars(Works(r))) /\ WF_vars(Tick)

Spec == Init /\ [][Next]_vars /\ Fairness

-----------------------------------------------------------------------------
(* Properties.                                                             *)

\* Every variable keeps its type, and no entry counts more than its maximum of
\* attempts, though a run adds one to the count it has loaded.
TypeOK ==
    /\ outbox \in [Emails -> EntryType]
    /\ \A e \in Emails : outbox[e].attempts <= MaxAttempts[e]
    /\ run \in [Runs -> RunType]
    /\ tried \in [Emails -> Nat] /\ accepted \in [Emails -> Nat]
    /\ faults \in 0..MaxFaults
    /\ overlapped \in BOOLEAN

\* An email is given up only after MaxAttempts tries, however runs overlap and
\* write old counts over new ones (emailDelivery.processor.ts:52-63).
NotGivenUpEarly ==
    \A e \in Emails : outbox[e].status = "FAILED" => tried[e] >= MaxAttempts[e]

\* An entry says SENT only of an email the provider has accepted, whichever run
\* has written it (emailDelivery.processor.ts:39-50).
SentWasAccepted ==
    \A e \in Emails : outbox[e].status = "SENT" => accepted[e] > 0

\* While runs do not overlap, an email goes out once, and once more for each
\* crash or failing save.
AtMostOnceButForFaults ==
    ~overlapped => \A e \in Emails : accepted[e] <= 1 + faults

\* Every enqueued email ends SENT or FAILED and stays so, even though a slow run
\* may write an old state over a final one: a run that overlaps another sets the
\* count of attempts back, but never below what all of them have loaded.
EveryEmailSettles ==
    \A e \in Emails : <>[](outbox[e].status \notin {"PENDING", "PROCESSING"})

=============================================================================
