------------------------------ MODULE Accounts ------------------------------
(***************************************************************************)
(* What admissions (module Admission) and sessions (module Authentication) *)
(* have in common: the accounts of table system_user, one for each request *)
(* of table admission_request that was granted one, and the handlers of    *)
(* HTTP requests, which interleave at every await.                         *)
(***************************************************************************)
EXTENDS Integers, FiniteSets

CONSTANTS
    Requests,     \* admission requests, all made with one email
    Camps,
    Roles,
    Sessions,     \* rows of table session
    MaxTokens,    \* rows of table password_reset_token
    MaxAttempts,  \* PASSWORD_RESET_MAX_ATTEMPTS
    Handlers,     \* handlers that may be active at once
    MaxEvents,    \* bounds of the model: handlers that start or stop half-way,
    MaxFaults     \* and, of them, those that stop

ASSUME AccountsAssumption ==
    /\ IsFiniteSet(Handlers) /\ Handlers # {} /\ IsFiniteSet(Requests)
    /\ {MaxTokens, MaxEvents, MaxFaults} \subseteq Nat /\ MaxAttempts \in Nat \ {0}

None   == "none"
Tokens == 1 .. MaxTokens

VARIABLES
    account,    \* the account of each request
    handler,
    started, faults,
    disturbed   \* handlers have overlapped, or one has stopped half-way

shared == <<account, handler, started, faults, disturbed>>

\* INACTIVE is any status but ACTIVE; the row of a DELETED account is gone.
AccountType == [role : Roles \cup {None}, state : {"NONE", "ACTIVE", "INACTIVE", "DELETED"}]
NoAccount   == [role |-> None, state |-> "NONE"]

\* Who wrote the status of a request: the AI, for good or for a review, or a review.
RowType == [camp : Camps \cup {None}, by : {"nobody", "ai", "admin"},
            status : {"NONE", "PENDING_AI", "PENDING_ADMIN", "APPROVED", "REJECTED"}]
NoRow   == [camp |-> None, by |-> "nobody", status |-> "NONE"]

\* What a handler works on: a request or its account, the row or the account it has
\* read or is to write, the sessions it is to end, a token and its attempts as read.
HandlerType ==
    [pc : {"idle",
           "insert", "advise", "propose", "edit",                          \* Admission
           "person", "admit", "account", "rewrite", "grant", "decide",
           "login", "end", "change", "close", "delete", "forget", "issue", \* Authentication
           "expire", "count", "spend", "password", "use", "clear"},
     q : Requests \cup {None}, row : RowType, acc : AccountType,
     ends : SUBSET Sessions, t : {0} \cup Tokens, seen : Nat]

Rest == [pc |-> "idle", q |-> None, row |-> NoRow, acc |-> NoAccount,
         ends |-> {}, t |-> 0, seen |-> 0]

SharedInit ==
    /\ handler = [h \in Handlers |-> Rest]
    /\ started = 0 /\ faults = 0 /\ disturbed = FALSE

-----------------------------------------------------------------------------
At(h, pc)       == handler[h].pc = pc
Become(h, next) == handler' = [handler EXCEPT ![h] = next]

Busy   == \E h \in Handlers : ~At(h, "idle")
Exists(q) == account[q].state \in {"ACTIVE", "INACTIVE"}

\* A handler that is free goes to pc, or is done at once.
Starts(h, next) ==
    /\ At(h, "idle") /\ started + faults < MaxEvents
    /\ started' = started + 1 /\ disturbed' = (disturbed \/ Busy)
    /\ Become(h, next) /\ UNCHANGED faults

Continues(h, next) == Become(h, next) /\ UNCHANGED <<started, faults, disturbed>>

\* A statement fails, or the process stops.
Stops(h) ==
    /\ ~At(h, "idle") /\ faults < MaxFaults /\ started + faults < MaxEvents
    /\ faults' = faults + 1 /\ disturbed' = TRUE
    /\ Become(h, Rest)
    /\ UNCHANGED <<account, started>>

=============================================================================
