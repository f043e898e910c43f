--------------------------- MODULE Authentication ---------------------------
(***************************************************************************)
(* AuthService and what UserService changes of an account: logins, the end *)
(* of sessions, changes of role and status, and the reset of a password by *)
(* a code.  Which sessions and tokens are past their time is a choice of   *)
(* the step that compares the clocks; UserRepository.update, which finds   *)
(* the account and saves it, is one step.                                  *)
(***************************************************************************)
EXTENDS Accounts

VARIABLES
    session,   \* the rows of table session
    token      \* the rows of table password_reset_token, in the order of their ids

authentication == <<session, token>>

\* The role is that of the JWT; ENDED is CLOSED or EXPIRED.
SessionType == [q : Requests \cup {None}, role : Roles \cup {None},
                state : {"NONE", "ACTIVE", "ENDED"}]
NoSession   == [q |-> None, role |-> None, state |-> "NONE"]

\* changed: how many times the token has let a password be changed.
TokenType == [q : Requests \cup {None}, state : {"NONE", "ACTIVE", "USED", "EXPIRED"},
              attempts : Nat, changed : Nat]
NoToken   == [q |-> None, state |-> "NONE", attempts |-> 0, changed |-> 0]

AuthenticationInit ==
    /\ session = [s \in Sessions |-> NoSession]
    /\ token = [t \in Tokens |-> NoToken]

-----------------------------------------------------------------------------
(* Sessions.                                                               *)

Current(q) == {s \in Sessions : session[s].q = q /\ session[s].state = "ACTIVE"}

\* login: an ACTIVE account, whose role goes into the token,
LoginReads(h, q) ==
    /\ account[q].state = "ACTIVE"
    /\ Starts(h, [Rest EXCEPT !.pc = "login", !.q = q, !.acc = account[q]])
    /\ UNCHANGED <<account, session, token>>

\* once the password is compared; the row refers to the account.
LoginCreates(h, s) ==
    /\ At(h, "login") /\ session[s].state = "NONE"
    /\ LET me == handler[h]
       IN  session' = IF Exists(me.q)
                      THEN [session EXCEPT ![s] = [q |-> me.q, role |-> me.acc.role,
                                                   state |-> "ACTIVE"]]
                      ELSE session
    /\ Continues(h, Rest)
    /\ UNCHANGED <<account, token>>

\* logout, a request after 20 minutes without one, or an advance of the clock: sessions
\* that are ACTIVE when they are read ...
EndReads(h, ends) ==
    /\ ends # {} /\ \A s \in ends : session[s].state = "ACTIVE"
    /\ Starts(h, [Rest EXCEPT !.pc = "end", !.ends = ends])
    /\ UNCHANGED <<account, session, token>>

\* ... are ended one after the other, by id.
Ends(h, s) ==
    /\ At(h, "end") /\ s \in handler[h].ends
    /\ session' = [session EXCEPT ![s].state = "ENDED"]
    /\ LET rest == handler[h].ends \ {s}
       IN  Continues(h, IF rest = {} THEN Rest ELSE [handler[h] EXCEPT !.ends = rest])
    /\ UNCHANGED <<account, token>>

\* closeActiveSessionsByUser, one statement.
ClosesSessions(h) ==
    /\ At(h, "close")
    /\ session' = [s \in Sessions |->
                      IF s \in Current(handler[h].q)
                      THEN [session[s] EXCEPT !.state = "ENDED"] ELSE session[s]]
    /\ Continues(h, Rest)
    /\ UNCHANGED <<account, token>>

-----------------------------------------------------------------------------
(* Accounts.                                                               *)

\* What a change of an account sets; None and "NONE" leave the role or status as it is.
ChangeType == [role : Roles \cup {None}, state : {"NONE", "ACTIVE", "INACTIVE"}]

\* updateUser, changeUserRole, toggleUserStatus: the account is read,
ChangeReads(h, q, change) ==
    /\ Exists(q) /\ change # NoAccount
    /\ change.role # account[q].role /\ change.state # account[q].state
    /\ Starts(h, [Rest EXCEPT !.pc = "change", !.q = q, !.acc = change])
    /\ UNCHANGED <<account, session, token>>

Changed(acc, change) ==
    [role  |-> IF change.role = None THEN acc.role ELSE change.role,
     state |-> IF change.state = "NONE" THEN acc.state ELSE change.state]

\* Mutant of MustClose: only who is locked out loses the sessions.
MustCloseIfInactive(change) == change.state = "INACTIVE"

\* A change of role closes the sessions, and so does a status that keeps the user out.
MustClose(change) == change.role # None \/ change.state = "INACTIVE"

\* updated, and its sessions are closed after that; an account deleted meanwhile stays so.
Changes(h) ==
    /\ At(h, "change")
    /\ LET me == handler[h]
       IN  /\ account' = IF Exists(me.q)
                         THEN [account EXCEPT ![me.q] = Changed(@, me.acc)] ELSE account
           /\ Continues(h, IF MustClose(me.acc) THEN [Rest EXCEPT !.pc = "close", !.q = me.q]
                           ELSE Rest)
    /\ UNCHANGED <<session, token>>

\* deleteUser,
DeleteReads(h, q) ==
    /\ Exists(q)
    /\ Starts(h, [Rest EXCEPT !.pc = "delete", !.q = q])
    /\ UNCHANGED <<account, session, token>>

\* which the foreign keys refuse as soon as the account has logged in, asked for a code
\* or recorded anything else.
Deletes(h) ==
    /\ At(h, "delete")
    /\ LET q == handler[h].q
           used == \/ \E s \in Sessions : session[s].q = q
                   \/ \E t \in Tokens : token[t].q = q
       IN  \/ ~used /\ Exists(q)
              /\ account' = [account EXCEPT ![q] = [role |-> None, state |-> "DELETED"]]
           \/ UNCHANGED account
    /\ Continues(h, Rest)
    /\ UNCHANGED <<session, token>>

-----------------------------------------------------------------------------
(* Passwords.                                                              *)

Usable(q) == {t \in Tokens : token[t].q = q /\ token[t].state = "ACTIVE"}

Expire(S) ==
    token' = [t \in Tokens |->
                 IF t \in S THEN [token[t] EXCEPT !.state = "EXPIRED"] ELSE token[t]]

\* forgotPassword,
ForgetReads(h, q) ==
    /\ account[q].state = "ACTIVE"
    /\ Starts(h, [Rest EXCEPT !.pc = "forget", !.q = q])
    /\ UNCHANGED <<account, session, token>>

\* which ends the tokens there are
Forgets(h) ==
    /\ At(h, "forget") /\ Expire(Usable(handler[h].q))
    /\ Continues(h, [handler[h] EXCEPT !.pc = "issue"])
    /\ UNCHANGED <<account, session>>

\* and makes one.
Issues(h) ==
    /\ At(h, "issue")
    /\ \E t \in Tokens :
          /\ token[t].state = "NONE" /\ \A u \in 1 .. t - 1 : token[u].state # "NONE"
          /\ token' = [token EXCEPT ![t] = [NoToken EXCEPT !.q = handler[h].q,
                                                           !.state = "ACTIVE"]]
    /\ Continues(h, Rest)
    /\ UNCHANGED <<account, session>>

\* Mutant of Read: a token that is no longer ACTIVE will do.
ReadAny(q, t) == token[t].q = q

\* findActivePasswordResetTokenByUserId: the newest.
Read(q, t) == t \in Usable(q) /\ \A u \in Usable(q) : u <= t

\* resetPassword: the token is past its time, it is out of attempts, the code is wrong,
\* or the code is right.
ResetReads(h, q, t, pc) ==
    /\ account[q].state = "ACTIVE" /\ Read(q, t)
    /\ pc # "expire" => (pc = "spend") = (token[t].attempts >= MaxAttempts)
    /\ Starts(h, [Rest EXCEPT !.pc = pc, !.q = q, !.t = t, !.seen = token[t].attempts])
    /\ UNCHANGED <<account, session, token>>

\* An advance of the clock ends the tokens it finds past their time, by id, each of them
\* a handler here.
ExpiryReads(h, t) ==
    /\ token[t].state = "ACTIVE"
    /\ Starts(h, [Rest EXCEPT !.pc = "spend", !.t = t])
    /\ UNCHANGED <<account, session, token>>

\* Past its time, all of the token is saved as it was read;
Expires(h) ==
    /\ At(h, "expire")
    /\ token' = [token EXCEPT ![handler[h].t].state = "EXPIRED",
                             ![handler[h].t].attempts = handler[h].seen]
    /\ Continues(h, Rest)
    /\ UNCHANGED <<account, session>>

\* a wrong code counts,
Counts(h) ==
    /\ At(h, "count")
    /\ LET me == handler[h]
       IN  /\ token' = [token EXCEPT ![me.t].attempts = @ + 1]
           /\ Continues(h, IF me.seen + 1 >= MaxAttempts THEN [me EXCEPT !.pc = "spend"]
                           ELSE Rest)
    /\ UNCHANGED <<account, session>>

\* and the last one ends the token.
Spends(h) ==
    /\ At(h, "spend") /\ Expire({handler[h].t})
    /\ Continues(h, Rest)
    /\ UNCHANGED <<account, session>>

\* The right one changes the password,
ChangesPassword(h) ==
    /\ At(h, "password")
    /\ token' = [token EXCEPT ![handler[h].t].changed = @ + 1]
    /\ Continues(h, [handler[h] EXCEPT !.pc = "use"])
    /\ UNCHANGED <<account, session>>

\* uses the token up,
Uses(h) ==
    /\ At(h, "use")
    /\ token' = [token EXCEPT ![handler[h].t].state = "USED"]
    /\ Continues(h, [handler[h] EXCEPT !.pc = "clear"])
    /\ UNCHANGED <<account, session>>

\* with the others of the user, and closes the sessions.
Clears(h) ==
    /\ At(h, "clear") /\ Expire(Usable(handler[h].q))
    /\ Continues(h, [Rest EXCEPT !.pc = "close", !.q = handler[h].q])
    /\ UNCHANGED <<account, session>>

-----------------------------------------------------------------------------
Authentication(h) ==
    \/ \E q \in Requests :
          \/ LoginReads(h, q) \/ DeleteReads(h, q) \/ ForgetReads(h, q)
          \/ \E change \in ChangeType : ChangeReads(h, q, change)
          \/ \E t \in Tokens, pc \in {"expire", "spend", "count", "password"} :
                ResetReads(h, q, t, pc)
    \/ \E t \in Tokens : ExpiryReads(h, t)
    \/ \E s \in Sessions : LoginCreates(h, s) \/ Ends(h, s)
    \/ \E ends \in SUBSET Sessions : EndReads(h, ends)
    \/ ClosesSessions(h) \/ Changes(h) \/ Deletes(h) \/ Forgets(h) \/ Issues(h)
    \/ Expires(h) \/ Counts(h) \/ Spends(h) \/ ChangesPassword(h) \/ Uses(h) \/ Clears(h)

=============================================================================
