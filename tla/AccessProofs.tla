---------------------------- MODULE AccessProofs ----------------------------
(***************************************************************************)
(* Proofs about Access, for any requests, sessions, tokens and handlers:   *)
(* the types, that whom an administrator approved was given access, how    *)
(* many camps can admit one applicant, how often a code can be used, and   *)
(* whose session it is as long as handlers take turns.                     *)
(*                                                                         *)
(* What a handler holds counts as much as what is written: a row read for  *)
(* an edit or made for a review is yet to be saved, and a code found right *)
(* or wrong is yet to be acted upon.                                       *)
(***************************************************************************)
EXTENDS Access, FiniteSetTheorems, TLAPS

Granting == {"person", "admit", "account", "rewrite", "grant"}

AdmissionPcs == {"idle", "insert", "advise", "propose", "edit", "decide"} \cup Granting

TokenPcs == {"expire", "count", "spend", "password", "use", "clear"}

AuthenticationPcs ==
    {"idle", "login", "end", "change", "close", "delete", "forget", "issue"} \cup TokenPcs

\* What holds of a handler beyond its type: it has a request or a token to treat, and
\* the account it is to write is one that opens.
Sound(me) ==
    /\ me \in HandlerType
    /\ me.pc \in {"advise", "propose", "edit", "change", "decide"} \cup Granting => me.q \in Requests
    /\ me.pc \in TokenPcs => me.t \in Tokens
    /\ me.pc \in Granting => me.acc.state = "ACTIVE"

Typed == TypeOK /\ \A h \in Handlers : Sound(handler[h])

LEMMA RestSound == Sound(Rest)
<1>1. NoRow \in RowType /\ NoAccount \in AccountType
  BY DEF NoRow, RowType, NoAccount, AccountType
<1>2. Rest \in HandlerType
  BY <1>1 DEF Rest, HandlerType
<1>3. QED
  BY <1>2 DEF Sound, Rest, TokenPcs, Granting

\* An administrator approved it.
ByAdmin(row) == row.status = "APPROVED" /\ row.by = "admin"

\* An administrator approved one request at most, and of its applicant there is all.
LEMMA InitKnown ==
    ASSUME Init
    PROVE  /\ request \in [Requests -> RowType] /\ account \in [Requests -> AccountType]
           /\ person \in [Requests -> BOOLEAN]
           /\ \A q \in Requests : ByAdmin(request[q]) => person[q] /\ account[q].state # "NONE"
           /\ Cardinality({q \in Requests : ByAdmin(request[q])}) <= 1
<1>1. PICK waiting \in SUBSET Requests, admitted \in SUBSET Requests :
        \E camp \in [Requests -> Camps], r \in Roles :
          /\ waiting \cap admitted = {} /\ Cardinality(admitted) <= 1
          /\ \A p, q \in waiting \cup admitted : camp[p] = camp[q] => p = q
          /\ request = [q \in Requests |->
                IF q \in admitted
                THEN [camp |-> camp[q], by |-> "admin", status |-> "APPROVED"]
                ELSE IF q \in waiting
                THEN [camp |-> camp[q], by |-> "ai", status |-> "PENDING_ADMIN"]
                ELSE NoRow]
          /\ person = [q \in Requests |-> q \in admitted]
          /\ account = [q \in Requests |->
                IF q \in admitted THEN [role |-> r, state |-> "ACTIVE"] ELSE NoAccount]
  BY Zenon DEF Init, AdmissionInit
<1>2. PICK camp \in [Requests -> Camps], r \in Roles :
          /\ request = [q \in Requests |->
                IF q \in admitted
                THEN [camp |-> camp[q], by |-> "admin", status |-> "APPROVED"]
                ELSE IF q \in waiting
                THEN [camp |-> camp[q], by |-> "ai", status |-> "PENDING_ADMIN"]
                ELSE NoRow]
          /\ account = [q \in Requests |->
                IF q \in admitted THEN [role |-> r, state |-> "ACTIVE"] ELSE NoAccount]
  BY <1>1, Zenon
<1>3. request \in [Requests -> RowType] /\ account \in [Requests -> AccountType]
  BY <1>2 DEF RowType, NoRow, AccountType, NoAccount
<1>4. person = [q \in Requests |-> q \in admitted] /\ Cardinality(admitted) <= 1
  BY <1>1
<1>5. person \in [Requests -> BOOLEAN]
  <2>1. \A q \in Requests : (q \in admitted) \in BOOLEAN
    OBVIOUS
  <2>2. QED
    BY <1>4, <2>1, Zenon
<1>6. \A q \in Requests : ByAdmin(request[q]) <=> q \in admitted
  BY <1>2 DEF ByAdmin, NoRow
<1>7. \A q \in Requests : q \in admitted => person[q] /\ account[q].state # "NONE"
  BY <1>2, <1>4
<1>8. {q \in Requests : ByAdmin(request[q])} = admitted
  BY <1>6
<1>9. QED
  BY <1>3, <1>4, <1>5, <1>6, <1>7, <1>8

LEMMA InitTyped == Init => Typed
<1> SUFFICES ASSUME Init PROVE Typed
  OBVIOUS
<1>1. Rest \in HandlerType /\ Sound(Rest)
  BY RestSound DEF Sound
<1>2. /\ request \in [Requests -> RowType] /\ person \in [Requests -> BOOLEAN]
      /\ account \in [Requests -> AccountType]
  BY InitKnown
<1>3. session \in [Sessions -> SessionType] /\ token \in [Tokens -> TokenType]
  BY DEF Init, AuthenticationInit, SessionType, NoSession, TokenType, NoToken
<1>4. /\ handler \in [Handlers -> HandlerType] /\ \A h \in Handlers : Sound(handler[h])
      /\ started = 0 /\ faults = 0 /\ disturbed = FALSE
  BY <1>1 DEF Init, SharedInit
<1>5. QED
  BY <1>2, <1>3, <1>4 DEF Typed, TypeOK

\* The other handlers stay where they are, and none stops.
Others(h) == faults' = faults /\ \A k \in Handlers \ {h} : handler'[k] = handler[k]

\* A handler that moves on.
LEMMA BecomeSound ==
    ASSUME Typed, NEW h \in Handlers, NEW next, Sound(next), Become(h, next)
    PROVE  /\ handler' \in [Handlers -> HandlerType] /\ \A k \in Handlers : Sound(handler'[k])
           /\ handler'[h] = next /\ \A k \in Handlers \ {h} : handler'[k] = handler[k]
           /\ faults' = faults => Others(h)
<1>1. handler \in [Handlers -> HandlerType] /\ next \in HandlerType
  BY DEF Typed, TypeOK, Sound
<1>2. \A k \in Handlers : handler'[k] = IF k = h THEN next ELSE handler[k]
  BY <1>1 DEF Become
<1>3. QED
  BY <1>1, <1>2 DEF Become, Typed, Others

LEMMA StartsSound ==
    ASSUME Typed, NEW h \in Handlers, NEW next, Sound(next),
           Starts(h, next) \/ Continues(h, next)
    PROVE  /\ handler' \in [Handlers -> HandlerType] /\ \A k \in Handlers : Sound(handler'[k])
           /\ handler'[h] = next /\ Others(h)
           /\ started' \in Nat /\ faults' \in Nat /\ disturbed' \in BOOLEAN
<1>1. Become(h, next)
  BY DEF Starts, Continues
<1>2. started' \in Nat /\ faults' \in Nat
  BY DEF Starts, Continues, Typed, TypeOK
<1>3. disturbed \in BOOLEAN
  BY DEF Typed, TypeOK
<1>4. disturbed' \in BOOLEAN
  BY <1>3, Zenon DEF Starts, Continues
<1>5. faults' = faults
  BY DEF Starts, Continues
<1>6. QED
  BY <1>1, <1>2, <1>4, <1>5, BecomeSound

LEMMA GrantedSound ==
    ASSUME NEW me, Sound(me), me.pc \in Granting
    PROVE  /\ Sound(Granted(me)) /\ Granted(me).pc \in {"idle", "decide"}
           /\ Granted(me).pc = "decide" => Granted(me) = [me EXCEPT !.pc = "decide"]
<1>1. me \in HandlerType /\ me.q \in Requests
  BY DEF Sound
<1>2. [me EXCEPT !.pc = "decide"] \in HandlerType
  BY <1>1 DEF HandlerType
<1>3. Sound([me EXCEPT !.pc = "decide"])
  BY <1>1, <1>2 DEF Sound, HandlerType, TokenPcs, Granting
<1>4. QED
  BY <1>1, <1>3, RestSound DEF Granted, Rest, HandlerType

\* A step of an admission: every table keeps its type, and the handler is where an
\* admission can be.
LEMMA AdmissionTyped ==
    ASSUME Typed, NEW h \in Handlers, Admission(h), UNCHANGED authentication
    PROVE  Typed' /\ handler'[h].pc \in AdmissionPcs /\ Others(h)
<1> DEFINE me == handler[h]
<1>1. TypeOK /\ Sound(me) /\ me \in HandlerType
  BY DEF Typed, TypeOK
<1>2. session' \in [Sessions -> SessionType] /\ token' \in [Tokens -> TokenType]
  BY <1>1 DEF TypeOK, authentication
<1>3. ASSUME NEW next, Starts(h, next) \/ Continues(h, next),
             Sound(next), next.pc \in AdmissionPcs,
             request' \in [Requests -> RowType], person' \in [Requests -> BOOLEAN],
             account' \in [Requests -> AccountType]
      PROVE  Typed' /\ handler'[h].pc \in AdmissionPcs /\ Others(h)
  <2>1. /\ handler' \in [Handlers -> HandlerType] /\ \A k \in Handlers : Sound(handler'[k])
        /\ handler'[h] = next /\ Others(h)
        /\ started' \in Nat /\ faults' \in Nat /\ disturbed' \in BOOLEAN
    BY <1>3, StartsSound
  <2>2. QED
    BY <1>2, <1>3, <2>1 DEF Typed, TypeOK
<1>4. /\ request \in [Requests -> RowType] /\ person \in [Requests -> BOOLEAN]
      /\ account \in [Requests -> AccountType]
  BY <1>1 DEF TypeOK
<1>5. ASSUME NEW next, Starts(h, next) \/ Continues(h, next),
             Sound(next), next.pc \in AdmissionPcs, UNCHANGED <<request, person, account>>
      PROVE  Typed' /\ handler'[h].pc \in AdmissionPcs /\ Others(h)
  BY <1>3, <1>4, <1>5
<1>6. Sound(Rest) /\ Rest.pc \in AdmissionPcs /\ Rest \in HandlerType
  BY RestSound DEF AdmissionPcs, Rest, Sound
<1>7. ASSUME NEW k \in Camps, ChecksEmail(h, k)
      PROVE  Typed' /\ handler'[h].pc \in AdmissionPcs /\ Others(h)
  <2> DEFINE next == [Rest EXCEPT !.pc = "insert", !.row = [NoRow EXCEPT !.camp = k]]
  <2>1. [NoRow EXCEPT !.camp = k] \in RowType
    BY DEF NoRow, RowType
  <2>2. next \in HandlerType /\ next.pc = "insert"
    BY <1>6, <2>1 DEF HandlerType
  <2>3. Sound(next) /\ next.pc \in AdmissionPcs
    BY <2>2 DEF Sound, TokenPcs, Granting, AdmissionPcs
  <2>4. QED
    BY <1>5, <1>7, <2>3 DEF ChecksEmail
<1>8. ASSUME NEW q \in Requests, Inserts(h, q)
      PROVE  Typed' /\ handler'[h].pc \in AdmissionPcs /\ Others(h)
  <2> DEFINE next == [Rest EXCEPT !.pc = "advise", !.q = q]
  <2>1. next \in HandlerType /\ next.pc = "advise" /\ next.q = q
    BY <1>6 DEF HandlerType
  <2>2. Sound(next) /\ next.pc \in AdmissionPcs
    BY <2>1 DEF Sound, TokenPcs, Granting, AdmissionPcs
  <2>3. request' \in [Requests -> RowType]
    BY <1>1, <1>4, <1>8 DEF Inserts, HandlerType, RowType
  <2>4. QED
    BY <1>3, <1>4, <1>8, <2>2, <2>3 DEF Inserts
<1>9. ASSUME NEW status \in {"PENDING_ADMIN", "APPROVED", "REJECTED"}, Advises(h, status)
      PROVE  Typed' /\ handler'[h].pc \in AdmissionPcs /\ Others(h)
  <2> DEFINE row == [request[me.q] EXCEPT !.status = status, !.by = "ai"]
  <2>1. me.q \in Requests
    BY <1>1, <1>9 DEF Advises, At, Sound
  <2>2. row \in RowType
    BY <1>4, <2>1 DEF RowType
  <2>3. request' \in [Requests -> RowType] /\ UNCHANGED <<account, person>>
    BY <1>4, <1>9, <2>2 DEF Advises
  <2>4. CASE Continues(h, Rest)
    BY <1>3, <1>4, <1>6, <2>3, <2>4
  <2>5. ASSUME NEW r \in Roles,
               Continues(h, [Rest EXCEPT !.pc = "person", !.q = me.q, !.row = row,
                                         !.acc = [role |-> r, state |-> "ACTIVE"]])
        PROVE  Typed' /\ handler'[h].pc \in AdmissionPcs /\ Others(h)
    <3> DEFINE acc == [role |-> r, state |-> "ACTIVE"]
               next == [Rest EXCEPT !.pc = "person", !.q = me.q, !.row = row, !.acc = acc]
    <3>1. acc \in AccountType /\ acc.state = "ACTIVE"
      BY DEF AccountType
    <3>2. next \in HandlerType /\ next.pc = "person" /\ next.q = me.q /\ next.acc = acc
      BY <1>6, <2>1, <2>2, <3>1 DEF HandlerType
    <3>3. Sound(next) /\ next.pc \in AdmissionPcs
      BY <2>1, <3>1, <3>2 DEF Sound, TokenPcs, Granting, AdmissionPcs
    <3>4. QED
      BY <1>3, <1>4, <2>3, <2>5, <3>3
  <2>6. QED
    BY <1>9, <2>4, <2>5 DEF Advises
<1>10. CASE AdviceFails(h)
  BY <1>5, <1>6, <1>10 DEF AdviceFails
<1>11. ASSUME NEW q \in Requests, ProposesReads(h, q)
       PROVE  Typed' /\ handler'[h].pc \in AdmissionPcs /\ Others(h)
  <2> DEFINE next == [Rest EXCEPT !.pc = "propose", !.q = q]
  <2>1. next \in HandlerType /\ next.pc = "propose" /\ next.q = q
    BY <1>6 DEF HandlerType
  <2>2. Sound(next) /\ next.pc \in AdmissionPcs
    BY <2>1 DEF Sound, TokenPcs, Granting, AdmissionPcs
  <2>3. QED
    BY <1>5, <1>11, <2>2 DEF ProposesReads
<1>12. CASE Proposes(h)
  <2>1. request' \in [Requests -> RowType]
    BY <1>4, <1>12 DEF Proposes, RowType
  <2>2. QED
    BY <1>3, <1>4, <1>6, <1>12, <2>1 DEF Proposes
<1>13. ASSUME NEW q \in Requests, EditFinds(h, q)
       PROVE  Typed' /\ handler'[h].pc \in AdmissionPcs /\ Others(h)
  <2> DEFINE next == [Rest EXCEPT !.pc = "edit", !.q = q, !.row = request[q]]
  <2>1. next \in HandlerType /\ next.pc = "edit" /\ next.q = q
    BY <1>4, <1>6 DEF HandlerType
  <2>2. Sound(next) /\ next.pc \in AdmissionPcs
    BY <2>1 DEF Sound, TokenPcs, Granting, AdmissionPcs
  <2>3. QED
    BY <1>5, <1>13, <2>2 DEF EditFinds
<1>14. me.row \in RowType /\ me.acc \in AccountType
  BY <1>1 DEF HandlerType
<1>15. CASE EditSaves(h) \/ Decides(h)
  <2>1. request' \in [Requests -> RowType] /\ UNCHANGED <<account, person>>
        /\ Continues(h, Rest)
    BY <1>4, <1>14, <1>15 DEF EditSaves, Decides
  <2>2. QED
    BY <1>3, <1>4, <1>6, <2>1
<1>16. ASSUME NEW q \in Requests, NEW status \in {"APPROVED", "REJECTED"}, NEW r \in Roles,
              Reviews(h, q, status, r)
       PROVE  Typed' /\ handler'[h].pc \in AdmissionPcs /\ Others(h)
  <2> DEFINE row == [request[q] EXCEPT !.status = status, !.by = "admin"]
             acc == IF status = "APPROVED" THEN [role |-> r, state |-> "ACTIVE"] ELSE NoAccount
             pc == AfterReading(status)
             next == [Rest EXCEPT !.pc = pc, !.q = q, !.row = row, !.acc = acc]
  <2>1. row \in RowType /\ acc \in AccountType
    BY <1>4 DEF RowType, AccountType, NoAccount
  <2>2. pc = IF status = "APPROVED" THEN "person" ELSE "decide"
    BY DEF AfterReading
  <2>3. next \in HandlerType /\ next.pc = pc /\ next.q = q /\ next.acc = acc
    BY <1>6, <2>1, <2>2 DEF HandlerType
  <2>4. pc \in Granting => acc.state = "ACTIVE"
    BY <2>2 DEF Granting
  <2>5. Sound(next) /\ next.pc \in AdmissionPcs
    BY <2>2, <2>3, <2>4 DEF Sound, TokenPcs, Granting, AdmissionPcs
  <2>6. Starts(h, next) /\ UNCHANGED <<account, request, person>>
    BY <1>16 DEF Reviews
  <2>7. QED
    BY <1>5, <2>5, <2>6
<1>17. ASSUME NEW pc \in Granting, me.pc \in Granting
       PROVE  Sound([me EXCEPT !.pc = pc]) /\ [me EXCEPT !.pc = pc].pc \in AdmissionPcs
  <2>1. [me EXCEPT !.pc = pc] \in HandlerType
    BY <1>1, <1>17 DEF HandlerType, Granting
  <2>2. QED
    BY <1>1, <1>17, <2>1 DEF Sound, HandlerType, TokenPcs, Granting, AdmissionPcs
<1>18. me.pc \in Granting => Sound(Granted(me)) /\ Granted(me).pc \in AdmissionPcs
  BY <1>1, GrantedSound DEF AdmissionPcs
<1>19. CASE FindsPerson(h)
  <2>1. me.pc = "person" /\ \E pc \in {"account", "admit"} : Continues(h, [me EXCEPT !.pc = pc])
    BY <1>19 DEF FindsPerson, At
  <2>2. QED
    BY <1>5, <1>17, <1>19, <2>1 DEF FindsPerson, Granting
<1>20. CASE Admits(h)
  <2>1. me.pc = "admit" /\ (Continues(h, Rest) \/ Continues(h, [me EXCEPT !.pc = "account"]))
    BY <1>20 DEF Admits, At
  <2>2. person' \in [Requests -> BOOLEAN] /\ UNCHANGED <<account, request>>
    BY <1>4, <1>20 DEF Admits
  <2>3. QED
    BY <1>3, <1>4, <1>6, <1>17, <2>1, <2>2 DEF Granting
<1>21. CASE FindsAccount(h)
  <2>1. /\ me.pc = "account" /\ UNCHANGED <<account, request, person>>
        /\ \/ Continues(h, Granted(me)) \/ Continues(h, [me EXCEPT !.pc = "rewrite"])
           \/ Continues(h, [me EXCEPT !.pc = "grant"])
    BY <1>21 DEF FindsAccount, At
  <2>2. QED
    BY <1>5, <1>17, <1>18, <2>1 DEF Granting
<1>22. CASE RewritesAccount(h)
  <2>1. account' \in [Requests -> AccountType] /\ UNCHANGED <<request, person>>
    BY <1>4, <1>14, <1>22 DEF RewritesAccount
  <2>2. me.pc = "rewrite" /\ Continues(h, Granted(me))
    BY <1>22 DEF RewritesAccount, At
  <2>3. QED
    BY <1>3, <1>4, <1>18, <2>1, <2>2 DEF Granting
<1>23. CASE GrantsAccount(h)
  <2>1. me.pc = "grant" /\ (Continues(h, Rest) \/ Continues(h, Granted(me)))
    BY <1>23 DEF GrantsAccount, At
  <2>2. account' \in [Requests -> AccountType] /\ UNCHANGED <<request, person>>
    BY <1>4, <1>14, <1>23 DEF GrantsAccount
  <2>3. QED
    BY <1>3, <1>4, <1>6, <1>18, <2>1, <2>2 DEF Granting
<1>24. QED
  BY <1>7, <1>8, <1>9, <1>10, <1>11, <1>12, <1>13, <1>15, <1>16, <1>19, <1>20, <1>21, <1>22,
     <1>23 DEF Admission

\* The same of a step of authentication.
LEMMA AuthenticationTyped ==
    ASSUME Typed, NEW h \in Handlers, Authentication(h), UNCHANGED admission
    PROVE  Typed' /\ handler'[h].pc \in AuthenticationPcs /\ Others(h)
<1> DEFINE me == handler[h]
<1>1. TypeOK /\ Sound(me) /\ me \in HandlerType
  BY DEF Typed, TypeOK
<1>2. request' \in [Requests -> RowType] /\ person' \in [Requests -> BOOLEAN]
  BY <1>1 DEF TypeOK, admission
<1>3. ASSUME NEW next, Starts(h, next) \/ Continues(h, next),
             Sound(next), next.pc \in AuthenticationPcs,
             account' \in [Requests -> AccountType],
             session' \in [Sessions -> SessionType], token' \in [Tokens -> TokenType]
      PROVE  Typed' /\ handler'[h].pc \in AuthenticationPcs /\ Others(h)
  <2>1. /\ handler' \in [Handlers -> HandlerType] /\ \A k \in Handlers : Sound(handler'[k])
        /\ handler'[h] = next /\ Others(h)
        /\ started' \in Nat /\ faults' \in Nat /\ disturbed' \in BOOLEAN
    BY <1>3, StartsSound
  <2>2. QED
    BY <1>2, <1>3, <2>1 DEF Typed, TypeOK
<1>4. /\ account \in [Requests -> AccountType]
      /\ session \in [Sessions -> SessionType] /\ token \in [Tokens -> TokenType]
  BY <1>1 DEF TypeOK
<1>5. ASSUME NEW next, Starts(h, next) \/ Continues(h, next),
             Sound(next), next.pc \in AuthenticationPcs, UNCHANGED <<account, session, token>>
      PROVE  Typed' /\ handler'[h].pc \in AuthenticationPcs /\ Others(h)
  BY <1>3, <1>4, <1>5
<1>6. Sound(Rest) /\ Rest.pc \in AuthenticationPcs /\ Rest \in HandlerType
  BY RestSound DEF AuthenticationPcs, Rest, Sound
<1>7. \* A handler that has nothing but a request, to begin with or to close the sessions of.
      ASSUME NEW pc \in {"login", "delete", "forget", "close"}, NEW q \in Requests \cup {None}
      PROVE  LET next == [Rest EXCEPT !.pc = pc, !.q = q]
             IN  Sound(next) /\ next.pc \in AuthenticationPcs /\ next \in HandlerType
  <2> DEFINE next == [Rest EXCEPT !.pc = pc, !.q = q]
  <2>1. next \in HandlerType /\ next.pc = pc
    BY <1>6, <1>7 DEF HandlerType
  <2>2. QED
    BY <1>7, <2>1 DEF Sound, TokenPcs, Granting, AuthenticationPcs
<1>8. ASSUME NEW q \in Requests, NEW acc \in AccountType, NEW pc \in {"login", "change"}
      PROVE  LET next == [Rest EXCEPT !.pc = pc, !.q = q, !.acc = acc]
             IN  Sound(next) /\ next.pc \in AuthenticationPcs
  <2> DEFINE next == [Rest EXCEPT !.pc = pc, !.q = q, !.acc = acc]
  <2>1. next \in HandlerType /\ next.pc = pc /\ next.q = q
    BY <1>6, <1>8 DEF HandlerType
  <2>2. QED
    BY <1>8, <2>1 DEF Sound, TokenPcs, Granting, AuthenticationPcs
<1>9. ASSUME NEW q \in Requests, LoginReads(h, q)
      PROVE  Typed' /\ handler'[h].pc \in AuthenticationPcs /\ Others(h)
  <2>1. account[q] \in AccountType
    BY <1>4
  <2>2. QED
    BY <1>5, <1>8, <1>9, <2>1 DEF LoginReads
<1>10. ASSUME NEW s \in Sessions, LoginCreates(h, s)
       PROVE  Typed' /\ handler'[h].pc \in AuthenticationPcs /\ Others(h)
  <2>1. [q |-> me.q, role |-> me.acc.role, state |-> "ACTIVE"] \in SessionType
    BY <1>1 DEF HandlerType, AccountType, SessionType
  <2>2. session' \in [Sessions -> SessionType]
    BY <1>4, <1>10, <2>1 DEF LoginCreates
  <2>3. QED
    BY <1>3, <1>4, <1>6, <1>10, <2>2 DEF LoginCreates
<1>11. ASSUME NEW ends \in SUBSET Sessions, EndReads(h, ends)
       PROVE  Typed' /\ handler'[h].pc \in AuthenticationPcs /\ Others(h)
  <2> DEFINE next == [Rest EXCEPT !.pc = "end", !.ends = ends]
  <2>1. next \in HandlerType /\ next.pc = "end"
    BY <1>6 DEF HandlerType
  <2>2. Sound(next) /\ next.pc \in AuthenticationPcs
    BY <2>1 DEF Sound, TokenPcs, Granting, AuthenticationPcs
  <2>3. QED
    BY <1>5, <1>11, <2>2 DEF EndReads
<1>12. ASSUME NEW s \in Sessions, Ends(h, s)
       PROVE  Typed' /\ handler'[h].pc \in AuthenticationPcs /\ Others(h)
  <2> DEFINE rest == me.ends \ {s}
             next == [me EXCEPT !.ends = rest]
  <2>1. next \in HandlerType /\ next.pc = "end"
    BY <1>1, <1>12 DEF HandlerType, Ends, At
  <2>2. Sound(next) /\ next.pc \in AuthenticationPcs
    BY <2>1 DEF Sound, TokenPcs, Granting, AuthenticationPcs
  <2>3. session' \in [Sessions -> SessionType]
    BY <1>4, <1>12 DEF Ends, SessionType
  <2>4. Continues(h, Rest) \/ Continues(h, next)
    BY <1>12 DEF Ends
  <2>5. QED
    BY <1>3, <1>4, <1>6, <1>12, <2>2, <2>3, <2>4 DEF Ends
<1>13. CASE ClosesSessions(h)
  <2>1. \A s \in Sessions : [session[s] EXCEPT !.state = "ENDED"] \in SessionType
    BY <1>4 DEF SessionType
  <2>2. session' \in [Sessions -> SessionType]
    BY <1>4, <1>13, <2>1 DEF ClosesSessions
  <2>3. QED
    BY <1>3, <1>4, <1>6, <1>13, <2>2 DEF ClosesSessions
<1>14. ASSUME NEW q \in Requests, NEW change \in ChangeType, ChangeReads(h, q, change)
       PROVE  Typed' /\ handler'[h].pc \in AuthenticationPcs /\ Others(h)
  <2>1. change \in AccountType
    BY DEF ChangeType, AccountType
  <2>2. QED
    BY <1>5, <1>8, <1>14, <2>1 DEF ChangeReads
<1>15. CASE Changes(h)
  <2>1. me.q \in Requests /\ me.acc \in AccountType
    BY <1>1, <1>15 DEF Sound, Changes, At, HandlerType
  <2>2. Changed(account[me.q], me.acc) \in AccountType
    BY <1>4, <2>1 DEF Changed, AccountType
  <2>3. account' \in [Requests -> AccountType] /\ UNCHANGED <<session, token>>
    BY <1>4, <1>15, <2>2 DEF Changes
  <2>4. Continues(h, Rest) \/ Continues(h, [Rest EXCEPT !.pc = "close", !.q = me.q])
    BY <1>15 DEF Changes
  <2>5. QED
    BY <1>3, <1>4, <1>6, <1>7, <2>1, <2>3, <2>4
<1>16. ASSUME NEW q \in Requests, DeleteReads(h, q) \/ ForgetReads(h, q)
       PROVE  Typed' /\ handler'[h].pc \in AuthenticationPcs /\ Others(h)
  BY <1>5, <1>7, <1>16 DEF DeleteReads, ForgetReads
<1>17. CASE Deletes(h)
  <2>1. [role |-> None, state |-> "DELETED"] \in AccountType
    BY DEF AccountType
  <2>2. account' \in [Requests -> AccountType]
    BY <1>4, <1>17, <2>1 DEF Deletes
  <2>3. QED
    BY <1>3, <1>4, <1>6, <1>17, <2>2 DEF Deletes
<1>18. ASSUME NEW S, Expire(S)
       PROVE  token' \in [Tokens -> TokenType]
  <2>1. \A t \in Tokens : [token[t] EXCEPT !.state = "EXPIRED"] \in TokenType
    BY <1>4 DEF TokenType
  <2>2. QED
    BY <1>4, <1>18, <2>1 DEF Expire
<1>19. CASE Forgets(h)
  <2> DEFINE next == [me EXCEPT !.pc = "issue"]
  <2>1. next \in HandlerType /\ next.pc = "issue"
    BY <1>1 DEF HandlerType
  <2>2. Sound(next) /\ next.pc \in AuthenticationPcs
    BY <2>1 DEF Sound, TokenPcs, Granting, AuthenticationPcs
  <2>3. QED
    BY <1>3, <1>4, <1>18, <1>19, <2>2 DEF Forgets
<1>20. CASE Issues(h)
  <2>1. [NoToken EXCEPT !.q = me.q, !.state = "ACTIVE"] \in TokenType
    BY <1>1 DEF NoToken, TokenType, HandlerType
  <2>2. token' \in [Tokens -> TokenType]
    BY <1>4, <1>20, <2>1 DEF Issues
  <2>3. QED
    BY <1>3, <1>4, <1>6, <1>20, <2>2 DEF Issues
<1>21. ASSUME NEW q \in Requests, NEW t \in Tokens,
              NEW pc \in {"expire", "spend", "count", "password"}, ResetReads(h, q, t, pc)
       PROVE  Typed' /\ handler'[h].pc \in AuthenticationPcs /\ Others(h)
  <2> DEFINE next == [Rest EXCEPT !.pc = pc, !.q = q, !.t = t, !.seen = token[t].attempts]
  <2>1. token[t].attempts \in Nat
    BY <1>4 DEF TokenType
  <2>2. next \in HandlerType /\ next.pc = pc /\ next.t = t
    BY <1>6, <2>1 DEF HandlerType
  <2>3. Sound(next) /\ next.pc \in AuthenticationPcs
    BY <2>2 DEF Sound, TokenPcs, Granting, AuthenticationPcs
  <2>4. QED
    BY <1>5, <1>21, <2>3 DEF ResetReads
<1>22. ASSUME NEW t \in Tokens, ExpiryReads(h, t)
       PROVE  Typed' /\ handler'[h].pc \in AuthenticationPcs /\ Others(h)
  <2> DEFINE next == [Rest EXCEPT !.pc = "spend", !.t = t]
  <2>1. next \in HandlerType /\ next.pc = "spend" /\ next.t = t
    BY <1>6 DEF HandlerType
  <2>2. Sound(next) /\ next.pc \in AuthenticationPcs
    BY <2>1 DEF Sound, TokenPcs, Granting, AuthenticationPcs
  <2>3. QED
    BY <1>5, <1>22, <2>2 DEF ExpiryReads
<1>23. ASSUME NEW pc \in TokenPcs, me.pc \in TokenPcs
       PROVE  Sound([me EXCEPT !.pc = pc]) /\ [me EXCEPT !.pc = pc].pc \in AuthenticationPcs
  <2>1. /\ [me EXCEPT !.pc = pc] \in HandlerType /\ [me EXCEPT !.pc = pc].pc = pc
        /\ [me EXCEPT !.pc = pc].t = me.t
    BY <1>1, <1>23 DEF HandlerType, TokenPcs
  <2>2. QED
    BY <1>1, <1>23, <2>1 DEF Sound, TokenPcs, Granting, AuthenticationPcs
<1>24. CASE Expires(h)
  <2>1. me.t \in Tokens /\ me.seen \in Nat
    BY <1>1, <1>24 DEF Expires, At, Sound, TokenPcs, HandlerType
  <2>2. [token[me.t] EXCEPT !.state = "EXPIRED", !.attempts = me.seen] \in TokenType
    BY <1>4, <2>1 DEF TokenType
  <2>3. token' = [token EXCEPT ![me.t] =
                     [token[me.t] EXCEPT !.state = "EXPIRED", !.attempts = me.seen]]
    BY <1>4, <1>24, <2>1 DEF Expires, TokenType
  <2>4. token' \in [Tokens -> TokenType]
    BY <1>4, <2>2, <2>3
  <2>5. QED
    BY <1>3, <1>4, <1>6, <1>24, <2>4 DEF Expires
<1>25. CASE Counts(h)
  <2>1. me.t \in Tokens
    BY <1>1, <1>25 DEF Counts, At, Sound, TokenPcs
  <2>2. [token[me.t] EXCEPT !.attempts = token[me.t].attempts + 1] \in TokenType
    BY <1>4, <2>1 DEF TokenType
  <2>3. token' \in [Tokens -> TokenType]
    BY <1>4, <1>25, <2>1, <2>2 DEF Counts
  <2>4. me.pc = "count" /\ (Continues(h, Rest) \/ Continues(h, [me EXCEPT !.pc = "spend"]))
    BY <1>25 DEF Counts, At
  <2>5. QED
    BY <1>3, <1>4, <1>6, <1>23, <1>25, <2>3, <2>4 DEF Counts, TokenPcs
<1>26. CASE Spends(h)
  BY <1>3, <1>4, <1>6, <1>18, <1>26 DEF Spends
<1>27. CASE ChangesPassword(h)
  <2>1. me.t \in Tokens
    BY <1>1, <1>27 DEF ChangesPassword, At, Sound, TokenPcs
  <2>2. [token[me.t] EXCEPT !.changed = token[me.t].changed + 1] \in TokenType
    BY <1>4, <2>1 DEF TokenType
  <2>3. token' \in [Tokens -> TokenType]
    BY <1>4, <1>27, <2>1, <2>2 DEF ChangesPassword
  <2>4. QED
    BY <1>3, <1>4, <1>23, <1>27, <2>3 DEF ChangesPassword, At, TokenPcs
<1>28. CASE Uses(h)
  <2>1. token' \in [Tokens -> TokenType]
    BY <1>4, <1>28 DEF Uses, TokenType
  <2>2. QED
    BY <1>3, <1>4, <1>23, <1>28, <2>1 DEF Uses, At, TokenPcs
<1>29. CASE Clears(h)
  <2>1. me.q \in Requests \cup {None}
    BY <1>1 DEF HandlerType
  <2>2. QED
    BY <1>3, <1>4, <1>7, <1>18, <1>29, <2>1 DEF Clears
<1>30. QED
  BY <1>9, <1>10, <1>11, <1>12, <1>13, <1>14, <1>15, <1>16, <1>17, <1>19, <1>20, <1>21, <1>22,
     <1>24, <1>25, <1>26, <1>27, <1>28, <1>29 DEF Authentication

LEMMA StopsTyped ==
    ASSUME Typed, NEW h \in Handlers, Stops(h), UNCHANGED <<admission, authentication>>
    PROVE  Typed' /\ handler'[h] = Rest /\ \A k \in Handlers \ {h} : handler'[k] = handler[k]
<1>1. /\ handler' \in [Handlers -> HandlerType] /\ \A k \in Handlers : Sound(handler'[k])
      /\ handler'[h] = Rest /\ \A k \in Handlers \ {h} : handler'[k] = handler[k]
  BY RestSound, BecomeSound DEF Stops
<1>2. started' \in Nat /\ faults' \in Nat /\ disturbed' \in BOOLEAN
  BY DEF Stops, Typed, TypeOK
<1>3. QED
  BY <1>1, <1>2 DEF Stops, Typed, TypeOK, admission, authentication

LEMMA StepTyped == Typed /\ [Next]_vars => Typed'
<1> SUFFICES ASSUME Typed, [Next]_vars PROVE Typed'
  OBVIOUS
<1>1. CASE UNCHANGED vars
  BY <1>1 DEF vars, shared, admission, authentication, Typed, TypeOK
<1>2. CASE Next
  BY <1>2, AdmissionTyped, AuthenticationTyped, StopsTyped DEF Next
<1>3. QED
  BY <1>1, <1>2

\* For any requests, sessions, tokens and handlers: every variable keeps its type.
THEOREM TypeCorrect == Spec => []TypeOK
<1>1. Init => Typed
  BY InitTyped
<1>2. Typed /\ [Next]_vars => Typed'
  BY StepTyped
<1>3. Typed => TypeOK
  BY DEF Typed
<1>4. QED
  BY <1>1, <1>2, <1>3, PTL DEF Spec

-----------------------------------------------------------------------------
(* Whom an administrator approved.                                         *)

Given(q) == person[q] /\ account[q].state # "NONE"

\* What a handler is to write about a request, the person and account bear out.
BornOut(me) ==
    /\ me.pc \in {"account", "rewrite", "grant"} => person[me.q]
    /\ me.pc \in {"decide", "edit"} /\ ByAdmin(me.row) => Given(me.q)

AccessGiven ==
    /\ \A q \in Requests : ByAdmin(request[q]) => Given(q)
    /\ \A h \in Handlers : BornOut(handler[h])

\* A step that takes no person or account away, and writes and holds what is borne out.
LEMMA GivenKept ==
    ASSUME Typed, AccessGiven, NEW h \in Handlers, NEW next,
           handler'[h] = next, \A k \in Handlers \ {h} : handler'[k] = handler[k],
           \A q \in Requests : person[q] => person'[q],
           \A q \in Requests : account[q].state # "NONE" => account'[q].state # "NONE",
           \A q \in Requests : ByAdmin(request'[q]) =>
                                   ByAdmin(request[q]) \/ (person'[q] /\ account'[q].state # "NONE"),
           next.pc \in {"account", "rewrite", "grant"} => person'[next.q],
           next.pc \in {"decide", "edit"} /\ ByAdmin(next.row) =>
               person'[next.q] /\ account'[next.q].state # "NONE"
    PROVE  AccessGiven'
<1>1. handler'[h] = next /\ \A k \in Handlers \ {h} : handler'[k] = handler[k]
  OBVIOUS
<1>2. \A q \in Requests : Given(q) => Given(q)'
  BY DEF Given
<1>3. ASSUME NEW q \in Requests, ByAdmin(request[q])'
      PROVE  Given(q)'
  BY <1>2, <1>3 DEF AccessGiven, Given, ByAdmin
<1>4. ASSUME NEW k \in Handlers \ {h}
      PROVE  BornOut(handler[k])'
  <2>1. Sound(handler[k]) /\ BornOut(handler[k]) /\ handler'[k] = handler[k]
    BY <1>1 DEF Typed, AccessGiven
  <2>2. handler[k].pc \in {"account", "rewrite", "grant", "decide", "edit"} =>
            handler[k].q \in Requests
    BY <2>1 DEF Sound, Granting
  <2>3. QED
    BY <1>2, <2>1, <2>2 DEF BornOut, Given, ByAdmin
<1>5. BornOut(handler[h])'
  BY <1>1 DEF BornOut, Given, ByAdmin
<1>6. QED
  BY <1>3, <1>4, <1>5 DEF AccessGiven

LEMMA AdmissionGiven ==
    ASSUME Typed, AccessGiven, NEW h \in Handlers, Admission(h), UNCHANGED authentication
    PROVE  AccessGiven'
<1> DEFINE me == handler[h]
<1>1. Typed' /\ Sound(me) /\ me \in HandlerType /\ BornOut(me) /\ me.row \in RowType
  BY AdmissionTyped DEF Typed, AccessGiven, Sound, HandlerType
<1>2. /\ request \in [Requests -> RowType] /\ person \in [Requests -> BOOLEAN]
      /\ account \in [Requests -> AccountType]
      /\ \A k \in Handlers : handler'[k] \in HandlerType /\ Sound(handler'[k])
  BY <1>1 DEF Typed, TypeOK
<1>3. ASSUME NEW next, Starts(h, next) \/ Continues(h, next)
      PROVE  handler'[h] = next /\ \A k \in Handlers \ {h} : handler'[k] = handler[k]
  <2>1. handler'[h] = next
    BY <1>3 DEF Starts, Continues, Become, Typed, TypeOK
  <2>2. QED
    BY <2>1, AdmissionTyped DEF Others
<1>4. \* A step that leaves the people and accounts.
      ASSUME NEW next, Starts(h, next) \/ Continues(h, next),
             UNCHANGED <<person, account>>,
             \A q \in Requests : ByAdmin(request'[q]) => ByAdmin(request[q]) \/ Given(q),
             next.pc \in {"account", "rewrite", "grant"} => person[next.q],
             next.pc \in {"decide", "edit"} /\ ByAdmin(next.row) => Given(next.q)
      PROVE  AccessGiven'
  <2>1. handler'[h] = next /\ \A k \in Handlers \ {h} : handler'[k] = handler[k]
    BY <1>3, <1>4
  <2>2. /\ \A q \in Requests : person[q] => person'[q]
        /\ \A q \in Requests : account[q].state # "NONE" => account'[q].state # "NONE"
    BY <1>4
  <2>3. \A q \in Requests : ByAdmin(request'[q]) =>
            ByAdmin(request[q]) \/ (person'[q] /\ account'[q].state # "NONE")
    BY <1>4 DEF Given
  <2>4. /\ next.pc \in {"account", "rewrite", "grant"} => person'[next.q]
        /\ next.pc \in {"decide", "edit"} /\ ByAdmin(next.row) =>
               person'[next.q] /\ account'[next.q].state # "NONE"
    BY <1>4 DEF Given
  <2>5. QED
    BY <1>4, <2>1, <2>2, <2>3, <2>4, GivenKept
<1>5. Rest.pc = "idle" /\ Rest \in HandlerType
  BY RestSound DEF Rest, Sound
<1>6. ASSUME NEW k \in Camps, ChecksEmail(h, k)
      PROVE  AccessGiven'
  <2>1. [Rest EXCEPT !.pc = "insert", !.row = [NoRow EXCEPT !.camp = k]].pc = "insert"
    BY <1>5 DEF HandlerType
  <2>2. QED
    BY <1>4, <1>6, <2>1 DEF ChecksEmail
<1>7. ASSUME NEW q \in Requests, Inserts(h, q)
      PROVE  AccessGiven'
  <2>1. [Rest EXCEPT !.pc = "advise", !.q = q].pc = "advise"
    BY <1>5 DEF HandlerType
  <2>2. \A p \in Requests : ByAdmin(request'[p]) => ByAdmin(request[p])
    BY <1>1, <1>2, <1>7 DEF Inserts, ByAdmin, RowType
  <2>3. QED
    BY <1>4, <1>7, <2>1, <2>2 DEF Inserts
<1>8. ASSUME NEW status \in {"PENDING_ADMIN", "APPROVED", "REJECTED"}, Advises(h, status)
      PROVE  AccessGiven'
  <2>1. PICK next : Continues(h, next) /\ next.pc \in {"idle", "person"}
    <3>1. CASE Continues(h, Rest)
      BY <1>5, <3>1
    <3>2. ASSUME NEW row, NEW acc,
                 Continues(h, [Rest EXCEPT !.pc = "person", !.q = me.q, !.row = row, !.acc = acc])
          PROVE  \E next : Continues(h, next) /\ next.pc \in {"idle", "person"}
      <4>1. [Rest EXCEPT !.pc = "person", !.q = me.q, !.row = row, !.acc = acc].pc = "person"
        BY <1>5 DEF HandlerType
      <4>2. QED
        BY <3>2, <4>1
    <3>3. QED
      BY <1>8, <3>1, <3>2 DEF Advises
  <2>2. UNCHANGED <<person, account>>
    BY <1>8 DEF Advises
  <2>3. \A p \in Requests : ByAdmin(request'[p]) => ByAdmin(request[p])
    <3>1. request' = [request EXCEPT ![me.q] = [request[me.q] EXCEPT !.status = status, !.by = "ai"]]
          /\ me.q \in Requests
      BY <1>1, <1>8 DEF Advises, Sound, At
    <3>2. QED
      BY <1>2, <3>1 DEF ByAdmin, RowType
  <2>4. QED
    BY <1>4, <2>1, <2>2, <2>3
<1>9. CASE AdviceFails(h)
  BY <1>4, <1>5, <1>9 DEF AdviceFails
<1>10. ASSUME NEW q \in Requests, ProposesReads(h, q)
       PROVE  AccessGiven'
  <2>1. [Rest EXCEPT !.pc = "propose", !.q = q].pc = "propose"
    BY <1>5 DEF HandlerType
  <2>2. QED
    BY <1>4, <1>10, <2>1 DEF ProposesReads
<1>11. CASE Proposes(h)
  <2>1. \A p \in Requests : ByAdmin(request'[p]) => ByAdmin(request[p])
    BY <1>2, <1>11 DEF Proposes, ByAdmin, RowType
  <2>2. QED
    BY <1>4, <1>5, <1>11, <2>1 DEF Proposes
<1>12. ASSUME NEW q \in Requests, EditFinds(h, q)
       PROVE  AccessGiven'
  <2> DEFINE next == [Rest EXCEPT !.pc = "edit", !.q = q, !.row = request[q]]
  <2>1. next.pc = "edit" /\ next.q = q /\ next.row = request[q]
    BY <1>5 DEF HandlerType
  <2>2. ByAdmin(request[q]) => Given(q)
    BY DEF AccessGiven
  <2>3. QED
    BY <1>4, <1>12, <2>1, <2>2 DEF EditFinds
<1>13. CASE EditSaves(h) \/ Decides(h)
  <2>1. /\ request' = [request EXCEPT ![me.q] = me.row] /\ UNCHANGED <<account, person>>
        /\ Continues(h, Rest) /\ me.pc \in {"edit", "decide"}
    BY <1>13 DEF EditSaves, Decides, At
  <2>2. ByAdmin(me.row) => Given(me.q)
    BY <1>1, <2>1 DEF BornOut
  <2>3. \A p \in Requests : ByAdmin(request'[p]) => ByAdmin(request[p]) \/ Given(p)
    BY <1>2, <2>1, <2>2
  <2>4. QED
    BY <1>4, <1>5, <2>1, <2>3
<1>14. ASSUME NEW q \in Requests, NEW status \in {"APPROVED", "REJECTED"}, NEW r \in Roles,
              Reviews(h, q, status, r)
       PROVE  AccessGiven'
  <2>1. PICK row, acc :
             /\ row = [request[q] EXCEPT !.status = status, !.by = "admin"]
             /\ Starts(h, [Rest EXCEPT !.pc = AfterReading(status), !.q = q, !.row = row,
                                       !.acc = acc])
    BY <1>14 DEF Reviews
  <2> DEFINE next == [Rest EXCEPT !.pc = AfterReading(status), !.q = q, !.row = row, !.acc = acc]
  <2>2. next.pc = AfterReading(status) /\ next.row = row
    BY <1>5 DEF HandlerType
  <2>3. row.status = status
    BY <1>2, <2>1 DEF RowType
  <2>4. next.pc = "person" \/ (next.pc = "decide" /\ ~ByAdmin(next.row))
    BY <1>14, <2>2, <2>3 DEF AfterReading, ByAdmin
  <2>5. QED
    BY <1>4, <1>14, <2>1, <2>4 DEF Reviews
<1>15. \A pc : [me EXCEPT !.pc = pc].pc = pc /\ [me EXCEPT !.pc = pc].q = me.q
  BY <1>1 DEF HandlerType
<1>16. CASE FindsPerson(h)
  BY <1>4, <1>15, <1>16 DEF FindsPerson
<1>17. CASE Admits(h)
  <2>1. PICK next : /\ Continues(h, next) /\ UNCHANGED <<account, request>>
                    /\ person' = [person EXCEPT ![me.q] = TRUE]
                    /\ next = Rest \/ next = [me EXCEPT !.pc = "account"]
    BY <1>17 DEF Admits
  <2>2. me.q \in Requests
    BY <1>1, <1>17 DEF Admits, At, Sound, Granting
  <2>3. person'[me.q] /\ \A q \in Requests : person[q] => person'[q]
    BY <1>2, <2>1, <2>2
  <2>4. next.pc = "idle" \/ (next.pc = "account" /\ next.q = me.q)
    BY <1>1, <1>5, <2>1 DEF HandlerType
  <2>5. QED
    BY <1>3, <2>1, <2>3, <2>4, GivenKept
<1>18. \* An access that is ready, before it is written by a review.
       ASSUME Continues(h, Granted(me)), me.pc \in {"account", "rewrite", "grant"},
              UNCHANGED <<request, person>>, account'[me.q].state # "NONE",
              \A q \in Requests : account[q].state # "NONE" => account'[q].state # "NONE"
       PROVE  AccessGiven'
  <2>1. PICK next : Continues(h, next) /\ next = Granted(me)
    BY <1>18
  <2>2. next.pc = "idle" \/ (next.pc = "decide" /\ next.q = me.q)
    BY <1>1, <1>18, <2>1, GrantedSound DEF Granting, HandlerType
  <2>3. person[me.q]
    BY <1>1, <1>18 DEF BornOut
  <2>4. QED
    BY <1>3, <1>18, <2>1, <2>2, <2>3, GivenKept
<1>19. CASE FindsAccount(h)
  <2>1. me.pc = "account" /\ person[me.q] /\ UNCHANGED <<account, request, person>>
    BY <1>1, <1>19 DEF FindsAccount, At, BornOut
  <2>2. CASE Exists(me.q) /\ Continues(h, Granted(me))
    <3>1. account[me.q].state # "NONE"
      BY <2>2 DEF Exists
    <3>2. QED
      BY <1>18, <2>1, <2>2, <3>1
  <2>3. CASE Continues(h, [me EXCEPT !.pc = "rewrite"]) \/ Continues(h, [me EXCEPT !.pc = "grant"])
    BY <1>4, <1>15, <2>1, <2>3
  <2>4. QED
    BY <1>19, <2>2, <2>3 DEF FindsAccount
<1>20. CASE RewritesAccount(h) \/ GrantsAccount(h)
  <2>1. me.pc \in {"rewrite", "grant"} /\ me.q \in Requests /\ me.acc.state = "ACTIVE"
    BY <1>1, <1>20 DEF RewritesAccount, GrantsAccount, At, Sound, Granting
  <2>2. CASE Continues(h, Rest) /\ UNCHANGED <<account, request, person>>
    BY <1>4, <1>5, <2>2
  <2>3. CASE /\ Continues(h, Granted(me)) /\ UNCHANGED <<request, person>>
             /\ account' = [account EXCEPT ![me.q] = me.acc]
    <3>1. \A q \in Requests : account'[q] = IF q = me.q THEN me.acc ELSE account[q]
      BY <1>2, <2>3
    <3>2. /\ account'[me.q].state # "NONE"
          /\ \A q \in Requests : account[q].state # "NONE" => account'[q].state # "NONE"
      BY <2>1, <3>1
    <3>3. QED
      BY <1>18, <2>1, <2>3, <3>2
  <2>4. QED
    BY <1>20, <2>2, <2>3 DEF RewritesAccount, GrantsAccount
<1>21. QED
  BY <1>6, <1>7, <1>8, <1>9, <1>10, <1>11, <1>12, <1>13, <1>14, <1>16, <1>17, <1>19, <1>20
     DEF Admission

\* Nobody's account is taken back to before it was given.
LEMMA AuthenticationGiven ==
    ASSUME Typed, AccessGiven, NEW h \in Handlers, Authentication(h), UNCHANGED admission
    PROVE  AccessGiven'
<1>1. handler'[h].pc \in AuthenticationPcs /\ \A k \in Handlers \ {h} : handler'[k] = handler[k]
  BY AuthenticationTyped DEF Others
<1>2. /\ handler'[h].pc \notin {"account", "rewrite", "grant"}
      /\ handler'[h].pc \notin {"decide", "edit"}
  BY <1>1 DEF AuthenticationPcs, TokenPcs
<1>3. account \in [Requests -> AccountType]
  BY DEF Typed, TypeOK
<1>4. ASSUME NEW q \in Requests, account[q].state # "NONE"
      PROVE  account'[q].state # "NONE"
  <2>1. CASE Changes(h)
    <3> DEFINE me == handler[h]
    <3>1. CASE Exists(me.q)
      <4>1. account' = [account EXCEPT ![me.q] = Changed(account[me.q], me.acc)]
        BY <1>3, <2>1, <3>1 DEF Changes
      <4>2. account[q].state # "NONE" => Changed(account[q], me.acc).state # "NONE"
        BY DEF Changed
      <4>3. QED
        BY <1>3, <1>4, <4>1, <4>2
    <3>2. CASE ~Exists(me.q)
      BY <1>4, <2>1, <3>2 DEF Changes
    <3>3. QED
      BY <3>1, <3>2
  <2>2. CASE Deletes(h)
    BY <1>3, <1>4, <2>2 DEF Deletes
  <2>3. CASE ~Changes(h) /\ ~Deletes(h)
    <3>1. account' = account
      BY <2>3 DEF Authentication, LoginReads, LoginCreates, EndReads, Ends, ClosesSessions,
                  ChangeReads, DeleteReads, ForgetReads, Forgets, Issues, ResetReads,
                  ExpiryReads, Expires, Counts, Spends, ChangesPassword, Uses, Clears
    <3>2. QED
      BY <1>4, <3>1
  <2>4. QED
    BY <2>1, <2>2, <2>3
<1>5. request' = request /\ person' = person
  BY DEF admission
<1>6. QED
  BY <1>1, <1>2, <1>4, <1>5, GivenKept

LEMMA StepGiven == Typed /\ AccessGiven /\ [Next]_vars => AccessGiven'
<1> SUFFICES ASSUME Typed, AccessGiven, [Next]_vars PROVE AccessGiven'
  OBVIOUS
<1>1. CASE UNCHANGED vars
  BY <1>1 DEF vars, shared, admission, AccessGiven, BornOut, Given, ByAdmin
<1>2. ASSUME NEW h \in Handlers, Stops(h), UNCHANGED <<admission, authentication>>
      PROVE  AccessGiven'
  <2>1. handler'[h] = Rest /\ \A k \in Handlers \ {h} : handler'[k] = handler[k]
    BY <1>2, StopsTyped
  <2>2. UNCHANGED <<request, person, account>> /\ Rest.pc = "idle"
    BY <1>2 DEF Stops, admission, Rest
  <2>3. QED
    BY <2>1, <2>2, GivenKept
<1>3. CASE Next
  BY <1>2, <1>3, AdmissionGiven, AuthenticationGiven DEF Next
<1>4. QED
  BY <1>1, <1>3

LEMMA InitGiven == Init => AccessGiven
<1> SUFFICES ASSUME Init PROVE AccessGiven
  OBVIOUS
<1>1. \A q \in Requests : ByAdmin(request[q]) => Given(q)
  BY Zenon, InitKnown DEF Given
<1>2. handler = [h \in Handlers |-> Rest] /\ Rest.pc = "idle"
  BY DEF Init, SharedInit, Rest
<1>3. QED
  BY <1>1, <1>2 DEF AccessGiven, BornOut

\* For any requests and handlers: however reviews, advice and edits overlap, stop or are
\* repeated, whom an administrator approved has a person and was given an account.
THEOREM ApprovedGivenAccess == Spec => []ApprovedHasAccess
<1>1. Init => Typed /\ AccessGiven
  BY InitTyped, InitGiven
<1>2. Typed /\ AccessGiven /\ [Next]_vars => (Typed /\ AccessGiven)'
  BY StepTyped, StepGiven
<1>3. AccessGiven => ApprovedHasAccess
  BY DEF AccessGiven, ApprovedHasAccess, ByAdmin, Given
<1>4. QED
  BY <1>1, <1>2, <1>3, PTL DEF Spec

-----------------------------------------------------------------------------
(* How many camps admit an applicant.                                      *)

Holding == Granting \cup {"decide", "edit"}

\* What an administrator approved, and what a handler holds that may yet be written as such.
Counted == {q \in Requests : \/ ByAdmin(request[q])
                             \/ \E h \in Handlers : /\ handler[h].pc \in Holding
                                                    /\ handler[h].q = q
                                                    /\ ByAdmin(handler[h].row)}

AdmittedCounted == Cardinality(Counted) <= Cardinality(Handlers)

LEMMA CountedFinite == IsFiniteSet(Counted) /\ Cardinality(Counted) \in Nat
                       /\ Cardinality(Handlers) \in Nat
<1>1. Counted \subseteq Requests
  BY DEF Counted
<1>2. IsFiniteSet(Counted)
  BY <1>1, FS_Subset, AccountsAssumption
<1>3. QED
  BY <1>2, FS_CardinalityType, AccountsAssumption

\* A step that writes and holds nothing that did not count.
LEMMA CountedKept ==
    ASSUME Typed, AdmittedCounted, NEW h \in Handlers, NEW next,
           handler'[h] = next, \A k \in Handlers \ {h} : handler'[k] = handler[k],
           \A q \in Requests : ByAdmin(request'[q]) => q \in Counted,
           next.pc \in Holding /\ ByAdmin(next.row) => next.q \in Counted
    PROVE  AdmittedCounted'
<1>1. Counted' \subseteq Counted
  <2> SUFFICES ASSUME NEW q \in Counted' PROVE q \in Counted
    OBVIOUS
  <2>1. q \in Requests
    BY DEF Counted
  <2>2. CASE ByAdmin(request'[q])
    BY <2>1, <2>2
  <2>3. ASSUME NEW k \in Handlers,
               handler'[k].pc \in Holding, handler'[k].q = q, ByAdmin(handler'[k].row)
        PROVE  q \in Counted
    <3>1. CASE k = h
      BY <2>3, <3>1
    <3>2. CASE k # h
      BY <2>1, <2>3, <3>2 DEF Counted
    <3>3. QED
      BY <3>1, <3>2
  <2>4. QED
    BY <2>2, <2>3 DEF Counted, ByAdmin
<1>2. Cardinality(Counted') <= Cardinality(Counted)
  BY <1>1, CountedFinite, FS_Subset
<1>3. IsFiniteSet(Counted) /\ IsFiniteSet(Counted') /\ Cardinality(Handlers) \in Nat
  BY <1>1, CountedFinite, FS_Subset
<1>4. Cardinality(Counted) \in Nat /\ Cardinality(Counted') \in Nat
  BY <1>3, FS_CardinalityType
<1>5. QED
  BY <1>2, <1>3, <1>4 DEF AdmittedCounted

\* A review begins when nothing is approved: only what handlers hold counts after it.
LEMMA CountedHeld ==
    ASSUME \A q \in Requests : ~ByAdmin(request'[q])
    PROVE  AdmittedCounted'
<1> DEFINE held == [h \in Handlers |-> handler'[h].q]
           S == {held[h] : h \in Handlers}
<1>1. held \in Surjection(Handlers, S)
  BY DEF Surjection
<1>2. IsFiniteSet(S) /\ Cardinality(S) <= Cardinality(Handlers)
  BY <1>1, FS_Surjection, AccountsAssumption
<1>3. Counted' \subseteq S
  BY DEF Counted, ByAdmin
<1>4. Cardinality(Counted') <= Cardinality(S) /\ IsFiniteSet(Counted')
  BY <1>2, <1>3, FS_Subset
<1>5. /\ Cardinality(Counted') \in Nat /\ Cardinality(S) \in Nat
      /\ Cardinality(Handlers) \in Nat
  BY <1>2, <1>4, FS_CardinalityType, AccountsAssumption
<1>6. QED
  BY <1>2, <1>4, <1>5 DEF AdmittedCounted

LEMMA AdmissionCounted ==
    ASSUME Typed, AdmittedCounted, NEW h \in Handlers, Admission(h), UNCHANGED authentication
    PROVE  AdmittedCounted'
<1> DEFINE me == handler[h]
<1>1. Sound(me) /\ me \in HandlerType /\ request \in [Requests -> RowType]
  BY DEF Typed, TypeOK
<1>2. ASSUME NEW next, Starts(h, next) \/ Continues(h, next)
      PROVE  handler'[h] = next /\ \A k \in Handlers \ {h} : handler'[k] = handler[k]
  <2>1. handler'[h] = next
    BY <1>2 DEF Starts, Continues, Become, Typed, TypeOK
  <2>2. QED
    BY <2>1, AdmissionTyped DEF Others
<1>3. \A q \in Requests : ByAdmin(request[q]) => q \in Counted
  BY DEF Counted
<1>4. ASSUME NEW next, Starts(h, next) \/ Continues(h, next),
             \A q \in Requests : ByAdmin(request'[q]) => q \in Counted,
             next.pc \in Holding /\ ByAdmin(next.row) => next.q \in Counted
      PROVE  AdmittedCounted'
  BY <1>2, <1>4, CountedKept
<1>5. \* What the handler holds already counts, wherever it takes it.
      ASSUME NEW next, Starts(h, next) \/ Continues(h, next), UNCHANGED request,
             next.pc \in Holding => /\ me.pc \in Holding
                                    /\ next.q = me.q /\ next.row = me.row
      PROVE  AdmittedCounted'
  <2>1. me.pc \in Holding => me.q \in Requests
    BY <1>1 DEF Sound, Holding, Granting
  <2>2. me.pc \in Holding /\ ByAdmin(me.row) => me.q \in Counted
    BY <2>1 DEF Counted
  <2>3. QED
    BY <1>3, <1>4, <1>5, <2>2
<1>6. Rest.pc = "idle" /\ Rest.pc \notin Holding /\ Rest \in HandlerType
  BY RestSound DEF Rest, Sound, Holding, Granting
<1>7. ASSUME NEW k \in Camps, ChecksEmail(h, k)
      PROVE  AdmittedCounted'
  <2>1. [Rest EXCEPT !.pc = "insert", !.row = [NoRow EXCEPT !.camp = k]].pc \notin Holding
    BY <1>6 DEF HandlerType, Holding, Granting
  <2>2. QED
    BY <1>5, <1>7, <2>1 DEF ChecksEmail
<1>8. ASSUME NEW q \in Requests, Inserts(h, q)
      PROVE  AdmittedCounted'
  <2>1. [Rest EXCEPT !.pc = "advise", !.q = q].pc \notin Holding
    BY <1>6 DEF HandlerType, Holding, Granting
  <2>2. me.row \in RowType
    BY <1>1 DEF HandlerType
  <2>3. \A p \in Requests : ByAdmin(request'[p]) => ByAdmin(request[p])
    BY <1>1, <1>8, <2>2 DEF Inserts, ByAdmin, RowType
  <2>4. QED
    BY <1>3, <1>4, <1>8, <2>1, <2>3 DEF Inserts
<1>9. ASSUME NEW status \in {"PENDING_ADMIN", "APPROVED", "REJECTED"}, Advises(h, status)
      PROVE  AdmittedCounted'
  <2>1. PICK row : /\ row = [request[me.q] EXCEPT !.status = status, !.by = "ai"]
                   /\ request' = [request EXCEPT ![me.q] = row]
                   /\ \/ Continues(h, Rest)
                      \/ \E acc : Continues(h, [Rest EXCEPT !.pc = "person", !.q = me.q,
                                                            !.row = row, !.acc = acc])
    BY <1>9 DEF Advises
  <2>2. me.q \in Requests
    BY <1>1, <1>9 DEF Advises, Sound, At
  <2>3. ~ByAdmin(row)
    BY <1>1, <2>1, <2>2 DEF ByAdmin, RowType
  <2>4. \A p \in Requests : ByAdmin(request'[p]) => ByAdmin(request[p])
    BY <1>1, <2>1, <2>2, <2>3
  <2>5. CASE Continues(h, Rest)
    BY <1>3, <1>4, <1>6, <2>4, <2>5
  <2>6. ASSUME NEW acc, Continues(h, [Rest EXCEPT !.pc = "person", !.q = me.q,
                                                 !.row = row, !.acc = acc])
        PROVE  AdmittedCounted'
    <3>1. [Rest EXCEPT !.pc = "person", !.q = me.q, !.row = row, !.acc = acc].row = row
      BY <1>6 DEF HandlerType
    <3>2. QED
      BY <1>3, <1>4, <2>3, <2>4, <2>6, <3>1
  <2>7. QED
    BY <2>1, <2>5, <2>6
<1>10. CASE AdviceFails(h)
  BY <1>5, <1>6, <1>10 DEF AdviceFails
<1>11. ASSUME NEW q \in Requests, ProposesReads(h, q)
       PROVE  AdmittedCounted'
  <2>1. [Rest EXCEPT !.pc = "propose", !.q = q].pc \notin Holding
    BY <1>6 DEF HandlerType, Holding, Granting
  <2>2. QED
    BY <1>5, <1>11, <2>1 DEF ProposesReads
<1>12. CASE Proposes(h)
  <2>1. \A p \in Requests : ByAdmin(request'[p]) => ByAdmin(request[p])
    BY <1>1, <1>12 DEF Proposes, ByAdmin, RowType
  <2>2. QED
    BY <1>3, <1>4, <1>6, <1>12, <2>1 DEF Proposes
<1>13. ASSUME NEW q \in Requests, EditFinds(h, q)
       PROVE  AdmittedCounted'
  <2> DEFINE next == [Rest EXCEPT !.pc = "edit", !.q = q, !.row = request[q]]
  <2>1. next.q = q /\ next.row = request[q]
    BY <1>6 DEF HandlerType
  <2>2. Starts(h, next) /\ UNCHANGED request
    BY <1>13 DEF EditFinds
  <2>3. QED
    BY <1>3, <1>4, <2>1, <2>2
<1>14. CASE EditSaves(h) \/ Decides(h)
  <2>1. /\ request' = [request EXCEPT ![me.q] = me.row] /\ Continues(h, Rest)
        /\ me.pc \in {"edit", "decide"}
    BY <1>14 DEF EditSaves, Decides, At
  <2>2. me.q \in Requests
    BY <1>1, <2>1 DEF Sound
  <2>3. ByAdmin(me.row) => me.q \in Counted
    BY <2>1, <2>2 DEF Counted, Holding
  <2>4. \A p \in Requests : ByAdmin(request'[p]) => p \in Counted
    BY <1>1, <1>3, <2>1, <2>3
  <2>5. QED
    BY <1>4, <1>6, <2>1, <2>4
<1>15. ASSUME NEW q \in Requests, NEW status \in {"APPROVED", "REJECTED"}, NEW r \in Roles,
              Reviews(h, q, status, r)
       PROVE  AdmittedCounted'
  <2>1. CASE status = "APPROVED"
    <3>1. \A p \in Requests : request[p].status # "APPROVED"
      BY <1>15, <2>1 DEF Reviews, AlreadyApproved
    <3>2. \A p \in Requests : ~ByAdmin(request'[p])
      BY <1>15, <3>1 DEF Reviews, ByAdmin
    <3>3. QED
      BY <3>2, CountedHeld
  <2>2. CASE status = "REJECTED"
    <3>1. PICK row, acc, pc :
             /\ row = [request[q] EXCEPT !.status = status, !.by = "admin"]
             /\ Starts(h, [Rest EXCEPT !.pc = pc, !.q = q, !.row = row, !.acc = acc])
      BY <1>15 DEF Reviews
    <3>2. [Rest EXCEPT !.pc = pc, !.q = q, !.row = row, !.acc = acc].row = row
      BY <1>6 DEF HandlerType
    <3>3. ~ByAdmin(row)
      BY <1>1, <2>2, <3>1 DEF ByAdmin, RowType
    <3>4. request' = request
      BY <1>15 DEF Reviews
    <3>5. QED
      BY <1>3, <1>4, <3>1, <3>2, <3>3, <3>4
  <2>3. QED
    BY <1>15, <2>1, <2>2
<1>16. \* The steps that give access keep what the handler holds, or drop it.
       ASSUME me.pc \in Granting, UNCHANGED request,
              NEW next, Continues(h, next),
              next = Rest \/ \E pc \in Holding : next = [me EXCEPT !.pc = pc]
       PROVE  AdmittedCounted'
  <2>1. next.pc \in Holding => next.q = me.q /\ next.row = me.row
    BY <1>1, <1>6, <1>16 DEF HandlerType
  <2>2. QED
    BY <1>5, <1>16, <2>1 DEF Holding
<1>17. me.pc \in Granting =>
           Granted(me) = Rest \/ \E pc \in Holding : Granted(me) = [me EXCEPT !.pc = pc]
  BY DEF Granted, Holding
<1>18. CASE FindsPerson(h) \/ Admits(h)
  <2>1. PICK next : /\ me.pc \in Granting /\ UNCHANGED request /\ Continues(h, next)
                    /\ next = Rest \/ \E pc \in Holding : next = [me EXCEPT !.pc = pc]
    BY <1>18 DEF FindsPerson, Admits, At, Granting, Holding
  <2>2. QED
    BY <1>16, <2>1
<1>19. CASE FindsAccount(h) \/ RewritesAccount(h) \/ GrantsAccount(h)
  <2>1. /\ me.pc \in Granting /\ UNCHANGED request
        /\ \/ Continues(h, Rest) \/ Continues(h, Granted(me))
           \/ \E pc \in Holding : Continues(h, [me EXCEPT !.pc = pc])
    BY <1>19 DEF FindsAccount, RewritesAccount, GrantsAccount, At, Granting, Holding
  <2>2. PICK next : /\ Continues(h, next)
                    /\ next = Rest \/ \E pc \in Holding : next = [me EXCEPT !.pc = pc]
    BY <1>17, <2>1
  <2>3. QED
    BY <1>16, <2>1, <2>2
<1>20. QED
  BY <1>7, <1>8, <1>9, <1>10, <1>11, <1>12, <1>13, <1>14, <1>15, <1>18, <1>19 DEF Admission

LEMMA StepCounted == Typed /\ AdmittedCounted /\ [Next]_vars => AdmittedCounted'
<1> SUFFICES ASSUME Typed, AdmittedCounted, [Next]_vars PROVE AdmittedCounted'
  OBVIOUS
<1>1. CASE UNCHANGED vars
  BY <1>1 DEF vars, shared, admission, AdmittedCounted, Counted, ByAdmin
<1>2. \A q \in Requests : ByAdmin(request[q]) => q \in Counted
  BY DEF Counted
<1>3. ASSUME NEW h \in Handlers, Stops(h), UNCHANGED <<admission, authentication>>
      PROVE  AdmittedCounted'
  <2>1. handler'[h] = Rest /\ \A k \in Handlers \ {h} : handler'[k] = handler[k]
    BY <1>3, StopsTyped
  <2>2. request' = request /\ Rest.pc \notin Holding
    BY <1>3 DEF admission, Rest, Holding, Granting
  <2>3. QED
    BY <1>2, <2>1, <2>2, CountedKept
<1>4. ASSUME NEW h \in Handlers, Authentication(h), UNCHANGED admission
      PROVE  AdmittedCounted'
  <2>1. /\ handler'[h].pc \in AuthenticationPcs
        /\ \A k \in Handlers \ {h} : handler'[k] = handler[k]
    BY <1>4, AuthenticationTyped DEF Others
  <2>2. request' = request /\ handler'[h].pc \notin Holding
    BY <1>4, <2>1 DEF admission, AuthenticationPcs, TokenPcs, Holding, Granting
  <2>3. QED
    BY <1>2, <2>1, <2>2, CountedKept
<1>5. CASE Next
  BY <1>3, <1>4, <1>5, AdmissionCounted DEF Next
<1>6. QED
  BY <1>1, <1>5

LEMMA InitCounted == Init => AdmittedCounted
<1> SUFFICES ASSUME Init PROVE AdmittedCounted
  OBVIOUS
<1>1. \A h \in Handlers : handler[h].pc \notin Holding
  BY DEF Init, SharedInit, Rest, Holding, Granting
<1>2. Counted = {q \in Requests : ByAdmin(request[q])}
  BY <1>1 DEF Counted
<1>3. Cardinality(Counted) <= 1
  BY <1>2, InitKnown
<1>4. Cardinality(Handlers) # 0 /\ Cardinality(Handlers) \in Nat /\ Cardinality(Counted) \in Nat
  BY CountedFinite, FS_EmptySet, AccountsAssumption
<1>5. QED
  BY <1>3, <1>4 DEF AdmittedCounted

\* For any requests and handlers: however often requests are edited, reviewed again or
\* overwritten, no more camps have an applicant approved by an administrator than handlers
\* can be active at once.
THEOREM AdmissionsBounded == Spec => []AdmittedAtMost
<1>1. Init => Typed /\ AdmittedCounted
  BY InitTyped, InitCounted
<1>2. Typed /\ AdmittedCounted /\ [Next]_vars => (Typed /\ AdmittedCounted)'
  BY StepTyped, StepCounted
<1>3. AdmittedCounted => AdmittedAtMost
  <2> DEFINE S == {q \in Requests : request[q].status = "APPROVED" /\ request[q].by = "admin"}
  <2> SUFFICES ASSUME AdmittedCounted PROVE Cardinality(S) <= Cardinality(Handlers)
    BY DEF AdmittedAtMost
  <2>1. S \subseteq Counted
    BY DEF Counted, ByAdmin
  <2>2. Cardinality(S) <= Cardinality(Counted) /\ IsFiniteSet(S)
    BY <2>1, CountedFinite, FS_Subset
  <2>3. Cardinality(S) \in Nat
    BY <2>2, FS_CardinalityType
  <2>4. QED
    BY <2>2, <2>3, CountedFinite DEF AdmittedCounted
<1>4. QED
  BY <1>1, <1>2, <1>3, PTL DEF Spec

-----------------------------------------------------------------------------
(* How often a code can be used.                                           *)

On(pc, t) == {h \in Handlers : handler[h].pc = pc /\ handler[h].t = t}

\* While a token is ACTIVE, whoever has changed the password by it has not used it up yet,
\* or stopped before; afterwards nobody else finds it.
ChangesCounted ==
    \A t \in Tokens :
        /\ token[t].changed + Cardinality(On("password", t)) <= Cardinality(Handlers) + faults
        /\ token[t].state = "ACTIVE" => token[t].changed <= Cardinality(On("use", t)) + faults

\* Answers that were found wrong count with those that are written; a token past its time
\* is saved with the attempts it had when nobody could be given one more.
AnswersCounted ==
    \A t \in Tokens :
        /\ token[t].attempts + Cardinality(On("count", t)) < MaxAttempts + Cardinality(Handlers)
        /\ \A h \in On("expire", t) :
              /\ token[t].state # "NONE"
              /\ handler[h].seen + Cardinality(On("count", t)) < MaxAttempts + Cardinality(Handlers)
              /\ handler[h].seen >= MaxAttempts =>
                    token[t].state # "ACTIVE" \/ token[t].attempts >= MaxAttempts

ResetsCounted == ChangesCounted /\ AnswersCounted

\* Of the handlers that are somewhere with a token.
LEMMA OnFinite ==
    ASSUME NEW pc, NEW t
    PROVE  /\ IsFiniteSet(On(pc, t)) /\ Cardinality(On(pc, t)) \in Nat
           /\ Cardinality(Handlers) \in Nat /\ Cardinality(On(pc, t)) <= Cardinality(Handlers)
<1>1. On(pc, t) \subseteq Handlers
  BY DEF On
<1>2. IsFiniteSet(On(pc, t)) /\ Cardinality(On(pc, t)) <= Cardinality(Handlers)
  BY <1>1, FS_Subset, AccountsAssumption
<1>3. QED
  BY <1>2, FS_CardinalityType, AccountsAssumption

\* Handlers of two kinds that have none in common.
LEMMA ApartBounded ==
    ASSUME NEW S \in SUBSET Handlers, NEW T \in SUBSET Handlers, S \cap T = {}
    PROVE  Cardinality(S) + Cardinality(T) <= Cardinality(Handlers)
<1>1. IsFiniteSet(S) /\ IsFiniteSet(T)
  BY FS_Subset, AccountsAssumption
<1>2. Cardinality(S) \in Nat /\ Cardinality(T) \in Nat
  BY <1>1, FS_CardinalityType
<1>3. /\ Cardinality(S \cup T) = Cardinality(S) + Cardinality(T) - Cardinality(S \cap T)
      /\ Cardinality(S \cap T) = 0
  BY <1>1, FS_Union, FS_EmptySet
<1>4. Cardinality(S \cup T) <= Cardinality(Handlers)
  BY FS_Subset, AccountsAssumption
<1>5. QED
  BY <1>2, <1>3, <1>4

\* A step of one handler changes their number by that one.
LEMMA OnMoves ==
    ASSUME NEW h \in Handlers, NEW next, handler'[h] = next,
           \A k \in Handlers \ {h} : handler'[k] = handler[k],
           NEW pc, NEW t
    PROVE  /\ Cardinality(On(pc, t)') \in Nat
           /\ Cardinality(On(pc, t)')
                = Cardinality(On(pc, t)) - (IF handler[h].pc = pc /\ handler[h].t = t THEN 1 ELSE 0)
                                         + (IF next.pc = pc /\ next.t = t THEN 1 ELSE 0)
<1> DEFINE rest == On(pc, t) \ {h}
           was  == handler[h].pc = pc /\ handler[h].t = t
           is   == next.pc = pc /\ next.t = t
<1>1. h \in On(pc, t) <=> was
  BY DEF On
<1>2. /\ IsFiniteSet(rest)
      /\ Cardinality(rest) = Cardinality(On(pc, t)) - (IF was THEN 1 ELSE 0)
  BY <1>1, OnFinite, FS_RemoveElement
<1>3. On(pc, t)' = IF is THEN rest \cup {h} ELSE rest
  BY DEF On
<1>4. /\ h \notin rest /\ IsFiniteSet(rest \cup {h})
      /\ Cardinality(rest \cup {h}) = Cardinality(rest) + 1
  BY <1>2, FS_AddElement
<1>5. /\ Cardinality(rest) \in Nat /\ Cardinality(rest \cup {h}) \in Nat
      /\ Cardinality(On(pc, t)) \in Nat
  BY <1>2, <1>4, OnFinite, FS_CardinalityType
<1>6. CASE is
  BY <1>2, <1>3, <1>4, <1>5, <1>6
<1>7. CASE ~is
  BY <1>2, <1>3, <1>5, <1>7
<1>8. QED
  BY <1>6, <1>7

\* What is known of a step and a token in each of the lemmas below.
LEMMA TokenFacts ==
    ASSUME Typed, NEW t \in Tokens
    PROVE  /\ token[t] \in TokenType /\ token[t].changed \in Nat /\ token[t].attempts \in Nat
           /\ faults \in Nat /\ MaxAttempts \in Nat /\ MaxAttempts > 0
           /\ \A h \in Handlers : handler[h].seen \in Nat /\ handler[h] \in HandlerType
BY AccountsAssumption DEF Typed, TypeOK, TokenType, HandlerType

\* A step that changes no count and gives nobody a token to change or try.
LEMMA ResetsKept ==
    ASSUME Typed, Typed', ResetsCounted, NEW h \in Handlers, NEW next, handler'[h] = next,
           \A k \in Handlers \ {h} : handler'[k] = handler[k],
           faults' >= faults,
           \A t \in Tokens :
               /\ token'[t].changed = token[t].changed /\ token'[t].attempts = token[t].attempts
               /\ token'[t].state = "ACTIVE" => token[t].state = "ACTIVE"
               /\ token[t].state # "NONE" => token'[t].state # "NONE",
           next.pc \notin {"password", "count", "expire"},
           handler[h].pc = "use" => faults' = faults + 1 \/ token'[handler[h].t].state # "ACTIVE"
    PROVE  ResetsCounted'
<1> DEFINE me == handler[h]
           Place(pc, t) == IF me.pc = pc /\ me.t = t THEN 1 ELSE 0
<1>1. ASSUME NEW t \in Tokens
      PROVE  /\ Cardinality(On("password", t)') \in Nat /\ Cardinality(On("password", t)) \in Nat
             /\ Cardinality(On("password", t)') <= Cardinality(On("password", t))
             /\ Cardinality(On("count", t)') \in Nat /\ Cardinality(On("count", t)) \in Nat
             /\ Cardinality(On("count", t)') <= Cardinality(On("count", t))
             /\ Cardinality(On("use", t)') \in Nat /\ Cardinality(On("use", t)) \in Nat
             /\ Cardinality(On("use", t)') >= Cardinality(On("use", t)) - Place("use", t)
             /\ Cardinality(Handlers) \in Nat
  <2>1. ASSUME NEW pc \in {"password", "count"}
        PROVE  /\ Cardinality(On(pc, t)') \in Nat
               /\ Cardinality(On(pc, t)') = Cardinality(On(pc, t)) - Place(pc, t)
    <3>1. Cardinality(On(pc, t)') = Cardinality(On(pc, t)) - Place(pc, t)
              + (IF next.pc = pc /\ next.t = t THEN 1 ELSE 0)
          /\ Cardinality(On(pc, t)') \in Nat
      BY OnMoves
    <3>2. next.pc # pc /\ Cardinality(On(pc, t)) \in Nat /\ Place(pc, t) \in Int
      BY OnFinite
    <3> HIDE DEF Place
    <3>3. QED
      BY <3>1, <3>2
  <2>2. /\ Cardinality(On("use", t)') \in Nat
        /\ Cardinality(On("use", t)') = Cardinality(On("use", t)) - Place("use", t)
              + (IF next.pc = "use" /\ next.t = t THEN 1 ELSE 0)
    BY OnMoves
  <2>3. \A pc : Cardinality(On(pc, t)) \in Nat /\ Cardinality(Handlers) \in Nat
    BY OnFinite
  <2>4. \A pc : Place(pc, t) \in {0, 1}
    OBVIOUS
  <2>5. (IF next.pc = "use" /\ next.t = t THEN 1 ELSE 0) \in {0, 1}
    OBVIOUS
  <2> HIDE DEF Place
  <2>6. QED
    BY <2>1, <2>2, <2>3, <2>4, <2>5
<1>2. ASSUME NEW t \in Tokens
      PROVE  /\ (token[t].changed + Cardinality(On("password", t))
                   <= Cardinality(Handlers) + faults)'
             /\ (token[t].state = "ACTIVE" => token[t].changed <= Cardinality(On("use", t)) + faults)'
  <2>1. /\ token[t].changed \in Nat /\ token'[t].changed = token[t].changed
        /\ faults \in Nat /\ faults' \in Nat
    BY TokenFacts DEF Typed, TypeOK
  <2>2. token[t].changed + Cardinality(On("password", t)) <= Cardinality(Handlers) + faults
    BY DEF ResetsCounted, ChangesCounted
  <2>3. token[t].state = "ACTIVE" => token[t].changed <= Cardinality(On("use", t)) + faults
    BY DEF ResetsCounted, ChangesCounted
  <2>4. (token[t].changed + Cardinality(On("password", t)) <= Cardinality(Handlers) + faults)'
    BY <1>1, <2>1, <2>2
  <2>5. token'[t].state = "ACTIVE" => token[t].state = "ACTIVE"
    OBVIOUS
  <2>6. CASE token'[t].state = "ACTIVE"
    <3>1. Place("use", t) = 0 \/ (Place("use", t) = 1 /\ faults' = faults + 1)
      BY <2>6
    <3>2. token[t].changed <= Cardinality(On("use", t)) + faults
      BY <2>3, <2>5, <2>6
    <3> HIDE DEF Place
    <3>3. QED
      BY <1>1, <2>1, <2>4, <3>1, <3>2
  <2>7. QED
    BY <2>4, <2>6
<1>3. ASSUME NEW t \in Tokens
      PROVE  /\ (token[t].attempts + Cardinality(On("count", t)) < MaxAttempts + Cardinality(Handlers))'
             /\ \A k \in On("expire", t)' :
                   /\ token'[t].state # "NONE"
                   /\ (handler[k].seen + Cardinality(On("count", t))
                          < MaxAttempts + Cardinality(Handlers))'
                   /\ (handler[k].seen >= MaxAttempts =>
                          token[t].state # "ACTIVE" \/ token[t].attempts >= MaxAttempts)'
  <2>1. /\ token[t].attempts \in Nat /\ token'[t].attempts = token[t].attempts /\ MaxAttempts \in Nat
        /\ token'[t].state = "ACTIVE" => token[t].state = "ACTIVE"
        /\ token[t].state # "NONE" => token'[t].state # "NONE"
    BY TokenFacts
  <2>2. token[t].attempts + Cardinality(On("count", t)) < MaxAttempts + Cardinality(Handlers)
    BY DEF ResetsCounted, AnswersCounted
  <2>3. (token[t].attempts + Cardinality(On("count", t)) < MaxAttempts + Cardinality(Handlers))'
    BY <1>1, <2>1, <2>2
  <2>4. ASSUME NEW k \in On("expire", t)'
        PROVE  /\ token'[t].state # "NONE"
               /\ (handler[k].seen + Cardinality(On("count", t))
                      < MaxAttempts + Cardinality(Handlers))'
               /\ (handler[k].seen >= MaxAttempts =>
                      token[t].state # "ACTIVE" \/ token[t].attempts >= MaxAttempts)'
    <3>1. k \in On("expire", t) /\ handler'[k] = handler[k] /\ k \in Handlers
      BY DEF On
    <3>2. /\ token[t].state # "NONE"
          /\ handler[k].seen + Cardinality(On("count", t)) < MaxAttempts + Cardinality(Handlers)
          /\ handler[k].seen >= MaxAttempts =>
                token[t].state # "ACTIVE" \/ token[t].attempts >= MaxAttempts
      BY <3>1 DEF ResetsCounted, AnswersCounted
    <3>3. handler[k].seen \in Nat
      BY <3>1, TokenFacts
    <3>4. QED
      BY <1>1, <2>1, <3>1, <3>2, <3>3
  <2>5. QED
    BY <2>3, <2>4
<1>4. QED
  BY <1>2, <1>3 DEF ResetsCounted, ChangesCounted, AnswersCounted

\* A step that leaves the tokens and does not go where one is changed or tried.
LEMMA ResetsElsewhere ==
    ASSUME Typed, Typed', ResetsCounted, NEW h \in Handlers,
           \A k \in Handlers \ {h} : handler'[k] = handler[k],
           faults' = faults \/ faults' = faults + 1, UNCHANGED token,
           handler'[h].pc \notin {"password", "count", "expire"},
           handler[h].pc = "use" => faults' = faults + 1
    PROVE  ResetsCounted'
<1>1. PICK next : next = handler'[h]
  OBVIOUS
<1>2. \A t \in Tokens :
          /\ token'[t].changed = token[t].changed /\ token'[t].attempts = token[t].attempts
          /\ token'[t].state = "ACTIVE" => token[t].state = "ACTIVE"
          /\ token[t].state # "NONE" => token'[t].state # "NONE"
  OBVIOUS
<1>3. faults' >= faults
  BY DEF Typed, TypeOK
<1>4. QED
  BY <1>1, <1>2, <1>3, ResetsKept

\* A handler has found the token of a user: it goes on to change the password, to count
\* a wrong answer or to end the token.
LEMMA ReadsCounted ==
    ASSUME Typed, Typed', ResetsCounted, NEW h \in Handlers, NEW q \in Requests, NEW t \in Tokens,
           NEW pc \in {"expire", "spend", "count", "password"}, ResetReads(h, q, t, pc),
           \A k \in Handlers \ {h} : handler'[k] = handler[k]
    PROVE  ResetsCounted'
<1> DEFINE next == [Rest EXCEPT !.pc = pc, !.q = q, !.t = t, !.seen = token[t].attempts]
<1>1. next.pc = pc /\ next.t = t /\ next.seen = token[t].attempts
  BY DEF Rest
<1>2. /\ handler'[h] = next /\ UNCHANGED token /\ faults' = faults
      /\ handler[h].pc = "idle" /\ token[t].state = "ACTIVE"
      /\ pc = "count" => token[t].attempts < MaxAttempts
  <2>1. handler' = [handler EXCEPT ![h] = next] /\ handler \in [Handlers -> HandlerType]
    BY DEF ResetReads, Starts, Become, Typed, TypeOK
  <2>2. token[t].state = "ACTIVE"
    BY DEF ResetReads, Read, Usable
  <2>3. pc = "count" => token[t].attempts < MaxAttempts
    BY TokenFacts DEF ResetReads
  <2>4. QED
    BY <2>1, <2>2, <2>3 DEF ResetReads, Starts, At
<1> HIDE DEF next
<1>3. CASE pc = "spend"
  BY <1>1, <1>2, <1>3, ResetsElsewhere
<1>4. ASSUME NEW u \in Tokens
      PROVE  /\ Cardinality(On("password", u)') \in Nat /\ Cardinality(On("password", u)) \in Nat
             /\ Cardinality(On("password", u)') =
                    Cardinality(On("password", u)) + (IF pc = "password" /\ u = t THEN 1 ELSE 0)
             /\ Cardinality(On("count", u)') \in Nat /\ Cardinality(On("count", u)) \in Nat
             /\ Cardinality(On("count", u)') =
                    Cardinality(On("count", u)) + (IF pc = "count" /\ u = t THEN 1 ELSE 0)
             /\ Cardinality(On("use", u)') = Cardinality(On("use", u))
             /\ Cardinality(On("use", u)) \in Nat /\ Cardinality(Handlers) \in Nat
  <2>1. ASSUME NEW at \in {"password", "count", "use"}
        PROVE  /\ Cardinality(On(at, u)') \in Nat /\ Cardinality(On(at, u)) \in Nat
               /\ Cardinality(On(at, u)') =
                      Cardinality(On(at, u)) + (IF pc = at /\ u = t THEN 1 ELSE 0)
    <3>1. /\ Cardinality(On(at, u)') = Cardinality(On(at, u))
                - (IF handler[h].pc = at /\ handler[h].t = u THEN 1 ELSE 0)
                + (IF next.pc = at /\ next.t = u THEN 1 ELSE 0)
          /\ Cardinality(On(at, u)') \in Nat
      BY <1>2, OnMoves
    <3>2. handler[h].pc # at /\ (next.pc = at /\ next.t = u <=> pc = at /\ u = t)
      BY <1>1, <1>2
    <3>3. QED
      BY <3>1, <3>2, OnFinite
  <2>2. QED
    BY <2>1, OnFinite
<1>5. /\ faults \in Nat /\ MaxAttempts \in Nat /\ MaxAttempts > 0
      /\ \A u \in Tokens : token[u].changed \in Nat /\ token[u].attempts \in Nat
      /\ \A k \in Handlers : handler[k].seen \in Nat
  BY TokenFacts
<1>6. ASSUME NEW u \in Tokens
      PROVE  /\ (token[u].changed + Cardinality(On("password", u))
                   <= Cardinality(Handlers) + faults)'
             /\ (token[u].state = "ACTIVE" => token[u].changed <= Cardinality(On("use", u)) + faults)'
  <2>1. /\ token[u].changed + Cardinality(On("password", u)) <= Cardinality(Handlers) + faults
        /\ token[u].state = "ACTIVE" => token[u].changed <= Cardinality(On("use", u)) + faults
    BY DEF ResetsCounted, ChangesCounted
  <2>2. CASE pc = "password" /\ u = t
    <3>1. /\ On("password", u)' \in SUBSET Handlers /\ On("use", u)' \in SUBSET Handlers
          /\ On("password", u)' \cap On("use", u)' = {}
      BY DEF On
    <3>2. Cardinality(On("password", u)') + Cardinality(On("use", u)') <= Cardinality(Handlers)
      BY <3>1, ApartBounded
    <3>3. QED
      BY <1>2, <1>4, <1>5, <2>1, <2>2, <3>2
  <2>3. QED
    BY <1>2, <1>4, <1>5, <2>1, <2>2
<1>7. ASSUME NEW u \in Tokens
      PROVE  /\ (token[u].attempts + Cardinality(On("count", u)) < MaxAttempts + Cardinality(Handlers))'
             /\ \A k \in On("expire", u)' :
                   /\ token'[u].state # "NONE"
                   /\ (handler[k].seen + Cardinality(On("count", u))
                          < MaxAttempts + Cardinality(Handlers))'
                   /\ (handler[k].seen >= MaxAttempts =>
                          token[u].state # "ACTIVE" \/ token[u].attempts >= MaxAttempts)'
  <2>1. /\ token[u].attempts + Cardinality(On("count", u)) < MaxAttempts + Cardinality(Handlers)
        /\ Cardinality(On("count", u)') <= Cardinality(Handlers)
    <3>1. On("count", u)' \in SUBSET Handlers
      BY DEF On
    <3>2. Cardinality(On("count", u)') <= Cardinality(Handlers)
      BY <3>1, FS_Subset, AccountsAssumption
    <3>3. QED
      BY <3>2 DEF ResetsCounted, AnswersCounted
  <2>2. (token[u].attempts + Cardinality(On("count", u)) < MaxAttempts + Cardinality(Handlers))'
    BY <1>2, <1>4, <1>5, <2>1
  <2>3. ASSUME NEW k \in On("expire", u)'
        PROVE  /\ token'[u].state # "NONE"
               /\ (handler[k].seen + Cardinality(On("count", u))
                      < MaxAttempts + Cardinality(Handlers))'
               /\ (handler[k].seen >= MaxAttempts =>
                      token[u].state # "ACTIVE" \/ token[u].attempts >= MaxAttempts)'
    <3>1. k \in Handlers /\ handler'[k].pc = "expire" /\ handler'[k].t = u
      BY DEF On
    <3>2. CASE k = h
      <4>1. u = t /\ pc = "expire" /\ handler'[k].seen = token[u].attempts
        BY <1>1, <1>2, <3>1, <3>2
      <4>2. QED
        BY <1>2, <1>4, <1>5, <2>1, <4>1
    <3>3. CASE k # h
      <4>1. k \in On("expire", u) /\ handler'[k] = handler[k]
        BY <3>1, <3>3 DEF On
      <4>2. /\ token[u].state # "NONE"
            /\ handler[k].seen + Cardinality(On("count", u)) < MaxAttempts + Cardinality(Handlers)
            /\ handler[k].seen >= MaxAttempts =>
                  token[u].state # "ACTIVE" \/ token[u].attempts >= MaxAttempts
        BY <4>1 DEF ResetsCounted, AnswersCounted
      <4>3. CASE pc = "count" /\ u = t
        <5>1. handler[k].seen < MaxAttempts
          BY <1>2, <1>5, <3>1, <4>2, <4>3
        <5>2. QED
          BY <1>2, <1>5, <2>1, <3>1, <4>1, <4>2, <5>1, <1>4
      <4>4. CASE ~(pc = "count" /\ u = t)
        BY <1>2, <1>4, <1>5, <4>1, <4>2, <4>4
      <4>5. QED
        BY <4>3, <4>4
    <3>4. QED
      BY <3>2, <3>3
  <2>4. QED
    BY <2>2, <2>3
<1>8. QED
  BY <1>6, <1>7 DEF ResetsCounted, ChangesCounted, AnswersCounted


\* A new token is ACTIVE, and nobody has found it yet.
LEMMA IssuesCounted ==
    ASSUME Typed, ResetsCounted, NEW h \in Handlers, Issues(h)
    PROVE  ResetsCounted'
<1>1. PICK t \in Tokens :
          /\ token[t].state = "NONE"
          /\ token' = [token EXCEPT ![t] = [NoToken EXCEPT !.q = handler[h].q, !.state = "ACTIVE"]]
  BY DEF Issues
<1>2. /\ handler'[h] = Rest /\ faults' = faults /\ handler[h].pc = "issue"
      /\ \A k \in Handlers \ {h} : handler'[k] = handler[k]
  BY DEF Issues, At, Continues, Become, Typed, TypeOK
<1>3. Rest.pc = "idle"
  BY DEF Rest
<1>4. ASSUME NEW u \in Tokens, NEW at \in {"password", "use", "count", "expire"}
      PROVE  On(at, u)' = On(at, u)
  BY <1>2, <1>3 DEF On
<1>5. ASSUME NEW u \in Tokens
      PROVE  /\ Cardinality(On("password", u)) \in Nat /\ Cardinality(On("use", u)) \in Nat
             /\ Cardinality(On("count", u)) \in Nat /\ Cardinality(Handlers) \in Nat
             /\ Cardinality(On("password", u)) <= Cardinality(Handlers)
             /\ Cardinality(On("count", u)) <= Cardinality(Handlers)
  BY OnFinite
<1>6. faults \in Nat /\ MaxAttempts \in Nat /\ MaxAttempts > 0 /\ token \in [Tokens -> TokenType]
  BY AccountsAssumption DEF Typed, TypeOK
<1>7. /\ token'[t].state = "ACTIVE" /\ token'[t].changed = 0 /\ token'[t].attempts = 0
      /\ \A u \in Tokens \ {t} : token'[u] = token[u]
  BY <1>1, <1>6 DEF NoToken
<1>8. ASSUME NEW u \in Tokens
      PROVE  /\ (token[u].changed + Cardinality(On("password", u))
                   <= Cardinality(Handlers) + faults)'
             /\ (token[u].state = "ACTIVE" => token[u].changed <= Cardinality(On("use", u)) + faults)'
             /\ (token[u].attempts + Cardinality(On("count", u)) < MaxAttempts + Cardinality(Handlers))'
  <2>1. CASE u = t
    BY <1>2, <1>4, <1>5, <1>6, <1>7, <2>1
  <2>2. CASE u # t
    <3>1. token'[u] = token[u]
      BY <1>7, <2>2
    <3>2. /\ token[u].changed + Cardinality(On("password", u)) <= Cardinality(Handlers) + faults
          /\ token[u].state = "ACTIVE" => token[u].changed <= Cardinality(On("use", u)) + faults
          /\ token[u].attempts + Cardinality(On("count", u)) < MaxAttempts + Cardinality(Handlers)
      BY DEF ResetsCounted, ChangesCounted, AnswersCounted
    <3>3. QED
      BY <1>2, <1>4, <3>1, <3>2
  <2>3. QED
    BY <2>1, <2>2
<1>9. ASSUME NEW u \in Tokens, NEW k \in On("expire", u)'
      PROVE  /\ token'[u].state # "NONE"
             /\ (handler[k].seen + Cardinality(On("count", u)) < MaxAttempts + Cardinality(Handlers))'
             /\ (handler[k].seen >= MaxAttempts =>
                    token[u].state # "ACTIVE" \/ token[u].attempts >= MaxAttempts)'
  <2>1. k \in On("expire", u) /\ handler'[k] = handler[k]
    BY <1>2, <1>3 DEF On
  <2>2. /\ token[u].state # "NONE"
        /\ handler[k].seen + Cardinality(On("count", u)) < MaxAttempts + Cardinality(Handlers)
        /\ handler[k].seen >= MaxAttempts =>
              token[u].state # "ACTIVE" \/ token[u].attempts >= MaxAttempts
    BY <2>1 DEF ResetsCounted, AnswersCounted
  <2>3. token'[u] = token[u]
    BY <1>1, <1>7, <2>2
  <2>4. QED
    BY <1>4, <2>1, <2>2, <2>3
<1>10. QED
  BY <1>8, <1>9 DEF ResetsCounted, ChangesCounted, AnswersCounted

\* A handler saves the token it has found: ended with the attempts it had then, with one
\* more attempt, or with one more change of the password.
LEMMA TriesCounted ==
    ASSUME Typed, Typed', ResetsCounted, NEW h \in Handlers,
           Expires(h) \/ Counts(h) \/ ChangesPassword(h)
    PROVE  ResetsCounted'
<1> DEFINE me == handler[h]
<1>1. PICK t \in Tokens :
        t = me.t /\ token \in [Tokens -> TokenType] /\ me.seen \in Nat /\ me.pc \in TokenPcs
  BY TokenFacts DEF Typed, TypeOK, Sound, Expires, Counts, ChangesPassword, At, TokenPcs
<1>2. PICK next : /\ Continues(h, next) /\ next \in {Rest, [me EXCEPT !.pc = "spend"],
                                                      [me EXCEPT !.pc = "use"]}
                  /\ me.pc = "password" <=> next = [me EXCEPT !.pc = "use"]
  <2>1. me \in HandlerType
    BY <1>1, TokenFacts
  <2>2. Rest.pc = "idle" /\ [me EXCEPT !.pc = "spend"].pc = "spend" /\ [me EXCEPT !.pc = "use"].pc = "use"
    BY <2>1 DEF Rest, HandlerType
  <2>3. QED
    BY <2>2 DEF Expires, Counts, ChangesPassword, At
<1>3. /\ handler'[h] = next /\ faults' = faults
      /\ \A k \in Handlers \ {h} : handler'[k] = handler[k]
      /\ next.pc \in {"idle", "spend", "use"}
      /\ next.pc = "use" <=> me.pc = "password"
      /\ next.pc = "use" => next.t = t
  <2>1. me \in HandlerType
    BY <1>1, TokenFacts
  <2>2. /\ Rest.pc = "idle" /\ [me EXCEPT !.pc = "spend"].pc = "spend"
        /\ [me EXCEPT !.pc = "use"].pc = "use" /\ [me EXCEPT !.pc = "use"].t = t
    BY <1>1, <2>1 DEF Rest, HandlerType
  <2>3. handler' = [handler EXCEPT ![h] = next] /\ faults' = faults
    BY <1>2 DEF Continues, Become
  <2>4. QED
    BY <1>2, <2>2, <2>3 DEF Typed, TypeOK
<1>4. /\ faults \in Nat /\ MaxAttempts \in Nat /\ MaxAttempts > 0
      /\ \A u \in Tokens : token[u].changed \in Nat /\ token[u].attempts \in Nat
      /\ \A k \in Handlers : handler[k].seen \in Nat
  BY <1>1, TokenFacts
<1>5. ASSUME NEW u \in Tokens \ {t}
      PROVE  /\ token'[u] = token[u] /\ On("password", u)' = On("password", u)
             /\ On("use", u)' = On("use", u) /\ On("count", u)' = On("count", u)
             /\ On("expire", u)' = On("expire", u)
  <2>1. token'[u] = token[u]
    BY <1>1 DEF Expires, Counts, ChangesPassword
  <2>2. QED
    BY <1>1, <1>3, <2>1 DEF On
<1>6. \A u \in Tokens :
        /\ token[u].changed + Cardinality(On("password", u)) <= Cardinality(Handlers) + faults
        /\ token[u].state = "ACTIVE" => token[u].changed <= Cardinality(On("use", u)) + faults
        /\ token[u].attempts + Cardinality(On("count", u)) < MaxAttempts + Cardinality(Handlers)
        /\ \A k \in On("expire", u) :
              /\ token[u].state # "NONE"
              /\ handler[k].seen + Cardinality(On("count", u)) < MaxAttempts + Cardinality(Handlers)
              /\ handler[k].seen >= MaxAttempts =>
                    token[u].state # "ACTIVE" \/ token[u].attempts >= MaxAttempts
  BY DEF ResetsCounted, ChangesCounted, AnswersCounted
<1>7. \A k \in Handlers : k \in On("expire", t)' => k \in On("expire", t) /\ handler'[k] = handler[k]
  BY <1>3 DEF On
<1> DEFINE Place(pc) == IF me.pc = pc THEN 1 ELSE 0
<1>8. /\ Cardinality(On("password", t)') = Cardinality(On("password", t)) - Place("password")
      /\ Cardinality(On("use", t)') = Cardinality(On("use", t)) + Place("password")
      /\ Cardinality(On("count", t)') = Cardinality(On("count", t)) - Place("count")
      /\ Cardinality(On("password", t)) \in Nat /\ Cardinality(On("use", t)) \in Nat
      /\ Cardinality(On("count", t)) \in Nat /\ Cardinality(Handlers) \in Nat
      /\ me.pc # "use"
  <2>1. me.pc \in {"expire", "count", "password"}
    BY DEF Expires, Counts, ChangesPassword, At
  <2>2. ASSUME NEW at \in {"password", "count", "use"}
        PROVE  Cardinality(On(at, t)') = Cardinality(On(at, t))
                 - (IF handler[h].pc = at /\ handler[h].t = t THEN 1 ELSE 0)
                 + (IF next.pc = at /\ next.t = t THEN 1 ELSE 0)
               /\ Cardinality(On(at, t)) \in Nat
    BY <1>3, OnMoves, OnFinite
  <2>3. QED
    BY <1>1, <1>3, <2>1, <2>2, OnFinite
<1>9. ASSUME NEW k \in On("expire", t)'
      PROVE  /\ k \in Handlers /\ handler'[k] = handler[k] /\ handler[k].seen \in Nat
             /\ token[t].state # "NONE"
             /\ handler[k].seen + Cardinality(On("count", t)) < MaxAttempts + Cardinality(Handlers)
             /\ handler[k].seen >= MaxAttempts =>
                   token[t].state # "ACTIVE" \/ token[t].attempts >= MaxAttempts
  <2>1. k \in Handlers
    BY DEF On
  <2>2. QED
    BY <1>1, <1>4, <1>6, <1>7, <2>1
<1>10. /\ (token[t].changed + Cardinality(On("password", t)) <= Cardinality(Handlers) + faults)'
       /\ (token[t].state = "ACTIVE" => token[t].changed <= Cardinality(On("use", t)) + faults)'
       /\ (token[t].attempts + Cardinality(On("count", t)) < MaxAttempts + Cardinality(Handlers))'
       /\ \A k \in On("expire", t)' :
             /\ token'[t].state # "NONE"
             /\ (handler[k].seen + Cardinality(On("count", t))
                    < MaxAttempts + Cardinality(Handlers))'
             /\ (handler[k].seen >= MaxAttempts =>
                    token[t].state # "ACTIVE" \/ token[t].attempts >= MaxAttempts)'
  <2>1. CASE Expires(h)
    <3>1. /\ token'[t].state = "EXPIRED" /\ token'[t].attempts = me.seen
          /\ token'[t].changed = token[t].changed /\ me.pc = "expire"
      BY <1>1, <2>1 DEF Expires, At, TokenType
    <3>2. me.seen + Cardinality(On("count", t)) < MaxAttempts + Cardinality(Handlers)
      BY <1>1, <1>6, <3>1 DEF On
    <3>3. QED
      BY <1>1, <1>3, <1>4, <1>6, <1>8, <1>9, <3>1, <3>2
  <2>2. CASE Counts(h)
    <3>1. /\ token'[t].state = token[t].state /\ token'[t].attempts = token[t].attempts + 1
          /\ token'[t].changed = token[t].changed /\ me.pc = "count"
      BY <1>1, <2>2 DEF Counts, At, TokenType
    <3>2. QED
      BY <1>1, <1>3, <1>4, <1>6, <1>8, <1>9, <3>1
  <2>3. CASE ChangesPassword(h)
    <3>1. /\ token'[t].state = token[t].state /\ token'[t].attempts = token[t].attempts
          /\ token'[t].changed = token[t].changed + 1 /\ me.pc = "password"
      BY <1>1, <2>3 DEF ChangesPassword, At, TokenType
    <3>2. QED
      BY <1>1, <1>3, <1>4, <1>6, <1>8, <1>9, <3>1
  <2>4. QED
    BY <2>1, <2>2, <2>3
<1>11. ASSUME NEW u \in Tokens
       PROVE  /\ (token[u].changed + Cardinality(On("password", u)) <= Cardinality(Handlers) + faults)'
              /\ (token[u].state = "ACTIVE" => token[u].changed <= Cardinality(On("use", u)) + faults)'
              /\ (token[u].attempts + Cardinality(On("count", u)) < MaxAttempts + Cardinality(Handlers))'
              /\ \A k \in On("expire", u)' :
                    /\ token'[u].state # "NONE"
                    /\ (handler[k].seen + Cardinality(On("count", u))
                           < MaxAttempts + Cardinality(Handlers))'
                    /\ (handler[k].seen >= MaxAttempts =>
                           token[u].state # "ACTIVE" \/ token[u].attempts >= MaxAttempts)'
  <2>1. CASE u = t
    BY <1>10, <2>1
  <2>2. CASE u # t
    <3>1. \A k \in On("expire", u)' : handler'[k] = handler[k]
      BY <1>3, <2>2 DEF On
    <3>2. QED
      BY <1>3, <1>5, <1>6, <2>2, <3>1
  <2>3. QED
    BY <2>1, <2>2
<1>12. QED
  BY <1>11 DEF ResetsCounted, ChangesCounted, AnswersCounted


\* A step that ends tokens and does not find one.
LEMMA EndsCounted ==
    ASSUME Typed, Typed', ResetsCounted, NEW h \in Handlers,
           Forgets(h) \/ Spends(h) \/ Clears(h) \/ Uses(h)
    PROVE  ResetsCounted'
<1> DEFINE me == handler[h]
<1>1. /\ token \in [Tokens -> TokenType] /\ me \in HandlerType
      /\ me.pc \in TokenPcs => me.t \in Tokens
  BY DEF Typed, TypeOK, Sound
<1>2. PICK next : Continues(h, next) /\ next.pc \in {"idle", "issue", "clear", "close"}
  <2>1. /\ Rest.pc = "idle" /\ [me EXCEPT !.pc = "issue"].pc = "issue"
        /\ [me EXCEPT !.pc = "clear"].pc = "clear"
        /\ [Rest EXCEPT !.pc = "close", !.q = me.q].pc = "close"
    BY <1>1 DEF Rest, HandlerType
  <2>2. QED
    BY <2>1 DEF Forgets, Spends, Clears, Uses
<1>3. /\ handler'[h] = next /\ faults' = faults /\ faults' >= faults
      /\ \A k \in Handlers \ {h} : handler'[k] = handler[k]
  BY <1>2 DEF Continues, Become, Typed, TypeOK
<1>4. CASE Uses(h)
  <2>1. me.pc = "use" /\ token' = [token EXCEPT ![me.t].state = "USED"] /\ me.t \in Tokens
    BY <1>1, <1>4 DEF Uses, At, TokenPcs
  <2>2. \A t \in Tokens :
          /\ token'[t].changed = token[t].changed /\ token'[t].attempts = token[t].attempts
          /\ token'[t].state = "ACTIVE" => token[t].state = "ACTIVE"
          /\ token[t].state # "NONE" => token'[t].state # "NONE"
    BY <1>1, <2>1 DEF TokenType
  <2>3. token'[me.t].state # "ACTIVE"
    BY <1>1, <2>1 DEF TokenType
  <2>4. QED
    BY <1>2, <1>3, <2>2, <2>3, ResetsKept
<1>5. CASE Forgets(h) \/ Spends(h) \/ Clears(h)
  <2>1. PICK S : Expire(S)
    BY <1>5 DEF Forgets, Spends, Clears
  <2>2. \A t \in Tokens :
          /\ token'[t].changed = token[t].changed /\ token'[t].attempts = token[t].attempts
          /\ token'[t].state = "ACTIVE" => token[t].state = "ACTIVE"
          /\ token[t].state # "NONE" => token'[t].state # "NONE"
    <3>1. \A t \in Tokens : token'[t] = IF t \in S THEN [token[t] EXCEPT !.state = "EXPIRED"] ELSE token[t]
      BY <2>1 DEF Expire
    <3>2. QED
      BY <1>1, <3>1 DEF TokenType
  <2>3. me.pc # "use"
    BY <1>5 DEF Forgets, Spends, Clears, At
  <2>4. QED
    BY <1>2, <1>3, <2>2, <2>3, ResetsKept
<1>6. QED
  BY <1>4, <1>5

LEMMA AuthenticationResets ==
    ASSUME Typed, ResetsCounted, NEW h \in Handlers, Authentication(h), UNCHANGED admission
    PROVE  ResetsCounted'
<1>1. Typed' /\ Others(h) /\ handler[h] \in HandlerType
  BY AuthenticationTyped DEF Typed, TypeOK
<1>2. /\ \A k \in Handlers \ {h} : handler'[k] = handler[k]
      /\ faults' = faults
  BY <1>1 DEF Others
<1>3. ASSUME NEW next, Starts(h, next) \/ Continues(h, next), UNCHANGED token,
             next.pc \notin {"password", "count", "expire"}, handler[h].pc # "use"
      PROVE  ResetsCounted'
  <2>1. handler'[h] = next
    BY <1>3 DEF Starts, Continues, Become, Typed, TypeOK
  <2>2. QED
    BY <1>1, <1>2, <1>3, <2>1, ResetsElsewhere
<1>4. \A pc, q : Rest.pc = "idle" /\ [Rest EXCEPT !.pc = pc, !.q = q].pc = pc
  BY DEF Rest
<1>5. ASSUME NEW q \in Requests,
             \/ LoginReads(h, q) \/ DeleteReads(h, q) \/ ForgetReads(h, q)
             \/ \E change \in ChangeType : ChangeReads(h, q, change)
      PROVE  ResetsCounted'
  <2>1. UNCHANGED token /\ handler[h].pc = "idle"
    BY <1>5 DEF LoginReads, DeleteReads, ForgetReads, ChangeReads, Starts, At
  <2>2. ASSUME NEW next, next.pc \in {"login", "delete", "forget", "change"}, Starts(h, next)
        PROVE  ResetsCounted'
    BY <1>3, <2>1, <2>2
  <2>3. CASE LoginReads(h, q)
    <3> DEFINE next == [Rest EXCEPT !.pc = "login", !.q = q, !.acc = account[q]]
    <3>1. next.pc = "login" /\ Starts(h, next)
      BY <2>3 DEF Rest, LoginReads
    <3> HIDE DEF next
    <3>2. QED
      BY <2>2, <3>1
  <2>4. CASE DeleteReads(h, q)
    <3> DEFINE next == [Rest EXCEPT !.pc = "delete", !.q = q]
    <3>1. next.pc = "delete" /\ Starts(h, next)
      BY <2>4 DEF Rest, DeleteReads
    <3> HIDE DEF next
    <3>2. QED
      BY <2>2, <3>1
  <2>5. CASE ForgetReads(h, q)
    <3> DEFINE next == [Rest EXCEPT !.pc = "forget", !.q = q]
    <3>1. next.pc = "forget" /\ Starts(h, next)
      BY <2>5 DEF Rest, ForgetReads
    <3> HIDE DEF next
    <3>2. QED
      BY <2>2, <3>1
  <2>6. ASSUME NEW change \in ChangeType, ChangeReads(h, q, change)
        PROVE  ResetsCounted'
    <3> DEFINE next == [Rest EXCEPT !.pc = "change", !.q = q, !.acc = change]
    <3>1. next.pc = "change" /\ Starts(h, next)
      BY <2>6 DEF Rest, ChangeReads
    <3> HIDE DEF next
    <3>2. QED
      BY <2>2, <3>1
  <2>7. QED
    BY <1>5, <2>3, <2>4, <2>5, <2>6
<1>6. ASSUME NEW q \in Requests, NEW t \in Tokens,
             NEW pc \in {"expire", "spend", "count", "password"}, ResetReads(h, q, t, pc)
      PROVE  ResetsCounted'
  BY <1>1, <1>2, <1>6, ReadsCounted
<1>7. CASE (\E t \in Tokens : ExpiryReads(h, t)) \/ (\E ends \in SUBSET Sessions : EndReads(h, ends))
  <2>1. /\ UNCHANGED token /\ handler[h].pc = "idle"
        /\ \E next : Starts(h, next) /\ next.pc \in {"spend", "end"}
    <3>1. \A x : /\ [Rest EXCEPT !.pc = "spend", !.t = x].pc = "spend"
                 /\ [Rest EXCEPT !.pc = "end", !.ends = x].pc = "end"
      BY DEF Rest
    <3>2. QED
      BY <1>7, <3>1 DEF ExpiryReads, EndReads, Starts, At
  <2>2. QED
    BY <1>3, <2>1
<1>8. CASE (\E s \in Sessions : LoginCreates(h, s) \/ Ends(h, s)) \/ ClosesSessions(h)
             \/ Changes(h) \/ Deletes(h)
  <2>1. /\ UNCHANGED token /\ handler[h].pc # "use"
        /\ \E next : Continues(h, next) /\ next.pc \in {"idle", "end", "close"}
    <3>1. \A x : /\ [Rest EXCEPT !.pc = "close", !.q = x].pc = "close" /\ Rest.pc = "idle"
                 /\ handler[h].pc = "end" => [handler[h] EXCEPT !.ends = x].pc = "end"
      BY <1>1 DEF Rest, HandlerType
    <3>2. QED
      BY <1>8, <3>1 DEF LoginCreates, Ends, ClosesSessions, Changes, Deletes, At
  <2>2. QED
    BY <1>3, <2>1
<1>9. CASE Issues(h)
  BY <1>9, IssuesCounted
<1>10. CASE Expires(h) \/ Counts(h) \/ ChangesPassword(h)
  BY <1>1, <1>10, TriesCounted
<1>11. CASE Forgets(h) \/ Spends(h) \/ Clears(h) \/ Uses(h)
  BY <1>1, <1>11, EndsCounted
<1>12. QED
  BY <1>5, <1>6, <1>7, <1>8, <1>9, <1>10, <1>11 DEF Authentication

LEMMA StepResets == Typed /\ ResetsCounted /\ [Next]_vars => ResetsCounted'
<1> SUFFICES ASSUME Typed, ResetsCounted, [Next]_vars PROVE ResetsCounted'
  OBVIOUS
<1>1. Typed'
  BY StepTyped
<1>2. ASSUME NEW h \in Handlers, Admission(h), UNCHANGED authentication
      PROVE  ResetsCounted'
  <2>1. handler'[h].pc \in AdmissionPcs /\ Others(h)
    BY <1>2, AdmissionTyped
  <2>2. handler[h].pc # "use" /\ UNCHANGED token
    BY <1>2 DEF authentication, Admission, ChecksEmail, Inserts, ProposesReads, EditFinds, Reviews,
                Advises, AdviceFails, Proposes, EditSaves, FindsPerson, Admits, FindsAccount,
                RewritesAccount, GrantsAccount, Decides, Starts, At
  <2>3. QED
    BY <1>1, <2>1, <2>2, ResetsElsewhere DEF Others, AdmissionPcs, Granting
<1>3. ASSUME NEW h \in Handlers, Authentication(h), UNCHANGED admission
      PROVE  ResetsCounted'
  BY <1>3, AuthenticationResets
<1>4. ASSUME NEW h \in Handlers, Stops(h), UNCHANGED <<admission, authentication>>
      PROVE  ResetsCounted'
  <2>1. /\ handler'[h] = Rest /\ \A k \in Handlers \ {h} : handler'[k] = handler[k]
        /\ faults' = faults + 1 /\ UNCHANGED token
    BY <1>4 DEF Stops, Become, authentication, Typed, TypeOK
  <2>2. Rest.pc = "idle"
    BY DEF Rest
  <2>3. QED
    BY <1>1, <2>1, <2>2, ResetsElsewhere
<1>5. CASE UNCHANGED vars
  BY <1>5 DEF vars, shared, authentication, ResetsCounted, ChangesCounted, AnswersCounted, On
<1>6. QED
  BY <1>2, <1>3, <1>4, <1>5 DEF Next

LEMMA InitResets == Init => ResetsCounted
<1> SUFFICES ASSUME Init PROVE ResetsCounted
  OBVIOUS
<1>1. \A t, pc : pc # "idle" => On(pc, t) = {}
  BY DEF Init, SharedInit, On, Rest
<1>2. /\ Cardinality({}) = 0 /\ Cardinality(Handlers) \in Nat
      /\ MaxAttempts \in Nat /\ MaxAttempts > 0 /\ faults = 0
  BY FS_EmptySet, FS_CardinalityType, AccountsAssumption DEF Init, SharedInit
<1>3. \A t \in Tokens : token[t].state = "NONE" /\ token[t].attempts = 0 /\ token[t].changed = 0
  BY DEF Init, AuthenticationInit, NoToken
<1>4. QED
  <2>1. ASSUME NEW t \in Tokens
        PROVE  /\ On("password", t) = {} /\ On("use", t) = {} /\ On("count", t) = {}
               /\ On("expire", t) = {}
    BY <1>1
  <2>2. ASSUME NEW t \in Tokens
        PROVE  /\ token[t].changed + Cardinality(On("password", t)) <= Cardinality(Handlers) + faults
               /\ token[t].changed <= Cardinality(On("use", t)) + faults
               /\ token[t].attempts + Cardinality(On("count", t)) < MaxAttempts + Cardinality(Handlers)
    <3>1. /\ Cardinality(On("password", t)) = 0 /\ Cardinality(On("use", t)) = 0
          /\ Cardinality(On("count", t)) = 0
      BY <1>2, <2>1
    <3>2. QED
      BY <1>2, <1>3, <3>1
  <2>3. QED
    BY <2>1, <2>2 DEF ResetsCounted, ChangesCounted, AnswersCounted

\* However resets of a password overlap and stop, a code changes it no more often than
\* ResetsBounded says, and takes no more wrong answers.
THEOREM ResetsAreBounded == Spec => []ResetsBounded
<1>1. Init => Typed /\ ResetsCounted
  BY InitTyped, InitResets
<1>2. (Typed /\ ResetsCounted) /\ [Next]_vars => (Typed /\ ResetsCounted)'
  BY StepTyped, StepResets
<1>3. Typed /\ ResetsCounted => ResetsBounded
  <2> SUFFICES ASSUME Typed, ResetsCounted, NEW t \in Tokens
               PROVE  /\ token[t].changed <= Cardinality(Handlers) + faults
                      /\ token[t].attempts < MaxAttempts + Cardinality(Handlers)
    BY DEF ResetsBounded
  <2>1. /\ token[t].changed + Cardinality(On("password", t)) <= Cardinality(Handlers) + faults
        /\ token[t].attempts + Cardinality(On("count", t)) < MaxAttempts + Cardinality(Handlers)
    BY DEF ResetsCounted, ChangesCounted, AnswersCounted
  <2>2. /\ Cardinality(On("password", t)) \in Nat /\ Cardinality(On("count", t)) \in Nat
        /\ Cardinality(Handlers) \in Nat
    BY OnFinite
  <2>3. QED
    BY <2>1, <2>2, TokenFacts
<1>4. QED
  BY <1>1, <1>2, <1>3, PTL DEF Spec


-----------------------------------------------------------------------------
(* One handler after the other.                                            *)

New(q) == account[q].state = "NONE"

\* What the only handler has read is still so: it advises on a request nobody has decided,
\* grants the first account, saves the row that is there, and logs into the account as it is.
Fits(me) ==
    /\ me.pc \in {"advise", "propose"} => request[me.q].status = "PENDING_AI"
    /\ me.pc \in Granting =>
          /\ me.pc # "rewrite" /\ New(me.q) /\ me.row.status = "APPROVED"
          /\ me.row.by # "admin" => request[me.q].status = "APPROVED"
    /\ me.pc = "decide" => me.row.status = "APPROVED" \/ New(me.q)
    /\ me.pc = "edit" => me.row = request[me.q]
    /\ me.pc = "login" => me.acc = account[me.q] /\ me.acc.state = "ACTIVE" /\ me.q \in Requests
    /\ me.pc = "change" => me.acc \in ChangeType

\* Who has or had an account was approved, or is about to be,
Approved(me, q) ==
    \/ request[q].status = "APPROVED"
    \/ me.pc = "decide" /\ me.q = q /\ me.row.status = "APPROVED"

\* and a session is that of the account as it is, or about to be closed.
Matches(me, s) ==
    \/ /\ session[s].q \in Requests
       /\ account[session[s].q] = [role |-> session[s].role, state |-> "ACTIVE"]
    \/ me.pc = "close" /\ me.q = session[s].q

Orderly(me) ==
    /\ Fits(me)
    /\ \A q \in Requests : New(q) \/ Approved(me, q)
    /\ \A s \in Sessions : session[s].state = "ACTIVE" => Matches(me, s)

Alone(h) == \A k \in Handlers \ {h} : At(k, "idle")

Serial == ~disturbed => \E h \in Handlers : Alone(h) /\ Orderly(handler[h])

\* Whoever takes a step that does not disturb is the only handler.
LEMMA TurnTaken ==
    ASSUME Serial, NEW h \in Handlers, ~disturbed,
           handler[h].pc = "idle" => ~Busy
    PROVE  Alone(h) /\ Orderly(handler[h])
<1>1. PICK g \in Handlers : Alone(g) /\ Orderly(handler[g])
  BY DEF Serial
<1>2. CASE g = h
  BY <1>1, <1>2
<1>3. CASE g # h
  <2>1. handler[h].pc = "idle" /\ handler[g].pc = "idle" /\ \A k \in Handlers : At(k, "idle")
    BY <1>1, <1>3 DEF Alone, At, Busy
  <2>2. ASSUME Orderly(handler[g])
        PROVE  Orderly(handler[h])
    BY <2>1, <2>2 DEF Orderly, Fits, Approved, Matches, Granting
  <2>3. QED
    BY <1>1, <2>1, <2>2 DEF Alone
<1>4. QED
  BY <1>2, <1>3

\* A step that writes neither a request nor an account nor a session, to where what is
\* read fits.
LEMMA OrderlyKept ==
    ASSUME NEW h \in Handlers, NEW next, handler'[h] = next,
           Orderly(handler[h]), handler[h].pc \notin {"decide", "close"},
           UNCHANGED <<account, request, session>>, Fits(next)
    PROVE  Orderly(handler[h])'
<1>1. Fits(handler[h])'
  BY DEF Fits, New
<1>2. \A q \in Requests : (New(q) \/ Approved(handler[h], q))'
  BY DEF Orderly, New, Approved
<1>3. \A s \in Sessions : (session[s].state = "ACTIVE" => Matches(handler[h], s))'
  BY DEF Orderly, Matches
<1>4. QED
  BY <1>1, <1>2, <1>3 DEF Orderly

\* Where nothing that was read matters.
Plain == {"idle", "insert", "end", "close", "delete", "forget", "issue"} \cup TokenPcs

LEMMA PlainFits == ASSUME NEW me, me.pc \in Plain PROVE Fits(me)
BY DEF Plain, Fits, TokenPcs, Granting


LEMMA AdmissionOrderly ==
    ASSUME Typed, NEW h \in Handlers, Orderly(handler[h]), Admission(h), UNCHANGED authentication
    PROVE  Orderly(handler[h])'
<1> DEFINE me == handler[h]
<1>1. /\ me \in HandlerType /\ Sound(me) /\ session' = session
      /\ request \in [Requests -> RowType] /\ account \in [Requests -> AccountType]
      /\ handler \in [Handlers -> HandlerType]
  BY DEF Typed, TypeOK, authentication
<1>2. /\ Fits(me)
      /\ \A q \in Requests : New(q) \/ Approved(me, q)
      /\ \A s \in Sessions : session[s].state = "ACTIVE" => Matches(me, s)
  BY DEF Orderly
<1>3. ASSUME NEW next, Starts(h, next) \/ Continues(h, next)
      PROVE  handler'[h] = next
  BY <1>1, <1>3 DEF Starts, Continues, Become
<1>4. ASSUME NEW next, Starts(h, next) \/ Continues(h, next), Fits(next),
             me.pc \notin {"decide", "close"}, UNCHANGED <<account, request>>
      PROVE  Orderly(handler[h])'
  BY <1>1, <1>3, <1>4, OrderlyKept
<1>5. Rest.pc = "idle" /\ Fits(Rest)
  BY PlainFits DEF Rest, Plain
\* A request that was not approved has no account: its row may become anything, and so
\* may that of an approved one be written as it was.
<1>6. ASSUME NEW next, Continues(h, next), Fits(next)', UNCHANGED account,
             NEW q \in Requests, NEW row, request' = [request EXCEPT ![q] = row],
             New(q) \/ row.status = "APPROVED",
             me.pc # "close", me.pc = "decide" => me.q = q
      PROVE  Orderly(handler[h])'
  <2>1. handler'[h] = next
    BY <1>3, <1>6
  <2>2. Fits(handler[h])'
    BY <1>6, <2>1 DEF Fits, New
  <2>3. ASSUME NEW p \in Requests
        PROVE  (New(p) \/ Approved(handler[h], p))'
    <3>1. CASE p = q
      BY <1>1, <1>6, <3>1 DEF New, Approved
    <3>2. CASE p # q
      BY <1>1, <1>2, <1>6, <3>2 DEF New, Approved
    <3>3. QED
      BY <3>1, <3>2
  <2>4. \A s \in Sessions : (session[s].state = "ACTIVE" => Matches(handler[h], s))'
    BY <1>1, <1>2, <1>6 DEF Matches
  <2>5. QED
    BY <2>2, <2>3, <2>4 DEF Orderly
<1>7. ASSUME NEW k \in Camps, ChecksEmail(h, k)
      PROVE  Orderly(handler[h])'
  <2> DEFINE next == [Rest EXCEPT !.pc = "insert", !.row = [NoRow EXCEPT !.camp = k]]
  <2>1. next.pc = "insert" /\ Starts(h, next) /\ me.pc = "idle" /\ UNCHANGED <<account, request>>
    BY <1>7 DEF Rest, ChecksEmail, Starts, At
  <2> HIDE DEF next
  <2>2. QED
    BY <1>4, <2>1, PlainFits DEF Plain
<1>8. ASSUME NEW q \in Requests, Inserts(h, q)
      PROVE  Orderly(handler[h])'
  <2> DEFINE next == [Rest EXCEPT !.pc = "advise", !.q = q]
             row == [me.row EXCEPT !.status = "PENDING_AI"]
  <2>1. /\ next.pc = "advise" /\ next.q = q /\ Continues(h, next) /\ UNCHANGED account
        /\ request' = [request EXCEPT ![q] = row] /\ me.pc = "insert"
    BY <1>8 DEF Rest, Inserts, At
  <2>2. row.status = "PENDING_AI"
    BY <1>1 DEF HandlerType, RowType
  <2>3. New(q)
    BY <1>2, <1>8, <2>1 DEF Approved, Inserts, Made
  <2> HIDE DEF next, row
  <2>4. Fits(next)'
    BY <1>1, <2>1, <2>2 DEF Fits, Granting
  <2>5. QED
    BY <1>6, <2>1, <2>3, <2>4
<1>22. ASSUME NEW status \in {"PENDING_ADMIN", "APPROVED", "REJECTED"}, Advises(h, status)
       PROVE  Orderly(handler[h])'
  <2> DEFINE row == [request[me.q] EXCEPT !.status = status, !.by = "ai"]
  <2>1. /\ me.pc = "advise" /\ me.q \in Requests /\ UNCHANGED account
        /\ request' = [request EXCEPT ![me.q] = row]
    BY <1>1, <1>22 DEF Advises, At, Sound
  <2>2. New(me.q)
    BY <1>2, <2>1 DEF Fits, Approved
  <2>3. row.status = status /\ row.by = "ai"
    BY <1>1, <2>1 DEF RowType
  <2>4. CASE Continues(h, Rest)
    <3>1. Fits(Rest)'
      BY <1>5 DEF Fits, Granting
    <3>2. QED
      BY <1>6, <2>1, <2>2, <2>4, <3>1
  <2>5. ASSUME NEW r \in Roles, status = "APPROVED",
               Continues(h, [Rest EXCEPT !.pc = "person", !.q = me.q, !.row = row,
                                         !.acc = [role |-> r, state |-> "ACTIVE"]])
        PROVE  Orderly(handler[h])'
    <3>1. PICK next : next = [Rest EXCEPT !.pc = "person", !.q = me.q, !.row = row,
                                          !.acc = [role |-> r, state |-> "ACTIVE"]]
      OBVIOUS
    <3>2. next.pc = "person" /\ next.q = me.q /\ next.row = row
      BY <3>1 DEF Rest
    <3>3. request'[me.q].status = "APPROVED" /\ account'[me.q].state = "NONE"
      BY <1>1, <2>1, <2>2, <2>3, <2>5 DEF New
    <3>4. Fits(next)'
      BY <2>3, <2>5, <3>2, <3>3 DEF Fits, Granting, New
    <3>5. Continues(h, next)
      BY <2>5, <3>1
    <3> HIDE DEF row
    <3>6. QED
      BY <1>6, <2>1, <2>2, <3>4, <3>5
  <2>6. QED
    BY <1>22, <2>4, <2>5 DEF Advises
<1>9. CASE AdviceFails(h)
  BY <1>4, <1>5, <1>9 DEF AdviceFails, At
<1>10. ASSUME NEW q \in Requests, ProposesReads(h, q)
       PROVE  Orderly(handler[h])'
  <2> DEFINE next == [Rest EXCEPT !.pc = "propose", !.q = q]
  <2>1. /\ next.pc = "propose" /\ next.q = q /\ Starts(h, next) /\ me.pc = "idle"
        /\ UNCHANGED <<account, request>> /\ request[q].status = "PENDING_AI"
    BY <1>10 DEF Rest, ProposesReads, Starts, At
  <2> HIDE DEF next
  <2>2. Fits(next)
    BY <2>1 DEF Fits, Granting
  <2>3. QED
    BY <1>4, <2>1, <2>2
<1>11. CASE Proposes(h)
  <2> DEFINE row == [request[me.q] EXCEPT !.status = "PENDING_ADMIN", !.by = "ai"]
  <2>1. me.pc = "propose" /\ me.q \in Requests /\ Continues(h, Rest) /\ UNCHANGED account
    BY <1>1, <1>11 DEF Proposes, At, Sound
  <2>2. request' = [request EXCEPT ![me.q] = row]
    BY <1>1, <1>11, <2>1 DEF Proposes, RowType
  <2>3. New(me.q)
    BY <1>2, <2>1 DEF Fits, Approved
  <2>4. Fits(Rest)'
    BY <1>5 DEF Fits, Granting
  <2> HIDE DEF row
  <2>5. QED
    BY <1>6, <2>1, <2>2, <2>3, <2>4
<1>12. ASSUME NEW q \in Requests, EditFinds(h, q)
       PROVE  Orderly(handler[h])'
  <2> DEFINE next == [Rest EXCEPT !.pc = "edit", !.q = q, !.row = request[q]]
  <2>1. /\ next.pc = "edit" /\ next.q = q /\ next.row = request[q] /\ Starts(h, next)
        /\ me.pc = "idle" /\ UNCHANGED <<account, request>>
    BY <1>12 DEF Rest, EditFinds, Starts, At
  <2> HIDE DEF next
  <2>2. Fits(next)
    BY <2>1 DEF Fits, Granting
  <2>3. QED
    BY <1>4, <2>1, <2>2
<1>13. CASE EditSaves(h)
  <2>1. me.pc = "edit" /\ me.row = request[me.q] /\ me.q \in Requests
    BY <1>1, <1>2, <1>13 DEF EditSaves, At, Fits, Sound
  <2>2. UNCHANGED <<account, request>> /\ Continues(h, Rest)
    BY <1>1, <1>13, <2>1 DEF EditSaves
  <2>3. QED
    BY <1>4, <1>5, <2>1, <2>2
<1>14. CASE Decides(h)
  <2>1. me.pc = "decide" /\ me.q \in Requests /\ (me.row.status = "APPROVED" \/ New(me.q))
    BY <1>1, <1>2, <1>14 DEF Decides, At, Fits, Sound
  <2>2. Fits(Rest)'
    BY <1>5 DEF Fits, Granting
  <2>3. QED
    BY <1>6, <1>14, <2>1, <2>2 DEF Decides

<1>15. ASSUME NEW q \in Requests, NEW status \in {"APPROVED", "REJECTED"}, NEW r \in Roles,
              Reviews(h, q, status, r)
       PROVE  Orderly(handler[h])'
  <2> DEFINE row == [request[q] EXCEPT !.status = status, !.by = "admin"]
             acc == IF status = "APPROVED" THEN [role |-> r, state |-> "ACTIVE"] ELSE NoAccount
             next == [Rest EXCEPT !.pc = AfterReading(status), !.q = q, !.row = row, !.acc = acc]
  <2>1. /\ next.pc = AfterReading(status) /\ next.q = q /\ next.row = row
        /\ Starts(h, next) /\ me.pc = "idle"
        /\ UNCHANGED <<account, request>> /\ request[q].status = "PENDING_ADMIN"
    BY <1>15 DEF Rest, Reviews, Starts, At
  <2>2. row.status = status /\ row.by = "admin"
    BY <1>1 DEF RowType
  <2>3. New(q)
    BY <1>2, <2>1 DEF Approved
  <2> HIDE DEF next, row, acc
  <2>4. Fits(next)
    BY <2>1, <2>2, <2>3 DEF Fits, Granting, AfterReading
  <2>5. QED
    BY <1>4, <2>1, <2>4
\* Who is granting access goes on, or is done.
<1>16. ASSUME NEW next, Continues(h, next), me.pc \in Granting, UNCHANGED <<account, request>>,
              \/ next = Rest
              \/ \E pc \in {"account", "admit", "grant"} : next = [me EXCEPT !.pc = pc]
       PROVE  Orderly(handler[h])'
  <2>1. ASSUME NEW pc \in {"account", "admit", "grant"}, next = [me EXCEPT !.pc = pc]
        PROVE  Fits(next)
    <3>1. next.pc = pc /\ next.q = me.q /\ next.row = me.row
      BY <1>1, <2>1 DEF HandlerType
    <3>2. QED
      BY <1>2, <1>16, <2>1, <3>1 DEF Fits, Granting
  <2>2. Fits(next)
    BY <1>5, <1>16, <2>1
  <2>3. QED
    BY <1>4, <1>16, <2>2 DEF Granting
<1>17. CASE FindsPerson(h) \/ Admits(h)
  <2>1. me.pc \in Granting /\ UNCHANGED <<account, request>>
    BY <1>17 DEF FindsPerson, Admits, At, Granting
  <2>2. PICK next : Continues(h, next) /\
           \/ next = Rest
           \/ \E pc \in {"account", "admit", "grant"} : next = [me EXCEPT !.pc = pc]
    <3>1. CASE FindsPerson(h)
      <4>1. PICK pc \in {"account", "admit"} : Continues(h, [me EXCEPT !.pc = pc])
        BY <3>1 DEF FindsPerson
      <4>2. QED
        BY <4>1
    <3>2. CASE Admits(h)
      BY <3>2 DEF Admits
    <3>3. QED
      BY <1>17, <3>1, <3>2
  <2>3. QED
    BY <1>16, <2>1, <2>2
<1>18. CASE FindsAccount(h)
  <2>1. me.pc = "account" /\ me.pc \in Granting /\ New(me.q) /\ UNCHANGED <<account, request>>
    BY <1>2, <1>18 DEF FindsAccount, At, Granting, Fits
  <2>2. ~Exists(me.q)
    BY <2>1 DEF Exists, New
  <2>3. Continues(h, [me EXCEPT !.pc = "grant"])
    BY <1>18, <2>2 DEF FindsAccount
  <2>4. QED
    BY <1>16, <2>1, <2>3
<1>19. ~RewritesAccount(h)
  BY <1>2 DEF RewritesAccount, At, Fits, Granting
\* The first account of the request: nobody was logged into it.
<1>20. CASE GrantsAccount(h)
  <2>1. /\ me.pc = "grant" /\ me.pc \in Granting /\ New(me.q) /\ me.q \in Requests
        /\ me.row.status = "APPROVED" /\ UNCHANGED request
        /\ me.row.by # "admin" => request[me.q].status = "APPROVED"
    BY <1>1, <1>2, <1>20 DEF GrantsAccount, At, Granting, Fits, Sound
  <2>2. CASE Continues(h, Rest) /\ UNCHANGED account
    BY <1>16, <2>1, <2>2
  <2>3. CASE /\ account' = [account EXCEPT ![me.q] = me.acc]
             /\ Continues(h, Granted(me))
    <3>1. handler'[h] = Granted(me)
      BY <1>3, <2>3
    <3>2. /\ me.row.by = "admin" => /\ handler'[h].pc = "decide" /\ handler'[h].q = me.q
                                    /\ handler'[h].row = me.row
          /\ me.row.by # "admin" => handler'[h].pc = "idle"
      BY <1>1, <1>5, <3>1 DEF Granted, HandlerType
    <3>3. Fits(handler[h])'
      BY <2>1, <3>2 DEF Fits, Granting
    <3>4. ASSUME NEW p \in Requests
          PROVE  (New(p) \/ Approved(handler[h], p))'
      <4>1. CASE p = me.q
        BY <2>1, <3>2, <4>1 DEF Approved
      <4>2. CASE p # me.q
        BY <1>1, <1>2, <2>1, <2>3, <4>2 DEF New, Approved
      <4>3. QED
        BY <4>1, <4>2
    <3>5. \A s \in Sessions : (session[s].state = "ACTIVE" => Matches(handler[h], s))'
      <4>1. ASSUME NEW s \in Sessions, session[s].state = "ACTIVE"
            PROVE  /\ session[s].q \in Requests /\ session[s].q # me.q
                   /\ account[session[s].q] = [role |-> session[s].role, state |-> "ACTIVE"]
        <5>1. Matches(me, s) /\ me.pc # "close"
          BY <1>2, <2>1, <4>1
        <5>2. QED
          BY <2>1, <5>1 DEF Matches, New
      <4>2. QED
        BY <1>1, <2>1, <2>3, <4>1 DEF Matches
    <3>6. QED
      BY <3>3, <3>4, <3>5 DEF Orderly
  <2>4. QED
    BY <1>20, <2>2, <2>3 DEF GrantsAccount
<1>21. QED
  BY <1>7, <1>8, <1>9, <1>10, <1>11, <1>12, <1>13, <1>14, <1>15, <1>17, <1>18, <1>19, <1>20,
     <1>22 DEF Admission


\* A handler that only reads, or writes tokens.
LEMMA TokensOrderly ==
    ASSUME Typed, NEW h \in Handlers, Orderly(handler[h]), UNCHANGED admission,
           \/ \E q \in Requests :
                 \/ DeleteReads(h, q) \/ ForgetReads(h, q)
                 \/ \E t \in Tokens, pc \in {"expire", "spend", "count", "password"} :
                       ResetReads(h, q, t, pc)
           \/ \E t \in Tokens : ExpiryReads(h, t)
           \/ \E ends \in SUBSET Sessions : EndReads(h, ends)
           \/ Forgets(h) \/ Issues(h) \/ Expires(h) \/ Counts(h) \/ Spends(h)
           \/ ChangesPassword(h) \/ Uses(h) \/ Clears(h)
    PROVE  Orderly(handler[h])'
<1> DEFINE me == handler[h]
<1>1. me \in HandlerType /\ request' = request /\ handler \in [Handlers -> HandlerType]
  BY DEF Typed, TypeOK, admission
<1>2. ASSUME NEW next, Starts(h, next) \/ Continues(h, next), next.pc \in Plain,
             me.pc \notin {"decide", "close"}, UNCHANGED <<account, session>>
      PROVE  Orderly(handler[h])'
  <2>1. handler'[h] = next
    BY <1>1, <1>2 DEF Starts, Continues, Become
  <2>2. QED
    BY <1>1, <1>2, <2>1, PlainFits, OrderlyKept
<1>3. Rest.pc = "idle"
  BY DEF Rest
<1>4. ASSUME NEW q \in Requests, DeleteReads(h, q) \/ ForgetReads(h, q)
      PROVE  Orderly(handler[h])'
  <2>1. me.pc = "idle" /\ UNCHANGED <<account, session>>
    BY <1>4 DEF DeleteReads, ForgetReads, Starts, At
  <2>2. PICK pc \in {"delete", "forget"} : Starts(h, [Rest EXCEPT !.pc = pc, !.q = q])
    BY <1>4 DEF DeleteReads, ForgetReads
  <2> DEFINE next == [Rest EXCEPT !.pc = pc, !.q = q]
  <2>3. next.pc = pc /\ Starts(h, next)
    BY <2>2 DEF Rest
  <2> HIDE DEF next
  <2>4. QED
    BY <1>2, <2>1, <2>2, <2>3 DEF Plain
<1>6. ASSUME NEW q \in Requests, NEW t \in Tokens,
             NEW pc \in {"expire", "spend", "count", "password"}, ResetReads(h, q, t, pc)
      PROVE  Orderly(handler[h])'
  <2> DEFINE next == [Rest EXCEPT !.pc = pc, !.q = q, !.t = t, !.seen = token[t].attempts]
  <2>1. /\ next.pc = pc /\ Starts(h, next) /\ me.pc = "idle" /\ UNCHANGED <<account, session>>
    BY <1>6 DEF Rest, ResetReads, Starts, At
  <2> HIDE DEF next
  <2>2. QED
    BY <1>2, <2>1 DEF Plain, TokenPcs
<1>7. ASSUME NEW t \in Tokens, ExpiryReads(h, t)
      PROVE  Orderly(handler[h])'
  <2> DEFINE next == [Rest EXCEPT !.pc = "spend", !.t = t]
  <2>1. next.pc = "spend" /\ Starts(h, next) /\ me.pc = "idle" /\ UNCHANGED <<account, session>>
    BY <1>7 DEF Rest, ExpiryReads, Starts, At
  <2> HIDE DEF next
  <2>2. QED
    BY <1>2, <2>1 DEF Plain, TokenPcs
<1>8. ASSUME NEW ends \in SUBSET Sessions, EndReads(h, ends)
      PROVE  Orderly(handler[h])'
  <2> DEFINE next == [Rest EXCEPT !.pc = "end", !.ends = ends]
  <2>1. next.pc = "end" /\ Starts(h, next) /\ me.pc = "idle" /\ UNCHANGED <<account, session>>
    BY <1>8 DEF Rest, EndReads, Starts, At
  <2> HIDE DEF next
  <2>2. QED
    BY <1>2, <2>1 DEF Plain, TokenPcs
<1>9. CASE Issues(h) \/ Expires(h) \/ Spends(h)
  <2>1. /\ Continues(h, Rest) /\ me.pc \in {"issue", "expire", "spend"}
        /\ UNCHANGED <<account, session>>
    BY <1>9 DEF Issues, Expires, Spends, At
  <2>2. QED
    BY <1>2, <1>3, <2>1 DEF Plain
<1>10. CASE Forgets(h) \/ Counts(h) \/ ChangesPassword(h) \/ Uses(h)
  <2>1. /\ me.pc \in {"forget", "count", "password", "use"} /\ UNCHANGED <<account, session>>
        /\ \/ Continues(h, Rest)
           \/ \E pc \in {"issue", "spend", "use", "clear"} : Continues(h, [me EXCEPT !.pc = pc])
    BY <1>10 DEF Forgets, Counts, ChangesPassword, Uses, At
  <2>2. CASE Continues(h, Rest)
    BY <1>2, <1>3, <2>1, <2>2 DEF Plain
  <2>3. ASSUME NEW pc \in {"issue", "spend", "use", "clear"}, Continues(h, [me EXCEPT !.pc = pc])
        PROVE  Orderly(handler[h])'
    <3> DEFINE next == [me EXCEPT !.pc = pc]
    <3>1. next.pc = pc /\ Continues(h, next)
      BY <1>1, <2>3 DEF HandlerType
    <3> HIDE DEF next
    <3>2. QED
      BY <1>2, <2>1, <3>1 DEF Plain, TokenPcs
  <2>4. QED
    BY <2>1, <2>2, <2>3
<1>11. CASE Clears(h)
  <2> DEFINE next == [Rest EXCEPT !.pc = "close", !.q = me.q]
  <2>1. next.pc = "close" /\ Continues(h, next) /\ me.pc = "clear" /\ UNCHANGED <<account, session>>
    BY <1>11 DEF Rest, Clears, At
  <2> HIDE DEF next
  <2>2. QED
    BY <1>2, <2>1 DEF Plain
<1>12. QED
  BY <1>4, <1>6, <1>7, <1>8, <1>9, <1>10, <1>11

LEMMA AuthenticationOrderly ==
    ASSUME Typed, NEW h \in Handlers, Orderly(handler[h]), Authentication(h), UNCHANGED admission
    PROVE  Orderly(handler[h])'
<1> DEFINE me == handler[h]
<1>1. /\ me \in HandlerType /\ Sound(me) /\ request' = request
      /\ account \in [Requests -> AccountType] /\ session \in [Sessions -> SessionType]
      /\ handler \in [Handlers -> HandlerType]
  BY DEF Typed, TypeOK, admission
<1>2. /\ Fits(me)
      /\ \A q \in Requests : New(q) \/ Approved(me, q)
      /\ \A s \in Sessions : session[s].state = "ACTIVE" => Matches(me, s)
  BY DEF Orderly
<1>3. ASSUME NEW next, Starts(h, next) \/ Continues(h, next)
      PROVE  handler'[h] = next
  BY <1>1, <1>3 DEF Starts, Continues, Become
<1>4. Rest.pc = "idle" /\ Rest.pc \in Plain
  BY DEF Rest, Plain
\* A step that ends or makes sessions.
<1>5. ASSUME NEW next, Continues(h, next), next.pc \in {"idle", "end"}, me.pc # "decide",
             UNCHANGED account,
             \A s \in Sessions : session'[s].state = "ACTIVE" =>
                /\ session'[s].q \in Requests
                /\ account[session'[s].q] = [role |-> session'[s].role, state |-> "ACTIVE"]
      PROVE  Orderly(handler[h])'
  <2>1. handler'[h] = next
    BY <1>3, <1>5
  <2>2. Fits(handler[h])'
    BY <1>5, <2>1 DEF Fits, Granting
  <2>3. \A q \in Requests : (New(q) \/ Approved(handler[h], q))'
    BY <1>1, <1>2, <1>5 DEF New, Approved
  <2>4. \A s \in Sessions : (session[s].state = "ACTIVE" => Matches(handler[h], s))'
    BY <1>5 DEF Matches
  <2>5. QED
    BY <2>2, <2>3, <2>4 DEF Orderly
<1>6. ASSUME NEW q \in Requests, LoginReads(h, q)
      PROVE  Orderly(handler[h])'
  <2> DEFINE next == [Rest EXCEPT !.pc = "login", !.q = q, !.acc = account[q]]
  <2>1. /\ next.pc = "login" /\ next.q = q /\ next.acc = account[q] /\ Starts(h, next)
        /\ me.pc = "idle" /\ UNCHANGED <<account, session>> /\ account[q].state = "ACTIVE"
    BY <1>6 DEF Rest, LoginReads, Starts, At
  <2> HIDE DEF next
  <2>2. Fits(next)
    BY <2>1 DEF Fits, Granting
  <2>3. handler'[h] = next
    BY <1>3, <2>1
  <2>4. QED
    BY <1>1, <2>1, <2>2, <2>3, OrderlyKept
<1>14. ASSUME NEW q \in Requests, NEW change \in ChangeType, ChangeReads(h, q, change)
       PROVE  Orderly(handler[h])'
  <2> DEFINE next == [Rest EXCEPT !.pc = "change", !.q = q, !.acc = change]
  <2>1. /\ next.pc = "change" /\ next.acc = change /\ Starts(h, next) /\ me.pc = "idle"
        /\ UNCHANGED <<account, session>>
    BY <1>14 DEF Rest, ChangeReads, Starts, At
  <2> HIDE DEF next
  <2>2. Fits(next)
    BY <2>1 DEF Fits, Granting
  <2>3. handler'[h] = next
    BY <1>3, <2>1
  <2>4. QED
    BY <1>1, <2>1, <2>2, <2>3, OrderlyKept
<1>7. ASSUME NEW s \in Sessions, LoginCreates(h, s)
      PROVE  Orderly(handler[h])'
  <2>1. /\ me.pc = "login" /\ me.acc = account[me.q] /\ me.acc.state = "ACTIVE" /\ me.q \in Requests
        /\ UNCHANGED account /\ Continues(h, Rest)
    BY <1>2, <1>7 DEF LoginCreates, At, Fits
  <2>2. account[me.q] = [role |-> me.acc.role, state |-> "ACTIVE"]
    BY <1>1, <2>1 DEF AccountType
  <2>3. session' = [session EXCEPT ![s] = [q |-> me.q, role |-> me.acc.role, state |-> "ACTIVE"]]
    BY <1>7, <2>1 DEF LoginCreates, Exists
  <2>4. ASSUME NEW r \in Sessions, session'[r].state = "ACTIVE"
        PROVE  /\ session'[r].q \in Requests
               /\ account[session'[r].q] = [role |-> session'[r].role, state |-> "ACTIVE"]
    <3>1. CASE r = s
      BY <1>1, <2>1, <2>2, <2>3, <3>1
    <3>2. CASE r # s
      BY <1>1, <1>2, <2>1, <2>3, <2>4, <3>2 DEF Matches
    <3>3. QED
      BY <3>1, <3>2
  <2>5. QED
    BY <1>4, <1>5, <2>1, <2>4
<1>8. ASSUME NEW s \in Sessions, Ends(h, s)
      PROVE  Orderly(handler[h])'
  <2>1. me.pc = "end" /\ UNCHANGED account /\ session' = [session EXCEPT ![s].state = "ENDED"]
    BY <1>8 DEF Ends, At
  <2>2. PICK next : Continues(h, next) /\ next.pc \in {"idle", "end"}
    <3>1. [me EXCEPT !.ends = me.ends \ {s}].pc = "end"
      BY <1>1, <2>1 DEF HandlerType
    <3>2. QED
      BY <1>4, <1>8, <3>1 DEF Ends
  <2>3. \A r \in Sessions : session'[r].state = "ACTIVE" =>
                                session'[r] = session[r] /\ session[r].state = "ACTIVE"
    BY <1>1, <2>1 DEF SessionType
  <2>4. QED
    BY <1>2, <1>5, <2>1, <2>2, <2>3 DEF Matches
<1>9. CASE ClosesSessions(h)
  <2>1. me.pc = "close" /\ UNCHANGED account /\ Continues(h, Rest)
    BY <1>9 DEF ClosesSessions, At
  <2>2. ASSUME NEW r \in Sessions, session'[r].state = "ACTIVE"
        PROVE  session'[r] = session[r] /\ session[r].state = "ACTIVE" /\ session[r].q # me.q
    <3>1. session'[r] = IF r \in Current(me.q) THEN [session[r] EXCEPT !.state = "ENDED"] ELSE session[r]
      BY <1>9 DEF ClosesSessions
    <3>2. r \notin Current(me.q)
      BY <1>1, <2>2, <3>1 DEF SessionType
    <3>3. QED
      BY <2>2, <3>1, <3>2 DEF Current
  <2>3. \A r \in Sessions : session'[r].state = "ACTIVE" =>
          /\ session'[r].q \in Requests
          /\ account[session'[r].q] = [role |-> session'[r].role, state |-> "ACTIVE"]
    BY <1>2, <2>2 DEF Matches
  <2>4. QED
    BY <1>4, <1>5, <2>1, <2>3
\* A change of an account that leaves it open for who is logged in with its role.
<1>10. CASE Changes(h)
  <2> DEFINE next == IF MustClose(me.acc) THEN [Rest EXCEPT !.pc = "close", !.q = me.q] ELSE Rest
  <2>1. /\ me.pc = "change" /\ me.q \in Requests /\ UNCHANGED session
        /\ handler'[h] = next
    BY <1>1, <1>3, <1>10 DEF Changes, At, Sound
  <2>2. /\ next.pc \in {"idle", "close"}
        /\ MustClose(me.acc) => next.pc = "close" /\ next.q = me.q
    BY DEF Rest
  <2> HIDE DEF next
  <2>3. Fits(handler[h])'
    BY <2>1, <2>2 DEF Fits, Granting
  <2>4. /\ \A p \in Requests \ {me.q} : account'[p] = account[p]
        /\ \/ account'[me.q] = account[me.q]
           \/ Exists(me.q) /\ account'[me.q] = Changed(account[me.q], me.acc)
    <3>1. CASE Exists(me.q)
      <4>1. PICK acc : acc = Changed(account[me.q], me.acc)
        OBVIOUS
      <4>2. account' = [account EXCEPT ![me.q] = acc]
        BY <1>10, <3>1, <4>1 DEF Changes
      <4>3. QED
        BY <1>1, <2>1, <3>1, <4>1, <4>2
    <3>2. CASE ~Exists(me.q)
      <4>1. account' = account
        BY <1>10, <3>2 DEF Changes, Exists
      <4>2. QED
        BY <4>1
    <3>3. QED
      BY <3>1, <3>2
  <2>5. ASSUME NEW p \in Requests
        PROVE  (New(p) \/ Approved(handler[h], p))'
    <3>1. account'[p] = account[p] \/ Exists(p)
      BY <2>4
    <3>2. QED
      BY <1>1, <1>2, <2>1, <3>1 DEF New, Approved, Exists
  <2>6. ASSUME NEW s \in Sessions, session'[s].state = "ACTIVE"
        PROVE  Matches(handler[h], s)'
    <3>1. /\ session' = session /\ session[s].q \in Requests
          /\ account[session[s].q] = [role |-> session[s].role, state |-> "ACTIVE"]
      BY <1>2, <2>1, <2>6 DEF Matches
    <3>2. CASE MustClose(me.acc) /\ session[s].q = me.q
      BY <2>1, <2>2, <3>1, <3>2 DEF Matches
    <3>3. CASE ~MustClose(me.acc)
      <4>1. me.acc.role = None /\ me.acc.state \in {"NONE", "ACTIVE"}
        BY <1>2, <2>1, <3>3 DEF MustClose, Fits, ChangeType
      <4>2. account[me.q] = [role |-> account[me.q].role, state |-> account[me.q].state]
        BY <1>1, <2>1 DEF AccountType
      <4>3. account[me.q].state = "ACTIVE" /\ me.acc.state \in {"NONE", "ACTIVE"} =>
                Changed(account[me.q], me.acc) = account[me.q]
        BY <4>1, <4>2 DEF Changed
      <4>4. QED
        BY <2>4, <3>1, <4>1, <4>3 DEF Matches
    <3>4. CASE session[s].q # me.q
      BY <2>4, <3>1, <3>4 DEF Matches
    <3>5. QED
      BY <3>2, <3>3, <3>4
  <2>7. QED
    BY <2>3, <2>5, <2>6 DEF Orderly
\* Nobody has ever been logged into an account that can be deleted.
<1>11. CASE Deletes(h)
  <2>1. me.pc = "delete" /\ UNCHANGED session /\ handler'[h] = Rest
    BY <1>3, <1>11 DEF Deletes, At
  <2>2. Fits(handler[h])'
    BY <1>4, <2>1, PlainFits DEF Fits, Granting
  <2>3. \A p \in Requests : \/ account'[p] = account[p]
                            \/ Exists(p) /\ \A s \in Sessions : session[s].q # p
    BY <1>1, <1>11 DEF Deletes
  <2>4. ASSUME NEW p \in Requests
        PROVE  (New(p) \/ Approved(handler[h], p))'
    BY <1>1, <1>2, <2>1, <2>3 DEF New, Approved, Exists
  <2>5. ASSUME NEW s \in Sessions, session'[s].state = "ACTIVE"
        PROVE  Matches(handler[h], s)'
    BY <1>2, <2>1, <2>3, <2>5 DEF Matches
  <2>6. QED
    BY <2>2, <2>4, <2>5 DEF Orderly
<1>12. CASE \/ \E q \in Requests :
                  \/ DeleteReads(h, q) \/ ForgetReads(h, q)
                  \/ \E t \in Tokens, pc \in {"expire", "spend", "count", "password"} :
                        ResetReads(h, q, t, pc)
            \/ \E t \in Tokens : ExpiryReads(h, t)
            \/ \E ends \in SUBSET Sessions : EndReads(h, ends)
            \/ Forgets(h) \/ Issues(h) \/ Expires(h) \/ Counts(h) \/ Spends(h)
            \/ ChangesPassword(h) \/ Uses(h) \/ Clears(h)
  BY <1>12, TokensOrderly
<1>13. QED
  BY <1>6, <1>7, <1>8, <1>9, <1>10, <1>11, <1>12, <1>14 DEF Authentication

LEMMA StepSerial == Typed /\ Serial /\ [Next]_vars => Serial'
<1> SUFFICES ASSUME Typed, Serial, [Next]_vars, ~disturbed' PROVE Serial'
  BY DEF Serial
<1>1. ASSUME NEW h \in Handlers,
             \/ Admission(h) /\ UNCHANGED authentication
             \/ Authentication(h) /\ UNCHANGED admission
      PROVE  Serial'
  <2>1. ~disturbed /\ (handler[h].pc = "idle" => ~Busy)
    <3>1. ASSUME NEW next, Starts(h, next)
          PROVE  ~disturbed /\ ~Busy
      BY <3>1 DEF Starts
    <3>2. ASSUME NEW next, Continues(h, next), handler[h].pc # "idle"
          PROVE  ~disturbed /\ (handler[h].pc = "idle" => ~Busy)
      BY <3>2 DEF Continues
    <3>3. CASE Admission(h)
      BY <3>1, <3>2, <3>3 DEF Admission, ChecksEmail, Inserts, ProposesReads, EditFinds, Reviews,
              Advises, AdviceFails, Proposes, EditSaves, FindsPerson, Admits, FindsAccount,
              RewritesAccount, GrantsAccount, Decides, At
    <3>4. CASE Authentication(h)
      BY <3>1, <3>2, <3>4 DEF Authentication, LoginReads, LoginCreates, EndReads, Ends,
              ClosesSessions, ChangeReads, Changes, DeleteReads, Deletes, ForgetReads, Forgets,
              Issues, ResetReads, ExpiryReads, Expires, Counts, Spends, ChangesPassword, Uses,
              Clears, At
    <3>5. QED
      BY <1>1, <3>3, <3>4
  <2>2. Alone(h) /\ Orderly(handler[h])
    BY <2>1, TurnTaken
  <2>3. Orderly(handler[h])' /\ Others(h)
    BY <1>1, <2>2, AdmissionOrderly, AuthenticationOrderly, AdmissionTyped, AuthenticationTyped
  <2>4. Alone(h)'
    BY <2>2, <2>3 DEF Alone, Others, At
  <2>5. QED
    BY <2>3, <2>4 DEF Serial
<1>2. ASSUME NEW h \in Handlers, Stops(h) PROVE FALSE
  BY <1>2 DEF Stops
<1>3. CASE UNCHANGED vars
  BY <1>3 DEF vars, shared, admission, authentication, Serial, Alone, At, Orderly, Fits, New,
              Approved, Matches
<1>4. QED
  BY <1>1, <1>2, <1>3 DEF Next


LEMMA InitSerial == Init => Serial
<1> SUFFICES ASSUME Init PROVE Serial
  OBVIOUS
<1>1. PICK h \in Handlers : TRUE
  BY AccountsAssumption
<1>2. \A k \in Handlers : handler[k].pc = "idle"
  BY DEF Init, SharedInit, Rest
<1>3. \A q \in Requests : account[q].state # "NONE" => request[q].status = "APPROVED"
  <2>1. PICK waiting \in SUBSET Requests, admitted \in SUBSET Requests :
          \E camp \in [Requests -> Camps], r \in Roles :
            /\ waiting \cap admitted = {} /\ Cardinality(admitted) <= 1
            /\ \A p, q \in waiting \cup admitted : camp[p] = camp[q] => p = q
            /\ request = [q \in Requests |->
                  IF q \in admitted
                  THEN [camp |-> camp[q], by |-> "admin", status |-> "APPROVED"]
                  ELSE IF q \in waiting
                  THEN [camp |-> camp[q], by |-> "ai", status |-> "PENDING_ADMIN"]
                  ELSE NoRow]
            /\ person = [q \in Requests |-> q \in admitted]
            /\ account = [q \in Requests |->
                  IF q \in admitted THEN [role |-> r, state |-> "ACTIVE"] ELSE NoAccount]
    BY Zenon DEF Init, AdmissionInit
  <2>2. PICK camp \in [Requests -> Camps], r \in Roles :
          /\ request = [q \in Requests |->
                IF q \in admitted
                THEN [camp |-> camp[q], by |-> "admin", status |-> "APPROVED"]
                ELSE IF q \in waiting
                THEN [camp |-> camp[q], by |-> "ai", status |-> "PENDING_ADMIN"]
                ELSE NoRow]
          /\ account = [q \in Requests |->
                IF q \in admitted THEN [role |-> r, state |-> "ACTIVE"] ELSE NoAccount]
    BY <2>1, Zenon
  <2>3. QED
    BY <2>2 DEF NoAccount
<1>4. \A s \in Sessions : session[s].state = "NONE"
  BY DEF Init, AuthenticationInit, NoSession
<1>5. Fits(handler[h])
  BY <1>2, PlainFits DEF Plain
<1>6. Orderly(handler[h])
  BY <1>3, <1>4, <1>5 DEF Orderly, New, Approved
<1>7. Alone(h)
  BY <1>2 DEF Alone, At
<1>8. QED
  BY <1>6, <1>7 DEF Serial

\* As long as handlers take turns and none stops, whoever is logged in has the account
\* the session says, for any number of each.
THEOREM SessionsFollowAccounts == Spec => []SessionsMatchAccounts
<1>1. Init => Typed /\ Serial
  BY InitTyped, InitSerial
<1>2. (Typed /\ Serial) /\ [Next]_vars => (Typed /\ Serial)'
  BY StepTyped, StepSerial
<1>3. Serial => SessionsMatchAccounts
  <2> SUFFICES ASSUME Serial, ~disturbed, ~Busy, NEW s \in Sessions, session[s].state = "ACTIVE"
               PROVE  account[session[s].q] = [role |-> session[s].role, state |-> "ACTIVE"]
    BY DEF SessionsMatchAccounts
  <2>1. PICK h \in Handlers : Orderly(handler[h])
    BY DEF Serial
  <2>2. handler[h].pc # "close" /\ Matches(handler[h], s)
    BY <2>1 DEF Busy, At, Orderly
  <2>3. QED
    BY <2>2 DEF Matches
<1>4. QED
  BY <1>1, <1>2, <1>3, PTL DEF Spec

=============================================================================
