----------------------- MODULE IntercampRequestProofs -----------------------
(***************************************************************************)
(* Proofs about IntercampRequest, for any requests, people and stock: the  *)
(* types, that nobody is on two transfers under way, that a transfer does  *)
(* not wait for a request that was refused, that the staff under way is    *)
(* not left behind, that the requests live as RequestLifecycle says, and   *)
(* that what the camp has promised still fits what it has in store.        *)
(*                                                                         *)
(* The argument of the second: whoever is put on the staff was found free  *)
(* by an earlier step (Busy), and what other actors do in between only     *)
(* takes people off transfers or transfers out of the way, so the finding  *)
(* still holds when it is used.                                            *)
(***************************************************************************)
EXTENDS IntercampRequest, FiniteSetTheorems, WellFoundedInduction, TLAPS

\* The states a handler may be in, and those it may go to.
LEMMA HandlerTypes ==
    ASSUME handler \in HandlerType
    PROVE  /\ \A pc \in {"idle", "check", "save", "cancel", "prepare", "staff", "assign", "manifest",
                         "rations", "revert", "replace"} : To(pc) => handler' \in HandlerType
           /\ Ends => handler' \in HandlerType
<1>1. Rest \in HandlerType
  BY RequestAssumption DEF Rest, HandlerType, Statuses
<1>2. QED
  BY <1>1 DEF To, Ends, HandlerType

\* A camp and a status for everybody.
LEMMA PersonTypes ==
    ASSUME person \in [People -> PersonType]
    PROVE  /\ \A p \in People : [person[p] EXCEPT !.status = "ACTIVE"] \in PersonType
           /\ \A p \in People : [person[p] EXCEPT !.status = "OUTSIDE_CAMP"] \in PersonType
           /\ [camp |-> "recipient", status |-> "ACTIVE"] \in PersonType
           /\ [camp |-> "supplier", status |-> "ACTIVE"] \in PersonType
BY DEF PersonType

\* Rows stay rows when people are added or canceled.
LEMMA RowTypes ==
    ASSUME NEW rows \in Rows, NEW r \in Requests, NEW ps
    PROVE  Adding(rows, r, ps) \in Rows /\ Canceling(rows, r) \in Rows /\ Replacing(rows, r, ps) \in Rows
<1>1. \A p \in People : rows[r][p] \in RowStates
  BY DEF Rows
<1>2. [p \in People |-> IF p \in ps /\ rows[r][p] = "none" THEN "live" ELSE rows[r][p]]
        \in [People -> RowStates]
  BY <1>1 DEF RowStates
<1>3. [p \in People |-> IF rows[r][p] = "live" THEN "canceled" ELSE rows[r][p]] \in [People -> RowStates]
  BY <1>1 DEF RowStates
<1>4. [p \in People |-> IF rows[r][p] = "none" THEN "none"
          ELSE IF p \in ps THEN "live" ELSE "canceled"] \in [People -> RowStates]
  BY <1>1 DEF RowStates
<1>5. QED
  BY <1>2, <1>3, <1>4 DEF Rows, Adding, Canceling, Replacing

LEMMA InitType == Init => TypeOK
<1> SUFFICES ASSUME Init PROVE TypeOK
  OBVIOUS
<1>1. NoRows \in Rows
  BY DEF NoRows, Rows, RowStates
<1>2. Rest \in HandlerType
  BY RequestAssumption DEF Rest, HandlerType, Statuses
<1>3. person \in [People -> PersonType]
  BY DEF Init, PersonType
<1>4. stock \in Nat
  BY RequestAssumption DEF Init
<1>5. stopped \in BOOLEAN
  BY Zenon DEF Init
<1>6. QED
  BY <1>1, <1>2, <1>3, <1>4, <1>5 DEF Init, TypeOK, Statuses, Active

\* A transfer that is canceled.
LEMMA CancelTypes ==
    ASSUME TypeOK, NEW r \in Requests, CancelTransfer(r)
    PROVE  /\ transfer' \in [Requests -> {"NONE", "COMPLETED", "CANCELED"} \cup Active]
           /\ staff' \in Rows /\ asked' \in Rows
           /\ person' \in [People -> PersonType]
<1>1. staff' \in Rows /\ asked' \in Rows
  BY RowTypes DEF CancelTransfer, TypeOK
<1>2. person' \in [People -> PersonType]
  BY PersonTypes DEF CancelTransfer, TypeOK
<1>3. QED
  BY <1>1, <1>2 DEF CancelTransfer, TypeOK

\* Goods that leave were there.
LEMMA SentInStock ==
    ASSUME TypeOK, NEW r \in Requests
    PROVE  stock - Sent(r) \in Nat
<1>1. stock \in Nat /\ Amount[r] \in Nat
  BY RequestAssumption DEF TypeOK
<1>2. QED
  BY <1>1 DEF Sent

LEMMA StepType ==
    ASSUME TypeOK, [Next]_vars
    PROVE  TypeOK'
<1> USE DEF notes, manifest, goods, tables
<1> DEFINE Pcs == {"idle", "check", "save", "cancel", "prepare", "staff", "assign", "manifest",
                   "rations", "revert", "replace"}
<1>1. handler \in HandlerType /\ handler.r \in Requests /\ handler.status \in Statuses
      /\ handler.existing \in Statuses /\ handler.people \in SUBSET People
  BY DEF TypeOK, HandlerType
<1>2. (\A pc \in Pcs : To(pc) => handler' \in HandlerType) /\ (Ends => handler' \in HandlerType)
  BY <1>1, HandlerTypes
<1>3. ASSUME NEW r \in Requests, Creates(r) \/ Submits(r)
      PROVE  TypeOK'
  BY <1>3 DEF Creates, Submits, Writes, TypeOK, Statuses
<1>4. CASE Approves
  <2>1. PICK r \in Requests, ps \in SUBSET People :
             Starts([Rest EXCEPT !.pc = "save", !.r = r, !.status = "APPROVED",
                                 !.existing = "PENDING", !.people = ps])
    BY <1>4, RequestAssumption DEF Approves
  <2>2. handler' \in HandlerType
    BY <2>1 DEF Starts, Rest, HandlerType, Statuses
  <2>3. QED
    BY <2>1, <2>2 DEF Starts, TypeOK
<1>5. CASE Refuses
  <2>1. PICK r \in Requests, status \in Refused :
             Starts([Rest EXCEPT !.pc = "check", !.r = r, !.status = status, !.existing = request[r]])
    BY <1>5 DEF Refuses
  <2>2. request[r] \in Statuses
    BY DEF TypeOK
  <2>3. handler' \in HandlerType
    BY <2>1, <2>2 DEF Starts, Rest, HandlerType, Statuses, Refused
  <2>4. QED
    BY <2>1, <2>3 DEF Starts, TypeOK
<1>6. CASE Checks
  BY <1>2, <1>6 DEF Checks, TypeOK
<1>7. CASE Saves
  BY <1>1, <1>2, <1>7 DEF Saves, AfterSave, TypeOK
<1>8. CASE CancelsTransfer
  BY <1>1, <1>2, <1>8, CancelTypes DEF CancelsTransfer, TypeOK
<1>9. CASE Prepares
  <2>1. handler' \in HandlerType
    BY <1>2, <1>9 DEF Prepares
  <2>2. transfer' \in [Requests -> {"NONE", "COMPLETED", "CANCELED"} \cup Active]
    BY <1>1, <1>9 DEF Prepares, TypeOK, Active
  <2>3. QED
    BY <2>1, <2>2, <1>9 DEF Prepares, TypeOK
<1>10. CASE ChecksStaff
  BY <1>2, <1>10 DEF ChecksStaff, TypeOK
<1>11. CASE Assigns
  <2>1. staff' \in Rows
    BY <1>1, <1>11, RowTypes DEF Assigns, TypeOK
  <2>2. QED
    BY <1>2, <1>11, <2>1 DEF Assigns, TypeOK
<1>12. CASE FillsManifest
  <2>1. asked' \in Rows
    BY <1>1, <1>12, RowTypes DEF FillsManifest, TypeOK
  <2>2. QED
    BY <1>2, <1>12, <2>1 DEF FillsManifest, TypeOK
<1>13. CASE ChecksRations
  BY <1>2, <1>13 DEF ChecksRations, TypeOK
<1>14. CASE Reverts
  BY <1>1, <1>2, <1>14 DEF Reverts, Reverted, TypeOK
<1>15. CASE ChangesStaff
  <2>1. PICK r \in Requests, ps \in SUBSET People :
             Starts([Rest EXCEPT !.pc = "replace", !.r = r, !.people = ps])
    BY <1>15, RequestAssumption DEF ChangesStaff
  <2>2. handler' \in HandlerType
    BY <2>1 DEF Starts, Rest, HandlerType, Statuses
  <2>3. QED
    BY <2>1, <2>2 DEF Starts, TypeOK
<1>16. CASE Replaces
  <2>1. staff' \in Rows
    BY <1>1, <1>16, RowTypes DEF Replaces, TypeOK
  <2>2. QED
    BY <1>2, <1>16, <2>1 DEF Replaces, TypeOK
<1>17. ASSUME NEW r \in Requests, Passes(r)
       PROVE  TypeOK'
  BY <1>17 DEF Passes, TypeOK
<1>18. ASSUME NEW r \in Requests, Departs(r) \/ Completes(r)
       PROVE  TypeOK'
  <2>1. UNCHANGED goods \/ SendsGoods(r)
    BY <1>18 DEF Departs, Completes
  <2>2. stock' \in Nat /\ left' \subseteq Requests
    BY <2>1, SentInStock DEF SendsGoods, TypeOK
  <2>3. person' \in [People -> PersonType]
    BY <1>18, PersonTypes DEF Departs, Completes, TypeOK
  <2>4. transfer' \in [Requests -> {"NONE", "COMPLETED", "CANCELED"} \cup Active]
    BY <1>18 DEF Departs, Completes, TypeOK, Active
  <2>5. UNCHANGED <<request, due, staff, asked, handler, failed, putBack, stopped>>
    BY <1>18 DEF Departs, Completes
  <2>6. QED
    BY <2>2, <2>3, <2>4, <2>5 DEF TypeOK
<1>23. ASSUME NEW r \in Requests, PutsBack(r)
       PROVE  TypeOK'
  BY <1>23 DEF PutsBack, TypeOK, Active
<1>19. ASSUME NEW r \in Requests, Cancels(r)
       PROVE  TypeOK'
  BY <1>19, CancelTypes DEF Cancels, TypeOK
<1>20. CASE Stops
  <2>1. stopped' \in BOOLEAN
    BY <1>20, Zenon DEF Stops
  <2>2. QED
    BY <1>2, <1>20, <2>1 DEF Stops, TypeOK
<1>21. CASE UNCHANGED vars
  BY <1>21 DEF vars, TypeOK
<1>22. QED
  BY <1>3, <1>4, <1>5, <1>6, <1>7, <1>8, <1>9, <1>10, <1>11, <1>12, <1>13, <1>14, <1>15,
     <1>16, <1>17, <1>18, <1>19, <1>20, <1>21, <1>23 DEF Next, Serves

\* Every variable keeps its type; in particular what is sent never exceeds the stock.
THEOREM TypeCorrect == Spec => []TypeOK
<1>1. QED
  BY InitType, StepType, PTL DEF Spec

-----------------------------------------------------------------------------
OnBoard(r) == Live(staff, r) \cup Live(asked, r)

\* What makes the invariant inductive: a transfer that does not exist has nobody, a
\* handler past its creation has one, and its finding that nobody of its people is on
\* another transfer still holds when it acts on it.
Findings ==
    /\ \A r \in Requests : transfer[r] = "NONE" => OnBoard(r) = {}
    /\ handler.pc \in {"staff", "assign", "manifest", "rations"} => transfer[handler.r] # "NONE"
    /\ handler.pc = "replace" => transfer[handler.r] # "NONE"
    /\ handler.pc \in {"assign", "replace"} => ~Busy(handler.people, handler.r)

IInv == TypeOK /\ Findings /\ NobodyOnTwoTransfers

\* The two formulas, without the operators of the model.
LEMMA Apart ==
    /\ NobodyOnTwoTransfers <=>
         \A r, s \in Requests : r # s /\ transfer[r] \in Active /\ transfer[s] \in Active
                                  => OnBoard(r) \cap OnBoard(s) = {}
    /\ \A ps, r : ~Busy(ps, r) <=>
         \A s \in Requests \ {r} : transfer[s] \in Active => ps \cap OnBoard(s) = {}
<1>1. \A r : OnBoard(r) \subseteq People
  BY DEF OnBoard, Live
<1>2. QED
  BY <1>1 DEF NobodyOnTwoTransfers, Busy, OnBoard

\* Transfers come to an end and people get off: what was found stays true.
LEMMA Shrinking ==
    ASSUME Findings, NobodyOnTwoTransfers,
           \A r \in Requests : OnBoard(r)' \subseteq OnBoard(r),
           \A r \in Requests : transfer'[r] \in Active => transfer[r] \in Active,
           \A r \in Requests : transfer'[r] = "NONE" => transfer[r] = "NONE",
           \A r \in Requests : transfer[r] # "NONE" => transfer'[r] # "NONE",
           handler'.pc \in {"staff", "assign", "manifest", "rations", "replace"} =>
               /\ handler'.r \in Requests
               /\ transfer[handler'.r] # "NONE",
           handler'.pc \in {"assign", "replace"} => ~Busy(handler'.people, handler'.r)
    PROVE  Findings' /\ NobodyOnTwoTransfers'
<1>1. \A r, s \in Requests : r # s /\ transfer'[r] \in Active /\ transfer'[s] \in Active
                               => OnBoard(r)' \cap OnBoard(s)' = {}
  BY Apart
<1>2. NobodyOnTwoTransfers'
  BY <1>1 DEF NobodyOnTwoTransfers, OnBoard
<1>3. ASSUME handler'.pc \in {"assign", "replace"}
      PROVE  ~Busy(handler.people, handler.r)'
  <2>1. \A s \in Requests \ {handler'.r} : transfer[s] \in Active => handler'.people \cap OnBoard(s) = {}
    BY <1>3, Apart
  <2>2. \A s \in Requests \ {handler'.r} : transfer'[s] \in Active => handler'.people \cap OnBoard(s)' = {}
    BY <2>1
  <2>3. QED
    BY <2>2 DEF Busy, OnBoard
<1>4. \A r \in Requests : transfer'[r] = "NONE" => OnBoard(r)' = {}
  BY DEF Findings
<1>5. QED
  BY <1>2, <1>3, <1>4 DEF Findings

\* A transfer gets people of whom none is on another.
LEMMA Growing ==
    ASSUME Findings, NobodyOnTwoTransfers, NEW q \in Requests, NEW ps,
           ~Busy(ps, q), UNCHANGED transfer, transfer[q] # "NONE",
           OnBoard(q)' \subseteq OnBoard(q) \cup ps,
           \A r \in Requests \ {q} : OnBoard(r)' = OnBoard(r),
           handler'.pc \notin {"assign", "replace"},
           handler'.pc \in {"staff", "assign", "manifest", "rations"} => handler'.r = q
    PROVE  Findings' /\ NobodyOnTwoTransfers'
<1>1. \A r, s \in Requests : r # s /\ transfer[r] \in Active /\ transfer[s] \in Active
                               => OnBoard(r) \cap OnBoard(s) = {}
  BY Apart
<1>2. \A s \in Requests \ {q} : transfer[s] \in Active => ps \cap OnBoard(s) = {}
  BY Apart
<1>3. \A r, s \in Requests : r # s /\ transfer'[r] \in Active /\ transfer'[s] \in Active
                               => OnBoard(r)' \cap OnBoard(s)' = {}
  <2> SUFFICES ASSUME NEW r \in Requests, NEW s \in Requests, r # s,
                      transfer'[r] \in Active, transfer'[s] \in Active
               PROVE  OnBoard(r)' \cap OnBoard(s)' = {}
    OBVIOUS
  <2>1. OnBoard(r) \cap OnBoard(s) = {}
    BY <1>1
  <2>2. CASE r = q
    BY <1>2, <2>1, <2>2
  <2>3. CASE s = q
    BY <1>2, <2>1, <2>3
  <2>4. CASE r # q /\ s # q
    BY <2>1, <2>4
  <2>5. QED
    BY <2>2, <2>3, <2>4
<1>4. NobodyOnTwoTransfers'
  BY <1>3 DEF NobodyOnTwoTransfers, OnBoard
<1>5. \A r \in Requests : transfer'[r] = "NONE" => OnBoard(r)' = {}
  BY DEF Findings
<1>6. QED
  BY <1>4, <1>5 DEF Findings

\* Who is on board after rows were added or canceled.
LEMMA RowsOnBoard ==
    ASSUME NEW rows \in Rows, NEW r \in Requests, NEW ps \in SUBSET People
    PROVE  /\ Live(Adding(rows, r, ps), r) \subseteq Live(rows, r) \cup ps
           /\ Live(Replacing(rows, r, ps), r) \subseteq ps
           /\ Live(Canceling(rows, r), r) = {}
           /\ \A s \in Requests \ {r} : /\ Live(Adding(rows, r, ps), s) = Live(rows, s)
                                        /\ Live(Replacing(rows, r, ps), s) = Live(rows, s)
                                        /\ Live(Canceling(rows, r), s) = Live(rows, s)
<1>1. DOMAIN rows = Requests
  BY DEF Rows
<1>2. QED
  BY <1>1 DEF Live, Adding, Canceling, Replacing

LEMMA InitSafe == Init => Findings /\ NobodyOnTwoTransfers
<1> SUFFICES ASSUME Init PROVE Findings /\ NobodyOnTwoTransfers
  OBVIOUS
<1>1. \A r \in Requests : OnBoard(r) = {}
  BY DEF Init, NoRows, OnBoard, Live
<1>2. \A r \in Requests : transfer[r] \notin Active
  BY DEF Init, Active
<1>3. handler.pc = "idle"
  BY DEF Init, Rest
<1>4. NobodyOnTwoTransfers
  BY <1>2 DEF NobodyOnTwoTransfers
<1>5. QED
  BY <1>1, <1>3, <1>4 DEF Findings

\* A canceled transfer.
LEMMA CancelSafe ==
    ASSUME TypeOK, Findings, NobodyOnTwoTransfers, NEW r \in Requests,
           CancelTransfer(r), handler' = handler \/ handler'.pc = "idle"
    PROVE  Findings' /\ NobodyOnTwoTransfers'
<1>1. \A s \in Requests : OnBoard(s)' \subseteq OnBoard(s)
  <2>1. staff \in Rows /\ asked \in Rows /\ {} \in SUBSET People
    BY DEF TypeOK
  <2>2. \A s \in Requests : /\ Live(Canceling(staff, r), s) \subseteq Live(staff, s)
                             /\ Live(Canceling(asked, r), s) \subseteq Live(asked, s)
    BY <2>1, RowsOnBoard
  <2>3. QED
    BY <2>2 DEF CancelTransfer, OnBoard, Live
<1>2. \A s \in Requests : transfer'[s] = transfer[s] \/ transfer'[s] = "CANCELED"
  BY DEF CancelTransfer, TypeOK
<1>3. handler.r \in Requests
  BY DEF TypeOK, HandlerType
<1>4. \A s \in Requests : transfer'[s] \in Active => transfer[s] \in Active
  BY <1>2 DEF Active
<1>5. handler'.pc \in {"staff", "assign", "manifest", "rations", "replace"} =>
          handler'.r \in Requests /\ transfer[handler'.r] # "NONE"
  BY <1>3 DEF Findings
<1>6. handler'.pc \in {"assign", "replace"} => ~Busy(handler'.people, handler'.r)
  BY DEF Findings
<1>7. QED
  BY <1>1, <1>2, <1>4, <1>5, <1>6, Shrinking

LEMMA StepSafe ==
    ASSUME IInv, [Next]_vars
    PROVE  Findings' /\ NobodyOnTwoTransfers'
<1> USE DEF notes, manifest, goods, tables
<1>1. TypeOK /\ Findings /\ NobodyOnTwoTransfers
  BY DEF IInv
<1>2. handler.r \in Requests /\ handler.people \in SUBSET People /\ staff \in Rows /\ asked \in Rows
      /\ handler \in HandlerType
  BY <1>1 DEF TypeOK, HandlerType
<1>3. Rest.pc = "idle"
  BY DEF Rest
<1>4. ASSUME UNCHANGED <<transfer, staff, asked>>,
             handler'.pc \in {"staff", "assign", "manifest", "rations", "replace"} =>
                 handler'.r \in Requests /\ transfer[handler'.r] # "NONE",
             handler'.pc \in {"assign", "replace"} => ~Busy(handler'.people, handler'.r)
      PROVE  Findings' /\ NobodyOnTwoTransfers'
  <2>1. \A s \in Requests : OnBoard(s)' \subseteq OnBoard(s)
    BY <1>4 DEF OnBoard
  <2>2. QED
    BY <1>1, <1>4, <2>1, Shrinking
<1>5. ASSUME UNCHANGED <<transfer, staff, asked>>, handler' = handler
      PROVE  Findings' /\ NobodyOnTwoTransfers'
  BY <1>1, <1>2, <1>4, <1>5 DEF Findings
<1>6. ASSUME UNCHANGED <<transfer, staff, asked>>,
             handler'.pc \in {"idle", "check", "save", "cancel", "prepare", "revert"}
      PROVE  Findings' /\ NobodyOnTwoTransfers'
  BY <1>4, <1>6
<1>7. ASSUME NEW r \in Requests, Creates(r) \/ Submits(r) \/ Passes(r)
      PROVE  Findings' /\ NobodyOnTwoTransfers'
  BY <1>5, <1>7 DEF Creates, Submits, Writes, Passes
<1>8. CASE Approves \/ Refuses
  <2>1. handler'.pc \in {"check", "save"}
    BY <1>8, RequestAssumption DEF Approves, Refuses, Starts, Rest
  <2>2. QED
    BY <1>6, <1>8, <2>1 DEF Approves, Refuses, Starts
<1>9. CASE Checks
  <2>1. handler'.pc \in {"idle", "save"}
    BY <1>2, <1>3, <1>9 DEF Checks, Ends, To, HandlerType
  <2>2. QED
    BY <1>6, <1>9, <2>1 DEF Checks
<1>10. CASE Saves
  <2>1. handler'.pc \in {"prepare", "cancel"}
    BY <1>2, <1>10 DEF Saves, AfterSave, To, HandlerType
  <2>2. QED
    BY <1>6, <1>10, <2>1 DEF Saves
<1>11. CASE CancelsTransfer
  <2>1. handler'.pc = "idle"
    BY <1>3, <1>11 DEF CancelsTransfer, Ends
  <2>2. QED
    BY <1>1, <1>2, <1>6, <1>11, <2>1, CancelSafe DEF CancelsTransfer
<1>12. CASE Prepares
  <2>1. CASE UNCHANGED transfer /\ handler'.pc = "revert"
    BY <1>6, <1>12, <2>1 DEF Prepares
  <2>2. CASE /\ handler' = [handler EXCEPT !.pc = "staff"]
             /\ transfer' = [transfer EXCEPT ![handler.r] = IF transfer[handler.r] = "NONE"
                                       THEN "PENDING_DEPARTURE" ELSE transfer[handler.r]]
    <3>1. handler'.pc = "staff" /\ handler'.r = handler.r
      BY <1>2, <2>2 DEF HandlerType
    <3>2. \A s \in Requests : OnBoard(s)' = OnBoard(s)
      BY <1>12 DEF Prepares, OnBoard
    <3>3. \A s \in Requests : transfer'[s] \in Active => transfer[s] \in Active \/ OnBoard(s) = {}
      BY <1>1, <1>2, <2>2 DEF Findings, TypeOK
    <3>4. \A r, s \in Requests : r # s /\ transfer[r] \in Active /\ transfer[s] \in Active
                                   => OnBoard(r) \cap OnBoard(s) = {}
      BY <1>1, Apart
    <3>5. \A r, s \in Requests : r # s /\ transfer'[r] \in Active /\ transfer'[s] \in Active
                                   => OnBoard(r)' \cap OnBoard(s)' = {}
      BY <3>2, <3>3, <3>4
    <3>6. NobodyOnTwoTransfers'
      BY <3>5 DEF NobodyOnTwoTransfers, OnBoard
    <3>7. transfer'[handler'.r] # "NONE" /\ \A s \in Requests : transfer'[s] = "NONE" => transfer[s] = "NONE"
      BY <1>1, <1>2, <2>2, <3>1 DEF TypeOK
    <3>8. \A s \in Requests : transfer'[s] = "NONE" => OnBoard(s)' = {}
      BY <1>1, <3>2, <3>7 DEF Findings
    <3>9. QED
      BY <3>1, <3>6, <3>7, <3>8 DEF Findings
  <2>3. QED
    BY <1>2, <1>12, <2>1, <2>2 DEF Prepares, To, HandlerType
<1>13. CASE ChecksStaff
  <2>1. CASE handler' = [handler EXCEPT !.pc = "revert"]
    <3>1. handler'.pc = "revert"
      BY <1>2, <2>1 DEF HandlerType
    <3>2. QED
      BY <1>6, <1>13, <3>1 DEF ChecksStaff
  <2>2. CASE AtHand(handler.people, handler.r) /\ handler' = [handler EXCEPT !.pc = "assign"]
    <3>1. handler'.pc = "assign" /\ handler'.r = handler.r /\ handler'.people = handler.people
      BY <1>2, <2>2 DEF HandlerType
    <3>2. transfer[handler.r] # "NONE"
      BY <1>1, <1>13 DEF ChecksStaff, At, Findings
    <3>3. QED
      BY <1>2, <1>4, <1>13, <2>2, <3>1, <3>2 DEF ChecksStaff, AtHand
  <2>3. QED
    BY <1>13, <2>1, <2>2 DEF ChecksStaff, To
<1>14. CASE Assigns
  <2>1. handler'.pc = "manifest" /\ handler'.r = handler.r
    BY <1>2, <1>14 DEF Assigns, To, HandlerType
  <2>2. ~Busy(handler.people, handler.r) /\ transfer[handler.r] # "NONE"
    BY <1>1, <1>14 DEF Assigns, At, Findings
  <2>3. PICK q \in Requests : q = handler.r
    BY <1>2
  <2>4. PICK ps \in SUBSET People : ps = handler.people
    BY <1>2
  <2>5. staff' = Adding(staff, q, ps) /\ asked' = asked /\ transfer' = transfer
    BY <1>14, <2>3, <2>4 DEF Assigns
  <2>6. /\ Live(Adding(staff, q, ps), q) \subseteq Live(staff, q) \cup ps
        /\ \A s \in Requests \ {q} : Live(Adding(staff, q, ps), s) = Live(staff, s)
    BY <1>2, RowsOnBoard
  <2>7. /\ OnBoard(q)' \subseteq OnBoard(q) \cup ps
        /\ \A s \in Requests \ {q} : OnBoard(s)' = OnBoard(s)
    BY <2>5, <2>6 DEF OnBoard, Live
  <2>8. QED
    BY <1>1, <2>1, <2>2, <2>3, <2>4, <2>5, <2>7, Growing
<1>15. CASE FillsManifest
  <2>1. CASE UNCHANGED asked /\ To("revert")
    <3>1. handler'.pc = "revert"
      BY <1>2, <2>1 DEF To, HandlerType
    <3>2. QED
      BY <1>6, <1>15, <2>1, <3>1 DEF FillsManifest
  <2>2. ASSUME NEW ps \in Chosen(handler.r), asked' = Adding(asked, handler.r, ps), To("rations")
        PROVE  Findings' /\ NobodyOnTwoTransfers'
    <3>1. handler'.pc = "rations" /\ handler'.r = handler.r
      BY <1>2, <2>2 DEF To, HandlerType
    <3>2. ps \in SUBSET People /\ \A s \in Requests : transfer[s] \in Active =>
             ps \cap (Listed(staff, s) \cup Listed(asked, s)) = {}
      BY <2>2 DEF Chosen, Free
    <3>3. \A s \in Requests : OnBoard(s) \subseteq Listed(staff, s) \cup Listed(asked, s)
      BY DEF OnBoard, Live, Listed
    <3>4. ~Busy(ps, handler.r)
      BY <3>2, <3>3 DEF Busy, OnBoard
    <3>5. transfer[handler.r] # "NONE"
      BY <1>1, <1>15 DEF FillsManifest, At, Findings
    <3>6. PICK q \in Requests : q = handler.r
      BY <1>2
    <3>7. asked' = Adding(asked, q, ps) /\ staff' = staff /\ transfer' = transfer
      BY <1>15, <2>2, <3>6 DEF FillsManifest
    <3>8. /\ Live(Adding(asked, q, ps), q) \subseteq Live(asked, q) \cup ps
          /\ \A s \in Requests \ {q} : Live(Adding(asked, q, ps), s) = Live(asked, s)
      BY <1>2, <3>2, RowsOnBoard
    <3>9. /\ OnBoard(q)' \subseteq OnBoard(q) \cup ps
          /\ \A s \in Requests \ {q} : OnBoard(s)' = OnBoard(s)
      BY <3>7, <3>8 DEF OnBoard, Live
    <3>10. QED
      BY <1>1, <3>1, <3>4, <3>5, <3>6, <3>7, <3>9, Growing
  <2>3. QED
    BY <1>15, <2>1, <2>2 DEF FillsManifest
<1>16. CASE ChecksRations
  <2>1. handler'.pc \in {"idle", "revert"}
    BY <1>2, <1>3, <1>16 DEF ChecksRations, Ends, To, HandlerType
  <2>2. QED
    BY <1>6, <1>16, <2>1 DEF ChecksRations
<1>17. CASE Reverts
  BY <1>3, <1>6, <1>17 DEF Reverts, Ends
<1>18. CASE ChangesStaff
  <2>1. PICK r \in Requests, ps \in SUBSET People :
             /\ transfer[r] = "PENDING_DEPARTURE" /\ AtHand(ps, r)
             /\ Starts([Rest EXCEPT !.pc = "replace", !.r = r, !.people = ps])
    BY <1>18, RequestAssumption DEF ChangesStaff
  <2>2. handler'.pc = "replace" /\ handler'.r = r /\ handler'.people = ps
    BY <2>1 DEF Starts, Rest
  <2>3. QED
    BY <1>4, <2>1, <2>2 DEF Starts, AtHand
<1>19. CASE Replaces
  <2>1. handler'.pc = "idle"
    BY <1>3, <1>19 DEF Replaces, Ends
  <2>2. ~Busy(handler.people, handler.r) /\ transfer[handler.r] # "NONE"
    BY <1>1, <1>19 DEF Replaces, At, Findings
  <2>3. PICK q \in Requests : q = handler.r
    BY <1>2
  <2>4. PICK ps \in SUBSET People : ps = handler.people
    BY <1>2
  <2>5. /\ staff' = staff \/ staff' = Replacing(staff, q, ps)
        /\ asked' = asked /\ transfer' = transfer
    BY <1>19, <2>3, <2>4 DEF Replaces
  <2>6. /\ Live(Replacing(staff, q, ps), q) \subseteq ps
        /\ \A s \in Requests \ {q} : Live(Replacing(staff, q, ps), s) = Live(staff, s)
    BY <1>2, RowsOnBoard
  <2>7. /\ OnBoard(q)' \subseteq OnBoard(q) \cup ps
        /\ \A s \in Requests \ {q} : OnBoard(s)' = OnBoard(s)
    BY <2>5, <2>6 DEF OnBoard, Live
  <2>8. QED
    BY <1>1, <2>1, <2>2, <2>3, <2>4, <2>5, <2>7, Growing
<1>20. ASSUME NEW r \in Requests, Departs(r) \/ PutsBack(r) \/ Completes(r)
       PROVE  Findings' /\ NobodyOnTwoTransfers'
  <2>1. handler' = handler /\ \A s \in Requests : OnBoard(s)' = OnBoard(s)
    BY <1>20 DEF Departs, PutsBack, Completes, OnBoard
  <2>2. transfer[r] \in Active
    BY <1>20 DEF Departs, PutsBack, Completes, MayLeave, Active
  <2>3. \A s \in Requests : \/ transfer'[s] = transfer[s]
                            \/ s = r /\ transfer'[s] \in {"IN_TRANSIT", "PENDING_DEPARTURE", "COMPLETED"}
    <3>1. \/ transfer' = [transfer EXCEPT ![r] = "IN_TRANSIT"]
          \/ transfer' = [transfer EXCEPT ![r] = "PENDING_DEPARTURE"]
          \/ transfer' = [transfer EXCEPT ![r] = "COMPLETED"]
      BY <1>20 DEF Departs, PutsBack, Completes
    <3>2. DOMAIN transfer = Requests
      BY <1>1 DEF TypeOK
    <3>3. QED
      BY <3>1, <3>2
  <2>4. /\ \A s \in Requests : transfer'[s] \in Active => transfer[s] \in Active
        /\ \A s \in Requests : transfer'[s] = "NONE" => transfer[s] = "NONE"
        /\ \A s \in Requests : transfer[s] # "NONE" => transfer'[s] # "NONE"
    BY <2>2, <2>3
  <2>5. handler'.pc \in {"staff", "assign", "manifest", "rations", "replace"} =>
            handler'.r \in Requests /\ transfer[handler'.r] # "NONE"
    BY <1>1, <1>2, <2>1 DEF Findings
  <2>6. handler'.pc \in {"assign", "replace"} => ~Busy(handler'.people, handler'.r)
    BY <1>1, <2>1 DEF Findings
  <2>7. QED
    BY <1>1, <2>1, <2>4, <2>5, <2>6, Shrinking
<1>21. ASSUME NEW r \in Requests, Cancels(r)
       PROVE  Findings' /\ NobodyOnTwoTransfers'
  BY <1>1, <1>21, CancelSafe DEF Cancels
<1>22. CASE Stops
  BY <1>3, <1>6, <1>22 DEF Stops, Ends
<1>23. CASE UNCHANGED vars
  BY <1>5, <1>23 DEF vars
<1>24. QED
  BY <1>7, <1>8, <1>9, <1>10, <1>11, <1>12, <1>13, <1>14, <1>15, <1>16, <1>17, <1>18,
     <1>19, <1>20, <1>21, <1>22, <1>23 DEF Next, Serves

\* Nobody is on two transfers under way at once, whatever the requests ask for and
\* however approvals fail, staff is changed, transfers move and the server stops.
THEOREM OneTransferAtATime == Spec => []NobodyOnTwoTransfers
<1>1. Init => IInv
  BY InitType, InitSafe DEF IInv
<1>2. IInv /\ [Next]_vars => IInv'
  <2> SUFFICES ASSUME IInv, [Next]_vars PROVE IInv'
    OBVIOUS
  <2>1. TypeOK'
    BY StepType DEF IInv
  <2>2. QED
    BY <2>1, StepSafe DEF IInv
<1>3. IInv => NobodyOnTwoTransfers
  BY DEF IInv
<1>4. QED
  BY <1>1, <1>2, <1>3, PTL DEF Spec

-----------------------------------------------------------------------------
\* Where the handler is when a transfer waits for a request that was refused and was
\* not put back since, and what it knows of its request on the way there.
Approving == {"prepare", "staff", "assign", "manifest", "rations", "revert"}

RefusedWaits(r) == request[r] \in Refused /\ transfer[r] = "PENDING_DEPARTURE" /\ r \notin putBack

Kept ==
    /\ \A r \in Requests : RefusedWaits(r) => handler.pc = "cancel" /\ handler.r = r
    /\ handler.pc = "prepare" => request[handler.r] = "APPROVED"
    /\ handler.pc \in Approving => handler.status = "APPROVED"
    /\ handler.pc \in Approving \cup {"save"} /\ handler.status = "APPROVED"
         => handler.existing = "PENDING"
    /\ handler.pc = "check" => handler.status \in Refused

\* Steps that only move the handler, or the transfers.
LEMMA KeptOtherwise ==
    ASSUME Kept, UNCHANGED request,
           \A r \in Requests : RefusedWaits(r)' => RefusedWaits(r),
           \/ handler' = handler
           \/ /\ \A r \in Requests : ~RefusedWaits(r)'
              /\ \/ handler'.pc \notin Approving \cup {"save", "check"}
                 \/ handler'.pc = "check" /\ handler'.status \in Refused
                 \/ /\ handler'.pc \in (Approving \ {"prepare"}) \cup {"save"}
                    /\ handler'.pc \in Approving => handler'.status = "APPROVED"
                    /\ handler'.status = "APPROVED" => handler'.existing = "PENDING"
    PROVE  Kept'
<1>1. CASE handler' = handler
  BY <1>1 DEF Kept
<1>2. CASE \A r \in Requests : ~RefusedWaits(r)'
  <2>2. CASE handler' = handler
    BY <1>1, <2>2
  <2>3. CASE handler'.pc \notin Approving \cup {"save", "check"}
    BY <1>2, <2>3 DEF Kept, Approving
  <2>4. CASE handler'.pc = "check" /\ handler'.status \in Refused
    BY <1>2, <2>4 DEF Kept, Approving
  <2>5. CASE /\ handler'.pc \in (Approving \ {"prepare"}) \cup {"save"}
             /\ handler'.pc \in Approving => handler'.status = "APPROVED"
             /\ handler'.status = "APPROVED" => handler'.existing = "PENDING"
    BY <1>2, <2>5 DEF Kept, Approving
  <2>6. QED
    BY <2>2, <2>3, <2>4, <2>5
<1>3. QED
  BY <1>1, <1>2

LEMMA InitKept == Init => Kept
BY DEF Init, Rest, Kept, RefusedWaits, Approving, Refused

LEMMA StepKept ==
    ASSUME TypeOK, ~stopped => Kept, [Next]_vars
    PROVE  ~stopped' => Kept'
<1> USE DEF notes, manifest, goods, tables
<1> SUFFICES ASSUME ~stopped' PROVE Kept'
  OBVIOUS
<1>1. handler \in HandlerType /\ handler.r \in Requests /\ Rest.pc = "idle"
  BY DEF TypeOK, HandlerType, Rest
<1>2. CASE Stops
  BY <1>2 DEF Stops
<1> SUFFICES ASSUME UNCHANGED stopped PROVE Kept'
  BY <1>2 DEF Next, Serves, Creates, Submits, Writes, Approves, Refuses, Starts, Checks, Saves,
     CancelsTransfer, Prepares, ChecksStaff, Assigns, FillsManifest, ChecksRations, Reverts,
     ChangesStaff, Replaces, Passes, Departs, PutsBack, Completes, Cancels, vars
<1>3. Kept
  OBVIOUS
<1>4. handler.pc # "cancel" => \A r \in Requests : ~RefusedWaits(r)
  BY <1>3 DEF Kept
<1>19. UNCHANGED <<request, transfer, putBack>> => \A r \in Requests : RefusedWaits(r)' = RefusedWaits(r)
  BY DEF RefusedWaits
<1>5. DOMAIN transfer = Requests /\ DOMAIN request = Requests
  BY DEF TypeOK
<1>6. ASSUME NEW r \in Requests, Creates(r) \/ Submits(r)
      PROVE  Kept'
  <2>1. request' = [request EXCEPT ![r] = "DRAFT"] \/ request' = [request EXCEPT ![r] = "PENDING"]
    BY <1>6 DEF Creates, Submits, Writes
  <2>2. UNCHANGED <<handler, transfer, putBack>> /\ handler.pc = "idle"
    BY <1>6 DEF Creates, Submits, Writes, At
  <2>4. \A s \in Requests : RefusedWaits(s)' => RefusedWaits(s)
    BY <1>5, <2>1, <2>2 DEF RefusedWaits, Refused
  <2>3. QED
    BY <1>3, <2>2, <2>4 DEF Kept, Approving
<1>7. CASE Approves
  <2>1. handler'.pc = "save" /\ handler'.existing = "PENDING" /\ handler.pc = "idle"
    BY <1>7, RequestAssumption DEF Approves, Starts, Rest, At
  <2>2. QED
    BY <1>3, <1>4, <1>7, <1>19, <2>1, KeptOtherwise DEF Approves, Starts, Approving
<1>8. CASE Refuses \/ ChangesStaff
  <2>1. /\ handler.pc = "idle"
        /\ handler'.pc = "replace" \/ (handler'.pc = "check" /\ handler'.status \in Refused)
    BY <1>8, RequestAssumption DEF Refuses, ChangesStaff, Starts, Rest, At
  <2>2. UNCHANGED <<request, transfer, putBack>>
    BY <1>8 DEF Refuses, ChangesStaff, Starts
  <2>3. QED
    BY <1>3, <1>4, <1>19, <2>1, <2>2, KeptOtherwise DEF Approving
<1>9. CASE Saves
  <2>1. CASE handler.status = "APPROVED"
    <3>1. /\ handler'.pc = "prepare" /\ handler'.status = "APPROVED" /\ handler'.r = handler.r
          /\ handler'.existing = handler.existing
      BY <1>1, <1>9, <2>1 DEF Saves, AfterSave, To, HandlerType
    <3>2. handler.existing = "PENDING"
      BY <1>3, <1>9, <2>1 DEF Saves, At, Kept
    <3>3. /\ request' = [request EXCEPT ![handler.r] = "APPROVED"] /\ UNCHANGED transfer
          /\ putBack' = putBack \ {handler.r} /\ handler.pc = "save"
      BY <1>9, <2>1 DEF Saves, At
    <3>4. request'[handler'.r] = "APPROVED"
      BY <1>1, <1>5, <3>1, <3>3
    <3>5. \A r \in Requests : RefusedWaits(r)' => RefusedWaits(r)
      BY <1>5, <3>3 DEF RefusedWaits, Refused
    <3>6. QED
      BY <1>4, <3>1, <3>2, <3>3, <3>4, <3>5 DEF Kept, Approving
  <2>2. CASE handler.status # "APPROVED"
    <3>1. handler'.pc = "cancel" /\ handler'.r = handler.r
      BY <1>1, <1>9, <2>2 DEF Saves, AfterSave, To, HandlerType
    <3>2. /\ request' = [request EXCEPT ![handler.r] = handler.status] /\ UNCHANGED transfer
          /\ putBack' = putBack \ {handler.r} /\ handler.pc = "save"
      BY <1>9 DEF Saves, At
    <3>3. \A r \in Requests : RefusedWaits(r)' => RefusedWaits(r) \/ r = handler.r
      BY <1>5, <3>2 DEF RefusedWaits
    <3>4. QED
      BY <1>4, <3>1, <3>2, <3>3 DEF Kept, Approving
  <2>3. QED
    BY <2>1, <2>2
<1>10. CASE CancelsTransfer
  <2>1. handler'.pc = "idle" /\ UNCHANGED <<request, putBack>> /\ handler.pc = "cancel"
    BY <1>1, <1>10 DEF CancelsTransfer, Ends, At
  <2>2. PICK q \in Requests : q = handler.r
    BY <1>1
  <2>3. \/ transfer[q] = "PENDING_DEPARTURE" /\ transfer' = [transfer EXCEPT ![q] = "CANCELED"]
        \/ transfer[q] # "PENDING_DEPARTURE" /\ UNCHANGED transfer
    BY <1>10, <2>2 DEF CancelsTransfer, CancelTransfer
  <2>4. /\ transfer'[q] # "PENDING_DEPARTURE"
        /\ \A r \in Requests : transfer'[r] = "PENDING_DEPARTURE" => transfer[r] = "PENDING_DEPARTURE"
    BY <1>5, <2>3
  <2>5. \A r \in Requests : ~RefusedWaits(r)'
    BY <1>3, <2>1, <2>2, <2>4 DEF Kept, RefusedWaits
  <2>6. QED
    BY <1>3, <2>1, <2>5, KeptOtherwise DEF Approving
<1>11. CASE Prepares
  <2>1. handler'.pc \in {"staff", "revert"} /\ handler'.status = handler.status
        /\ handler'.existing = handler.existing /\ handler.pc = "prepare" /\ UNCHANGED <<request, putBack>>
    BY <1>1, <1>11 DEF Prepares, To, At, HandlerType
  <2>2. PICK q \in Requests : q = handler.r
    BY <1>1
  <2>3. request[q] = "APPROVED" /\ handler.status = "APPROVED" /\ handler.existing = "PENDING"
    BY <1>3, <2>1, <2>2 DEF Kept, Approving
  <2>4. \A r \in Requests : transfer'[r] = transfer[r] \/ r = q
    BY <1>5, <1>11, <2>2 DEF Prepares
  <2>5. \A r \in Requests : ~RefusedWaits(r)'
    BY <1>4, <2>1, <2>3, <2>4 DEF Refused, RefusedWaits
  <2>6. QED
    BY <2>1, <2>3, <2>5 DEF Kept, Approving
<1>12. CASE Checks
  <2>1. /\ handler.pc = "check" /\ UNCHANGED <<request, transfer, putBack>>
        /\ handler'.pc = "idle" \/ (handler'.pc = "save" /\ handler'.status = handler.status)
    BY <1>1, <1>12 DEF Checks, At, Ends, To, HandlerType
  <2>2. handler.status # "APPROVED"
    BY <1>3, <2>1 DEF Kept, Refused
  <2>3. QED
    BY <1>3, <1>4, <1>19, <2>1, <2>2, KeptOtherwise DEF Approving
<1>13. CASE ChecksStaff \/ Assigns \/ FillsManifest \/ ChecksRations
  <2>1. /\ handler.pc \in Approving /\ UNCHANGED <<request, transfer, putBack>> /\ handler.pc # "cancel"
        /\ \/ handler'.pc = "idle"
           \/ /\ handler'.pc \in Approving \ {"prepare"}
              /\ handler'.status = handler.status /\ handler'.existing = handler.existing
    <3>1. handler.pc \in {"staff", "assign", "manifest", "rations"} /\ UNCHANGED <<request, transfer, putBack>>
      BY <1>13 DEF ChecksStaff, Assigns, FillsManifest, ChecksRations, At
    <3>2. Ends \/ To("assign") \/ To("manifest") \/ To("rations") \/ To("revert")
      BY <1>13 DEF ChecksStaff, Assigns, FillsManifest, ChecksRations
    <3>3. QED
      BY <1>1, <3>1, <3>2 DEF Ends, To, HandlerType, Approving
  <2>2. handler.status = "APPROVED" /\ handler.existing = "PENDING"
    BY <1>3, <2>1 DEF Kept
  <2>3. "idle" \notin Approving \cup {"save", "check"}
    BY DEF Approving
  <2>4. QED
    BY <1>3, <1>4, <1>19, <2>1, <2>2, <2>3, KeptOtherwise
<1>14. CASE Reverts
  <2>1. handler.pc = "revert" /\ handler'.pc = "idle" /\ UNCHANGED <<transfer, putBack>>
    BY <1>1, <1>14 DEF Reverts, At, Ends
  <2>2. handler.existing = "PENDING"
    BY <1>3, <2>1 DEF Kept, Approving
  <2>3. request' = [request EXCEPT ![handler.r] = "PENDING"]
    BY <1>14, <2>2 DEF Reverts, Reverted
  <2>4. \A r \in Requests : RefusedWaits(r)' => RefusedWaits(r)
    BY <1>5, <2>1, <2>3 DEF RefusedWaits, Refused
  <2>5. QED
    BY <1>4, <2>1, <2>4 DEF Kept, Approving
<1>15. CASE Replaces
  <2>1. handler.pc = "replace" /\ handler'.pc = "idle" /\ UNCHANGED <<request, transfer, putBack>>
    BY <1>1, <1>15 DEF Replaces, At, Ends
  <2>2. QED
    BY <1>3, <1>4, <1>19, <2>1, KeptOtherwise DEF Approving
<1>16. ASSUME NEW r \in Requests, Passes(r) \/ Departs(r) \/ PutsBack(r) \/ Completes(r) \/ Cancels(r)
       PROVE  Kept'
  <2>1. UNCHANGED <<handler, request>> /\ putBack \subseteq putBack'
    BY <1>16 DEF Passes, Departs, PutsBack, Completes, Cancels
  <2>2. \/ UNCHANGED transfer
        \/ \E status \in {"IN_TRANSIT", "COMPLETED", "CANCELED"} :
              transfer' = [transfer EXCEPT ![r] = status]
        \/ transfer' = [transfer EXCEPT ![r] = "PENDING_DEPARTURE"] /\ r \in putBack'
    BY <1>16 DEF Passes, Departs, PutsBack, Completes, Cancels, CancelTransfer
  <2>3. \A s \in Requests : RefusedWaits(s)' => RefusedWaits(s)
    BY <1>5, <2>1, <2>2 DEF RefusedWaits
  <2>4. QED
    BY <1>3, <2>1, <2>3, KeptOtherwise
<1>17. CASE UNCHANGED vars
  BY <1>3, <1>17, <1>19, KeptOtherwise DEF vars
<1>18. QED
  BY <1>2, <1>6, <1>7, <1>8, <1>9, <1>10, <1>11, <1>12, <1>13, <1>14, <1>15, <1>16, <1>17
     DEF Next, Serves

\* As long as the server does not stop half-way, no transfer waits to leave for a
\* request that was refused, however often its approval had failed or its transfer was
\* put back before; only one that is put back after the refusal does.
THEOREM RefusalsCancel == Spec => []RefusedDoesNotLeave
<1>1. Init => TypeOK /\ (~stopped => Kept)
  BY InitType, InitKept
<1>2. TypeOK /\ (~stopped => Kept) /\ [Next]_vars => TypeOK' /\ (~stopped' => Kept')
  BY StepType, StepKept
<1>3. (~stopped => Kept) => RefusedDoesNotLeave
  BY DEF Kept, RefusedWaits, RefusedDoesNotLeave, Resting, At
<1>4. QED
  BY <1>1, <1>2, <1>3, PTL DEF Spec


-----------------------------------------------------------------------------
\* Nobody is taken off the staff of a transfer on its way: a replacement that was
\* decided before the departure finds the transfer gone, whatever else is under way.
THEOREM NobodyIsLeft == Spec => NobodyLeftBehind
<1>1. ASSUME TypeOK, [Next]_vars, NEW r \in Requests,
             transfer[r] = "IN_TRANSIT", transfer'[r] # "CANCELED"
      PROVE  Live(staff, r) \subseteq Live(staff', r)
  <2>0. /\ staff \in Rows /\ handler.r \in Requests /\ handler.people \in SUBSET People
        /\ DOMAIN transfer = Requests
    BY <1>1 DEF TypeOK, HandlerType
  <2>1. CASE staff' = staff
    BY <2>1
  <2>2. CASE CancelsTransfer \/ \E s \in Requests : Cancels(s)
    <3>1. CASE staff' # staff
      <4>1. PICK s \in Requests : CancelTransfer(s)
        BY <2>0, <2>2, <3>1 DEF CancelsTransfer, Cancels, manifest
      <4>2. s # r
        BY <1>1, <2>0, <4>1 DEF CancelTransfer
      <4>3. {} \in SUBSET People
        OBVIOUS
      <4>4. Live(Canceling(staff, s), r) = Live(staff, r)
        BY <2>0, <4>2, <4>3, RowsOnBoard
      <4>. QED  BY <4>1, <4>4 DEF CancelTransfer
    <3>. QED  BY <2>1, <3>1
  <2>3. CASE Assigns
    <3>1. staff' = Adding(staff, handler.r, handler.people) /\ DOMAIN staff = Requests
      BY <2>0, <2>3 DEF Assigns, Rows
    <3>. QED  BY <2>0, <3>1 DEF Adding, Live
  <2>4. CASE Replaces
    <3>1. PICK q \in Requests, ps \in SUBSET People :
             staff' = IF transfer[q] = "PENDING_DEPARTURE" THEN Replacing(staff, q, ps) ELSE staff
      BY <2>0, <2>4 DEF Replaces, Locked
    <3>2. CASE q = r
      BY <1>1, <3>1, <3>2
    <3>3. CASE q # r
      BY <2>0, <3>1, <3>3, RowsOnBoard
    <3>. QED  BY <3>2, <3>3
  <2>. QED  BY <1>1, <2>1, <2>2, <2>3, <2>4
            DEF Next, Serves, Creates, Submits, Writes, Approves, Refuses, Starts, Checks, Saves,
                Prepares, ChecksStaff, FillsManifest, ChecksRations, Reverts, ChangesStaff,
                Passes, Departs, PutsBack, Completes, Stops, vars, tables, manifest
<1>2. TypeOK /\ [Next]_vars =>
        [\A r \in Requests : transfer[r] = "IN_TRANSIT" /\ transfer'[r] # "CANCELED" =>
              Live(staff, r) \subseteq Live(staff', r)]_vars
  BY <1>1
<1>. QED  BY <1>2, InitType, StepType, PTL DEF Spec, NobodyLeftBehind


-----------------------------------------------------------------------------
(* The refinement of RequestLifecycle.                                     *)

Empty(rows, r) == \A p \in People : rows[r][p] = "none"

Waits(r) == transfer[r] \in Active /\ r \notin failed

\* As Prepared, and so while the transfer is on its way, when it may be put back.
Staffed(r) == transfer[r] # "NONE" /\ (Waits(r) => HasItsPeople(r))

\* What is so of every request: it has a transfer only once it was approved, which has
\* rows only then, and an approval that is over has left its transfer prepared.
Answered ==
    \A r \in Requests :
        /\ transfer[r] = "NONE" => Empty(staff, r) /\ Empty(asked, r)
        /\ r \notin failed /\ request[r] \in {"NEW", "DRAFT", "PENDING"} => transfer[r] = "NONE"
        /\ request[r] = "APPROVED" /\ ~Preparing(r) => Staffed(r)

\* What the handler has read of its request and chosen as the answer.
Reading ==
    /\ handler.pc \in {"check", "save"} => request[handler.r] = handler.existing
    /\ handler.pc = "check" => handler.status \in Refused
    /\ handler.pc \in {"check", "save"} =>
          \/ handler.status = "APPROVED" /\ handler.existing = "PENDING"
          \/ handler.status = "REJECTED" /\ handler.existing \in {"PENDING", "APPROVED"}
          \/ handler.status = "CANCELED" /\ handler.existing = "APPROVED"
    /\ handler.pc \in Approving => request[handler.r] = "APPROVED" /\ handler.existing = "PENDING"
    /\ handler.pc = "save" /\ handler.status = "APPROVED" => handler.people # {}
    /\ handler.pc \in {"prepare", "staff", "assign", "replace"} => handler.people # {}

\* How far it is with the first attempt to prepare a transfer.
Progress ==
    LET r == handler.r
    IN  /\ handler.pc = "prepare" /\ r \notin failed => transfer[r] = "NONE"
        /\ handler.pc \in {"staff", "assign", "manifest", "rations"} => transfer[r] # "NONE"
        /\ handler.pc \in {"staff", "assign"} /\ Waits(r) => Empty(staff, r)
        /\ handler.pc = "manifest" /\ Waits(r) => Listed(staff, r) # {}
        /\ handler.pc \in {"staff", "assign", "manifest"} /\ Waits(r) => Empty(asked, r)
        /\ handler.pc = "rations" /\ Waits(r) => HasItsPeople(r)

Story == ~stopped => Answered /\ Reading /\ Progress
\* The handler's record after a step that keeps or drops the rest of it.
LEMMA HandlerMoves ==
    ASSUME TypeOK
    PROVE  /\ \A pc : To(pc) => /\ handler'.pc = pc /\ handler'.r = handler.r
                                /\ handler'.status = handler.status
                                /\ handler'.existing = handler.existing
                                /\ handler'.people = handler.people
           /\ Ends => handler'.pc = "idle"
<1>1. handler \in HandlerType /\ Rest.pc = "idle"
  BY DEF TypeOK, Rest
<1>. QED  BY <1>1 DEF To, Ends, HandlerType

\* A step after which only the handler is elsewhere, in the preparation of no request
\* or the same.
LEMMA AnsweredKept ==
    ASSUME Answered, UNCHANGED <<request, transfer, staff, asked, failed>>,
           \A r \in Requests : Preparing(r) => Preparing(r)'
    PROVE  Answered'
<1>. SUFFICES ASSUME NEW r \in Requests
              PROVE  /\ transfer[r] = "NONE" => Empty(staff, r) /\ Empty(asked, r)
                     /\ r \notin failed /\ request[r] \in {"NEW", "DRAFT", "PENDING"} => transfer[r] = "NONE"
                     /\ request[r] = "APPROVED" /\ ~Preparing(r)' => Staffed(r)'
  BY DEF Answered, Empty
<1>1. Staffed(r) => Staffed(r)'
  BY DEF Staffed, Waits, HasItsPeople, Listed, Live
<1>. QED  BY <1>1 DEF Answered

\* Transfers go on to where nobody waits, and take their rows with them.
LEMMA MovesOn ==
    ASSUME Answered, Progress, UNCHANGED <<request, failed>>,
           \A r \in Requests :
              \/ /\ staff'[r] = staff[r] /\ asked'[r] = asked[r]
                 /\ transfer'[r] = transfer[r] \/ {transfer[r], transfer'[r]} \subseteq Active
              \/ transfer[r] # "NONE" /\ transfer'[r] \notin {"NONE"} \cup Active,
           handler.r \in Requests,
           \/ handler' = handler
           \/ (\A r \in Requests : ~Preparing(r)) /\ handler'.pc = "idle"
    PROVE  Answered' /\ Progress'
<1>1. ASSUME NEW r \in Requests
      PROVE  /\ transfer'[r] = "NONE" => Empty(staff', r) /\ Empty(asked', r)
             /\ r \notin failed /\ request[r] \in {"NEW", "DRAFT", "PENDING"} => transfer'[r] = "NONE"
             /\ request[r] = "APPROVED" /\ ~Preparing(r)' => Staffed(r)'
             /\ transfer[r] # "NONE" => transfer'[r] # "NONE"
             /\ Waits(r)' => /\ Waits(r) /\ staff'[r] = staff[r] /\ asked'[r] = asked[r]
             /\ transfer[r] = "NONE" => transfer'[r] = "NONE"
  <2>1. ~Preparing(r)' => ~Preparing(r)
    BY DEF Preparing
  <2>2. CASE /\ staff'[r] = staff[r] /\ asked'[r] = asked[r]
             /\ transfer'[r] = transfer[r] \/ {transfer[r], transfer'[r]} \subseteq Active
    <3>1. Waits(r)' <=> Waits(r)
      BY <2>2 DEF Waits
    <3>2. HasItsPeople(r) => HasItsPeople(r)'
      BY <2>2 DEF HasItsPeople, Listed, Live
    <3>3. transfer'[r] = "NONE" <=> transfer[r] = "NONE"
      BY <2>2 DEF Active
    <3>4. Staffed(r) => Staffed(r)'
      BY <3>1, <3>2, <3>3 DEF Staffed
    <3>. QED  BY <2>1, <2>2, <3>1, <3>3, <3>4 DEF Answered, Empty
  <2>3. CASE transfer[r] # "NONE" /\ transfer'[r] \notin {"NONE"} \cup Active
    BY <2>3 DEF Answered, Waits, Staffed
  <2>. QED  BY <2>2, <2>3
<1>2. Answered'
  BY <1>1 DEF Answered, Empty
<1>3. Progress'
  <2>1. CASE handler'.pc = "idle"
    BY <2>1 DEF Progress
  <2>2. CASE handler' = handler
    <3>1. PICK r \in Requests : r = handler.r
      OBVIOUS
    <3>2. Waits(r)' => /\ Empty(staff, r) => Empty(staff', r)
                       /\ Empty(asked, r) => Empty(asked', r)
                       /\ Listed(staff', r) = Listed(staff, r)
                       /\ HasItsPeople(r) => HasItsPeople(r)'
      <4>1. Waits(r)' => staff'[r] = staff[r] /\ asked'[r] = asked[r]
        BY <1>1
      <4>2. ASSUME Waits(r)', HasItsPeople(r) PROVE HasItsPeople(r)'
        BY <4>1, <4>2 DEF HasItsPeople, Listed, Live
      <4>3. Waits(r)' => Listed(staff', r) = Listed(staff, r)
        BY <4>1 DEF Listed
      <4>. QED  BY <4>1, <4>2, <4>3 DEF Empty
    <3>3. Progress
      OBVIOUS
    <3>. QED  BY <1>1, <2>2, <3>1, <3>2, <3>3 DEF Progress, Empty
  <2>. QED  BY <2>1, <2>2
<1>. QED  BY <1>2, <1>3


\* While the server does not stop half-way every step keeps the three.
LEMMA StoryStep ==
    ASSUME TypeOK, ~stopped => Answered /\ Reading /\ Progress, [Next]_vars, ~stopped'
    PROVE  Answered' /\ Reading' /\ Progress'
<1>. USE DEF notes, manifest, goods, tables
<1>1. /\ handler \in HandlerType /\ Rest.pc = "idle" /\ staff \in Rows /\ asked \in Rows
      /\ request \in [Requests -> Statuses] /\ DOMAIN transfer = Requests
      /\ DOMAIN staff = Requests /\ DOMAIN asked = Requests
  BY DEF TypeOK, Rest, Rows
<1>2. PICK q \in Requests, ps \in SUBSET People : q = handler.r /\ ps = handler.people
  BY <1>1 DEF HandlerType
<1>3. CASE Stops
  BY <1>3 DEF Stops
<1>. SUFFICES ASSUME UNCHANGED stopped PROVE Answered' /\ Reading' /\ Progress'
  BY <1>3 DEF Next, Serves, Creates, Submits, Writes, Approves, Refuses, Starts, Checks, Saves,
     CancelsTransfer, Prepares, ChecksStaff, Assigns, FillsManifest, ChecksRations, Reverts,
     ChangesStaff, Replaces, Passes, Departs, PutsBack, Completes, Cancels, vars
<1>4. Answered /\ Reading /\ Progress
  OBVIOUS
<1>5. /\ \A pc : To(pc) => /\ handler'.pc = pc /\ handler'.r = handler.r
                           /\ handler'.status = handler.status
                           /\ handler'.existing = handler.existing
                           /\ handler'.people = handler.people
      /\ Ends => handler'.pc = "idle"
  BY HandlerMoves
<1>6. handler.pc \in {"idle", "check", "save", "cancel", "replace"} => \A r \in Requests : ~Preparing(r)
  BY DEF Preparing
<1>7. handler'.pc = "idle" => Reading' /\ Progress'
  BY DEF Reading, Progress, Approving
<1>8. ASSUME NEW r \in Requests, Creates(r) \/ Submits(r)
      PROVE  Answered' /\ Reading' /\ Progress'
  <2>1. /\ handler.pc = "idle" /\ UNCHANGED <<handler, transfer, staff, asked, failed>>
        /\ request[r] \in {"NEW", "DRAFT"}
        /\ request'[r] \in {"DRAFT", "PENDING"}
        /\ \A s \in Requests \ {r} : request'[s] = request[s]
    BY <1>1, <1>8 DEF Creates, Submits, Writes, At
  <2>2. \A s \in Requests : ~Preparing(s) /\ ~Preparing(s)'
    BY <2>1 DEF Preparing
  <2>3. \A s \in Requests : Staffed(s) => Staffed(s)'
    BY <2>1 DEF Staffed, Waits, HasItsPeople, Listed, Live
  <2>4. Answered'
    <3>. SUFFICES ASSUME NEW s \in Requests
                  PROVE  /\ transfer[s] = "NONE" => Empty(staff, s) /\ Empty(asked, s)
                         /\ s \notin failed /\ request'[s] \in {"NEW", "DRAFT", "PENDING"} => transfer[s] = "NONE"
                         /\ request'[s] = "APPROVED" => Staffed(s)'
      BY <2>1 DEF Answered, Empty
    <3>1. CASE s = r
      BY <1>4, <2>1, <3>1 DEF Answered
    <3>2. CASE s # r
      BY <1>4, <2>1, <2>2, <2>3, <3>2 DEF Answered
    <3>. QED  BY <3>1, <3>2
  <2>. QED  BY <1>7, <2>1, <2>4
<1>9. CASE Approves \/ Refuses \/ ChangesStaff
  <2>1. handler.pc = "idle" /\ UNCHANGED <<request, transfer, staff, asked, failed>>
    BY <1>9 DEF Approves, Refuses, ChangesStaff, Starts, At
  <2>2. Answered'
    BY <1>4, <1>6, <2>1, AnsweredKept
  <2>3. CASE Approves
    <3>1. PICK r \in Requests : \E crew \in Crews[r] :
               /\ request[r] = "PENDING"
               /\ handler' = [Rest EXCEPT !.pc = "save", !.r = r, !.status = "APPROVED",
                                          !.existing = "PENDING", !.people = crew]
      BY <2>3 DEF Approves, Starts
    <3>2. /\ handler'.pc = "save" /\ handler'.r = r /\ handler'.status = "APPROVED"
          /\ handler'.existing = "PENDING" /\ handler'.people # {}
      BY <3>1, RequestAssumption DEF Rest
    <3>. QED  BY <2>1, <2>2, <3>1, <3>2 DEF Reading, Progress, Approving
  <2>4. CASE Refuses
    <3>1. PICK r \in Requests, status \in Refused :
               /\ MayRefuse(r, status)
               /\ handler' = [Rest EXCEPT !.pc = "check", !.r = r, !.status = status, !.existing = request[r]]
      BY <2>4 DEF Refuses, Starts
    <3>2. /\ handler'.pc = "check" /\ handler'.r = r /\ handler'.status = status
          /\ handler'.existing = request[r]
      BY <3>1 DEF Rest
    <3>. QED  BY <2>1, <2>2, <3>1, <3>2 DEF Reading, Progress, Approving, MayRefuse, Refused
  <2>5. CASE ChangesStaff
    <3>1. PICK r \in Requests : \E crew \in Crews[r] :
               handler' = [Rest EXCEPT !.pc = "replace", !.r = r, !.people = crew]
      BY <2>5 DEF ChangesStaff, Starts
    <3>2. handler'.pc = "replace" /\ handler'.people # {}
      BY <3>1, RequestAssumption DEF Rest
    <3>. QED  BY <2>2, <3>2 DEF Reading, Progress, Approving
  <2>. QED  BY <1>9, <2>3, <2>4, <2>5
<1>10. CASE Checks
  <2>1. /\ handler.pc = "check" /\ UNCHANGED <<request, transfer, staff, asked, failed>>
        /\ Ends \/ To("save")
    BY <1>10 DEF Checks, At
  <2>2. Answered'
    BY <1>4, <1>6, <2>1, AnsweredKept
  <2>3. CASE To("save")
    BY <1>4, <1>5, <2>1, <2>2, <2>3 DEF Reading, Progress, Approving, Refused
  <2>. QED  BY <1>5, <1>7, <2>1, <2>2, <2>3
<1>11. CASE Saves
  <2>1. /\ handler.pc = "save" /\ UNCHANGED <<transfer, staff, asked, failed>>
        /\ request' = [request EXCEPT ![q] = handler.status]
        /\ To(AfterSave(handler.status)) /\ request[q] = handler.existing
    BY <1>2, <1>4, <1>11 DEF Saves, At, Reading
  <2>2. /\ request'[q] = handler.status
        /\ \A s \in Requests \ {q} : request'[s] = request[s]
    BY <1>1, <2>1
  <2>3. \A s \in Requests : Staffed(s) => Staffed(s)'
    BY <2>1 DEF Staffed, Waits, HasItsPeople, Listed, Live
  <2>4. ASSUME NEW s \in Requests, s # q
        PROVE  /\ transfer[s] = "NONE" => Empty(staff, s) /\ Empty(asked, s)
               /\ s \notin failed /\ request'[s] \in {"NEW", "DRAFT", "PENDING"} => transfer[s] = "NONE"
               /\ request'[s] = "APPROVED" /\ ~Preparing(s)' => Staffed(s)'
    BY <1>4, <1>6, <2>1, <2>2, <2>3, <2>4 DEF Answered
  <2>5. transfer[q] = "NONE" => Empty(staff, q) /\ Empty(asked, q)
    BY <1>4 DEF Answered
  <2>6. CASE handler.status = "APPROVED"
    <3>1. /\ handler'.pc = "prepare" /\ handler'.r = q /\ request[q] = "PENDING" /\ request'[q] = "APPROVED"
          /\ handler'.existing = "PENDING" /\ handler'.people # {}
      BY <1>2, <1>4, <1>5, <2>1, <2>2, <2>6 DEF AfterSave, Reading
    <3>2. q \notin failed => transfer[q] = "NONE"
      BY <1>4, <3>1 DEF Answered
    <3>3. Preparing(q)'
      BY <3>1 DEF Preparing
    <3>4. Answered'
      BY <2>1, <2>4, <2>5, <3>1, <3>3 DEF Answered, Empty
    <3>. QED  BY <2>1, <3>1, <3>2, <3>4 DEF Reading, Progress, Approving
  <2>7. CASE handler.status \in Refused
    <3>1. handler'.pc = "cancel" /\ handler'.r = q /\ request'[q] \in Refused
      BY <1>2, <1>5, <2>1, <2>2, <2>7 DEF AfterSave, Refused
    <3>2. Answered'
      BY <2>1, <2>4, <2>5, <3>1 DEF Answered, Empty, Refused
    <3>. QED  BY <3>1, <3>2 DEF Reading, Progress, Approving
  <2>. QED  BY <1>4, <2>1, <2>6, <2>7 DEF Reading, Refused
<1>12. ASSUME NEW r \in Requests, CancelTransfer(r), transfer[r] # "NONE"
       PROVE  \A s \in Requests :
                 \/ /\ staff'[s] = staff[s] /\ asked'[s] = asked[s]
                    /\ transfer'[s] = transfer[s] \/ {transfer[s], transfer'[s]} \subseteq Active
                 \/ transfer[s] # "NONE" /\ transfer'[s] \notin {"NONE"} \cup Active
  BY <1>1, <1>12 DEF CancelTransfer, Canceling, Active
<1>13. CASE CancelsTransfer
  <2>1. handler.pc = "cancel" /\ Ends /\ UNCHANGED <<request, failed>>
    BY <1>13 DEF CancelsTransfer, At
  <2>2. \/ transfer[q] = "PENDING_DEPARTURE" /\ CancelTransfer(q)
        \/ UNCHANGED <<transfer, staff, asked>>
    BY <1>2, <1>13 DEF CancelsTransfer
  <2>3. \A s \in Requests :
           \/ /\ staff'[s] = staff[s] /\ asked'[s] = asked[s]
              /\ transfer'[s] = transfer[s] \/ {transfer[s], transfer'[s]} \subseteq Active
           \/ transfer[s] # "NONE" /\ transfer'[s] \notin {"NONE"} \cup Active
    BY <1>12, <2>2
  <2>. QED  BY <1>2, <1>4, <1>5, <1>6, <1>7, <2>1, <2>3, MovesOn
<1>14. ASSUME NEW r \in Requests, Departs(r) \/ PutsBack(r) \/ Completes(r) \/ Cancels(r)
       PROVE  Answered' /\ Reading' /\ Progress'
  <2>1. UNCHANGED <<request, failed, handler>>
    BY <1>14 DEF Departs, PutsBack, Completes, Cancels
  <2>2. \A s \in Requests :
           \/ /\ staff'[s] = staff[s] /\ asked'[s] = asked[s]
              /\ transfer'[s] = transfer[s] \/ {transfer[s], transfer'[s]} \subseteq Active
           \/ transfer[s] # "NONE" /\ transfer'[s] \notin {"NONE"} \cup Active
    <3>1. CASE Cancels(r)
      BY <1>12, <3>1 DEF Cancels, Active
    <3>2. CASE Departs(r)
      BY <1>1, <3>2 DEF Departs, MayLeave, Active
    <3>3. CASE Completes(r)
      BY <1>1, <3>3 DEF Completes, MayLeave, Active
    <3>4. CASE PutsBack(r)
      BY <1>1, <3>4 DEF PutsBack, Active
    <3>. QED  BY <1>14, <3>1, <3>2, <3>3, <3>4
  <2>3. Reading'
    BY <1>4, <2>1 DEF Reading
  <2>4. Answered' /\ Progress'
    BY <1>2, <1>4, <2>1, <2>2, MovesOn
  <2>. QED  BY <2>3, <2>4
<1>15. CASE Prepares
  <2>1. /\ handler.pc = "prepare" /\ UNCHANGED <<request, staff, asked, failed>>
        /\ handler.people # {} /\ request[q] = "APPROVED" /\ handler.existing = "PENDING"
        /\ q \notin failed => transfer[q] = "NONE"
    BY <1>2, <1>4, <1>15 DEF Prepares, At, Reading, Progress, Approving
  <2>2. \/ To("revert") /\ UNCHANGED transfer
        \/ /\ To("staff") /\ transfer'[q] # "NONE"
           /\ \A s \in Requests \ {q} : transfer'[s] = transfer[s]
    BY <1>1, <1>2, <1>15 DEF Prepares
  <2>3. Preparing(q)'
    BY <1>2, <1>5, <2>2 DEF Preparing
  <2>4. Answered'
    <3>. SUFFICES ASSUME NEW s \in Requests
                  PROVE  /\ transfer'[s] = "NONE" => Empty(staff, s) /\ Empty(asked, s)
                         /\ s \notin failed /\ request[s] \in {"NEW", "DRAFT", "PENDING"} => transfer'[s] = "NONE"
                         /\ request[s] = "APPROVED" /\ ~Preparing(s)' => Staffed(s)'
      BY <2>1 DEF Answered, Empty
    <3>1. CASE s = q
      BY <1>4, <2>1, <2>2, <2>3, <3>1 DEF Answered
    <3>2. CASE s # q
      <4>1. transfer'[s] = transfer[s] /\ ~Preparing(s)
        BY <1>2, <2>2, <3>2 DEF Preparing
      <4>2. Staffed(s) => Staffed(s)'
        BY <2>1, <4>1 DEF Staffed, Waits, HasItsPeople, Listed, Live
      <4>. QED  BY <1>4, <4>1, <4>2 DEF Answered
    <3>. QED  BY <3>1, <3>2
  <2>5. CASE To("revert")
    BY <1>2, <1>5, <2>1, <2>4, <2>5 DEF Reading, Progress, Approving
  <2>6. CASE To("staff")
    <3>1. transfer'[q] # "NONE"
      BY <1>5, <2>2, <2>6
    <3>2. q \notin failed => Empty(staff, q) /\ Empty(asked, q)
      BY <1>4, <2>1 DEF Answered
    <3>3. Progress'
      BY <1>2, <1>5, <2>1, <2>6, <3>1, <3>2 DEF Progress, Waits, Empty
    <3>. QED  BY <1>2, <1>5, <2>1, <2>4, <2>6, <3>3 DEF Reading, Approving
  <2>. QED  BY <2>2, <2>5, <2>6
<1>16. CASE ChecksStaff
  <2>1. /\ handler.pc = "staff" /\ UNCHANGED <<request, transfer, staff, asked, failed>>
        /\ To("assign") \/ To("revert")
    BY <1>16 DEF ChecksStaff, At
  <2>2. Answered'
    BY <1>4, <1>5, <2>1, AnsweredKept DEF Preparing
  <2>3. Reading'
    BY <1>4, <1>5, <2>1 DEF Reading, Approving
  <2>4. Progress'
    BY <1>4, <1>5, <2>1 DEF Progress, Waits, Empty
  <2>. QED  BY <2>2, <2>3, <2>4
<1>17. CASE Assigns
  <2>1. /\ handler.pc = "assign" /\ UNCHANGED <<request, transfer, asked, failed>> /\ To("manifest")
        /\ staff' = Adding(staff, q, ps) /\ ps # {} /\ transfer[q] # "NONE"
        /\ Waits(q) => Empty(staff, q) /\ Empty(asked, q)
    BY <1>2, <1>4, <1>17 DEF Assigns, At, Reading, Progress
  <2>2. \A s \in Requests \ {q} : staff'[s] = staff[s]
    BY <1>1, <2>1 DEF Adding
  <2>3. Preparing(q)'
    BY <1>2, <1>5, <2>1 DEF Preparing
  <2>4. Answered'
    <3>. SUFFICES ASSUME NEW s \in Requests
                  PROVE  /\ transfer[s] = "NONE" => Empty(staff', s) /\ Empty(asked, s)
                         /\ s \notin failed /\ request[s] \in {"NEW", "DRAFT", "PENDING"} => transfer[s] = "NONE"
                         /\ request[s] = "APPROVED" /\ ~Preparing(s)' => Staffed(s)'
      BY <2>1 DEF Answered, Empty
    <3>1. CASE s = q
      BY <1>4, <2>1, <2>3, <3>1 DEF Answered
    <3>2. CASE s # q
      <4>1. staff'[s] = staff[s] /\ ~Preparing(s)
        BY <1>2, <2>2, <3>2 DEF Preparing
      <4>2. Staffed(s) => Staffed(s)'
        BY <2>1, <4>1 DEF Staffed, Waits, HasItsPeople, Listed, Live
      <4>. QED  BY <1>4, <4>1, <4>2 DEF Answered, Empty
    <3>. QED  BY <3>1, <3>2
  <2>5. Waits(q) => Listed(staff', q) # {}
    <3>1. PICK p \in ps : TRUE
      BY <2>1
    <3>2. Waits(q) => staff'[q][p] = "live"
      BY <1>1, <2>1 DEF Adding, Empty
    <3>. QED  BY <3>2 DEF Listed
  <2>6. Reading'
    BY <1>4, <1>5, <2>1 DEF Reading, Approving
  <2>7. Progress'
    BY <1>2, <1>5, <2>1, <2>5 DEF Progress, Waits, Empty, Listed
  <2>. QED  BY <2>4, <2>6, <2>7
<1>18. CASE FillsManifest
  <2>1. /\ handler.pc = "manifest" /\ UNCHANGED <<request, transfer, staff, failed>>
        /\ transfer[q] # "NONE" /\ (Waits(q) => Listed(staff, q) # {} /\ Empty(asked, q))
        /\ request[q] = "APPROVED"
    BY <1>2, <1>4, <1>18 DEF FillsManifest, At, Reading, Progress, Approving
  <2>2. \/ To("revert") /\ asked' = asked
        \/ To("rations") /\ \E qs \in Chosen(q) : asked' = Adding(asked, q, qs)
    BY <1>2, <1>18 DEF FillsManifest
  <2>3. Preparing(q)'
    BY <1>2, <1>5, <2>2 DEF Preparing
  <2>4. \A s \in Requests \ {q} : asked'[s] = asked[s]
    BY <1>1, <2>2 DEF Adding
  <2>5. Answered'
    <3>. SUFFICES ASSUME NEW s \in Requests
                  PROVE  /\ transfer[s] = "NONE" => Empty(staff, s) /\ Empty(asked', s)
                         /\ s \notin failed /\ request[s] \in {"NEW", "DRAFT", "PENDING"} => transfer[s] = "NONE"
                         /\ request[s] = "APPROVED" /\ ~Preparing(s)' => Staffed(s)'
      BY <2>1 DEF Answered, Empty
    <3>1. CASE s = q
      BY <1>4, <2>1, <2>3, <3>1 DEF Answered
    <3>2. CASE s # q
      <4>1. asked'[s] = asked[s] /\ ~Preparing(s)
        BY <1>2, <2>4, <3>2 DEF Preparing
      <4>2. Staffed(s) => Staffed(s)'
        BY <2>1, <4>1 DEF Staffed, Waits, HasItsPeople, Listed, Live
      <4>. QED  BY <1>4, <4>1, <4>2 DEF Answered, Empty
    <3>. QED  BY <3>1, <3>2
  <2>6. Reading'
    BY <1>4, <1>5, <2>1, <2>2 DEF Reading, Approving
  <2>7. ASSUME NEW qs \in Chosen(q), asked' = Adding(asked, q, qs), Waits(q)
        PROVE  HasItsPeople(q)'
    <3>1. /\ qs \in SUBSET People /\ Named[q] \subseteq qs
          /\ Cardinality(qs \ Named[q]) = ByTrade[q]
      BY DEF Chosen, Free
    <3>2. Live(asked', q) = qs
      BY <1>1, <2>1, <2>7, <3>1 DEF Adding, Empty, Live
    <3>3. Cardinality(qs) = Cardinality(Named[q]) + ByTrade[q]
      <4>1. IsFiniteSet(Named[q]) /\ IsFiniteSet(qs \ Named[q])
        BY <3>1, FS_Subset, RequestAssumption
      <4>2. qs = Named[q] \cup (qs \ Named[q]) /\ Named[q] \cap (qs \ Named[q]) = {}
        BY <3>1
      <4>3. Cardinality(Named[q] \cap (qs \ Named[q])) = 0
        BY <4>2, FS_EmptySet
      <4>4. Cardinality(Named[q] \cup (qs \ Named[q]))
              = Cardinality(Named[q]) + Cardinality(qs \ Named[q]) - 0
        BY <4>1, <4>3, FS_Union
      <4>5. Cardinality(Named[q]) \in Nat /\ ByTrade[q] \in Nat
        BY <4>1, FS_CardinalityType, RequestAssumption
      <4>6. Cardinality(qs) = Cardinality(Named[q] \cup (qs \ Named[q]))
        BY <4>2
      <4>. QED  BY <3>1, <4>4, <4>5, <4>6
    <3>. QED  BY <2>1, <2>7, <3>1, <3>2, <3>3 DEF HasItsPeople, Listed, Live
  <2>8. Progress'
    <3>1. CASE To("revert")
      BY <1>5, <3>1 DEF Progress
    <3>2. CASE ~To("revert")
      BY <1>2, <1>5, <2>1, <2>2, <2>7, <3>2 DEF Progress, Waits
    <3>. QED  BY <3>1, <3>2
  <2>. QED  BY <2>5, <2>6, <2>8
<1>19. CASE ChecksRations
  <2>1. /\ handler.pc = "rations" /\ UNCHANGED <<request, transfer, staff, asked, failed>>
        /\ Ends \/ To("revert")
    BY <1>19 DEF ChecksRations, At
  <2>2. CASE To("revert")
    <3>1. Answered'
      BY <1>4, <1>5, <2>1, <2>2, AnsweredKept DEF Preparing
    <3>. QED  BY <1>4, <1>5, <2>1, <2>2, <3>1 DEF Reading, Progress, Approving
  <2>3. CASE Ends
    <3>1. Staffed(q)
      BY <1>2, <1>4, <2>1 DEF Progress, Staffed, Waits
    <3>2. \A s \in Requests : Staffed(s) => Staffed(s)'
      BY <2>1 DEF Staffed, Waits, HasItsPeople, Listed, Live
    <3>3. \A s \in Requests \ {q} : ~Preparing(s)
      BY <1>2 DEF Preparing
    <3>4. Answered'
      BY <1>4, <2>1, <3>1, <3>2, <3>3 DEF Answered, Empty
    <3>. QED  BY <1>5, <1>7, <2>3, <3>4
  <2>. QED  BY <2>1, <2>2, <2>3
<1>20. CASE Reverts
  <2>1. /\ handler.pc = "revert" /\ UNCHANGED <<transfer, staff, asked>> /\ Ends
        /\ request' = [request EXCEPT ![q] = "PENDING"] /\ failed' = failed \cup {q}
    BY <1>2, <1>4, <1>20 DEF Reverts, Reverted, At, Reading, Approving
  <2>2. /\ request'[q] = "PENDING" /\ \A s \in Requests \ {q} : request'[s] = request[s] /\ ~Preparing(s)
    BY <1>1, <1>2, <2>1 DEF Preparing
  <2>3. \A s \in Requests : Staffed(s) => Staffed(s)'
    BY <2>1 DEF Staffed, Waits, HasItsPeople, Listed, Live
  <2>4. Answered'
    BY <1>4, <2>1, <2>2, <2>3 DEF Answered, Empty
  <2>. QED  BY <1>5, <1>7, <2>1, <2>4
<1>21. CASE Replaces
  <2>1. /\ handler.pc = "replace" /\ UNCHANGED <<request, transfer, asked, failed>> /\ Ends
        /\ staff' = IF transfer[q] = "PENDING_DEPARTURE" THEN Replacing(staff, q, ps) ELSE staff
    BY <1>2, <1>4, <1>21 DEF Replaces, Locked, At, Reading
  <2>2. \A s \in Requests : staff'[s] = staff[s] \/ (s = q /\ transfer[q] = "PENDING_DEPARTURE")
    BY <1>1, <2>1 DEF Replacing
  <2>3. \A s \in Requests : Listed(staff', s) = Listed(staff, s)
    BY <1>1, <2>1 DEF Replacing, Listed
  <2>4. ASSUME NEW s \in Requests, Staffed(s) PROVE Staffed(s)'
    <3>1. Live(asked', s) = Live(asked, s)
      BY <2>1
    <3>2. HasItsPeople(s) => HasItsPeople(s)'
      BY <2>3, <3>1 DEF HasItsPeople
    <3>. QED  BY <2>1, <2>4, <3>2 DEF Staffed, Waits
  <2>5. Answered'
    <3>1. \A s \in Requests : transfer[s] = "NONE" => staff'[s] = staff[s]
      BY <2>2
    <3>. QED  BY <1>4, <1>6, <2>1, <2>4, <3>1 DEF Answered, Empty
  <2>. QED  BY <1>5, <1>7, <2>1, <2>5
<1>22. CASE UNCHANGED <<request, transfer, staff, asked, failed, handler>>
  <2>1. Answered'
    BY <1>4, <1>22, AnsweredKept DEF Preparing
  <2>2. Reading'
    BY <1>4, <1>22 DEF Reading
  <2>3. Progress'
    BY <1>2, <1>4, <1>22, MovesOn
  <2>. QED  BY <2>1, <2>2, <2>3
<1>. QED  BY <1>3, <1>8, <1>9, <1>10, <1>11, <1>13, <1>14, <1>15, <1>16, <1>17, <1>18, <1>19,
             <1>20, <1>21, <1>22
          DEF Next, Serves, Passes, vars


\* How the status a camp sees may move.
Answers == {<<"NEW", "DRAFT">>, <<"DRAFT", "PENDING">>, <<"PENDING", "APPROVED">>, <<"PENDING", "REJECTED">>,
            <<"APPROVED", "REJECTED">>, <<"APPROVED", "CANCELED">>}

LEMMA ShownStep ==
    ASSUME TypeOK, Answered, Reading, [Next]_vars, ~stopped'
    PROVE  \/ Shown' = Shown
           \/ \E r \in Requests, to \in Statuses :
                 <<Shown[r], to>> \in Answers /\ Shown' = [Shown EXCEPT ![r] = to]
<1>. USE DEF notes, manifest, goods, tables
<1>1. /\ Rest.pc = "idle" /\ request \in [Requests -> Statuses]
  BY DEF TypeOK, Rest
<1>2. PICK q \in Requests : q = handler.r
  BY DEF TypeOK, HandlerType
<1>3. /\ \A pc : To(pc) => /\ handler'.pc = pc /\ handler'.r = q
      /\ Ends => handler'.pc = "idle"
  BY <1>2, HandlerMoves
<1>4. handler.pc \in {"idle", "check", "save", "cancel", "replace"} => \A r \in Requests : ~Preparing(r)
  BY DEF Preparing
<1>5. handler'.pc \in {"idle", "check", "save", "cancel", "replace"} => \A r \in Requests : ~Preparing(r)'
  BY DEF Preparing
<1>6. ASSUME \A r \in Requests : Shown'[r] = Shown[r] PROVE Shown' = Shown
  BY <1>6 DEF Shown
<1>7. ASSUME NEW r \in Requests, NEW to \in Statuses, Shown'[r] = to,
             \A s \in Requests \ {r} : Shown'[s] = Shown[s]
      PROVE  Shown' = [Shown EXCEPT ![r] = to]
  BY <1>7 DEF Shown
<1>8. \A r \in Requests : /\ Preparing(r) => Shown[r] = "PENDING"
                          /\ ~Preparing(r) => Shown[r] = request[r]
                          /\ Preparing(r)' => Shown'[r] = "PENDING"
                          /\ ~Preparing(r)' => Shown'[r] = request'[r]
  BY DEF Shown
<1>9. \A r \in Requests : request[r] = "PENDING" => ~Preparing(r)
  BY DEF Reading, Preparing, Approving
<1>10. ASSUME NEW r \in Requests, Creates(r) \/ Submits(r)
       PROVE  \E to \in Statuses : <<Shown[r], to>> \in Answers /\ Shown' = [Shown EXCEPT ![r] = to]
  <2>1. PICK from, to \in Statuses :
             /\ request[r] = from /\ request' = [request EXCEPT ![r] = to]
             /\ handler.pc = "idle" /\ handler' = handler /\ <<from, to>> \in Answers
    BY <1>10 DEF Creates, Submits, Writes, At, Answers, Statuses
  <2>2. Shown'[r] = to /\ Shown[r] = from /\ \A s \in Requests \ {r} : Shown'[s] = Shown[s]
    BY <1>1, <1>4, <1>5, <1>8, <2>1
  <2>. QED  BY <1>7, <2>1, <2>2
<1>11. CASE Saves
  <2>1. /\ handler.pc = "save" /\ request' = [request EXCEPT ![q] = handler.status]
        /\ To(AfterSave(handler.status)) /\ request[q] = handler.existing /\ handler.status \in Statuses
    BY <1>2, <1>11 DEF Saves, At, Reading, TypeOK, HandlerType
  <2>2. \A s \in Requests \ {q} : Shown'[s] = Shown[s]
    <3>1. \A s \in Requests \ {q} : ~Preparing(s)'
      BY <1>3, <2>1 DEF Preparing
    <3>. QED  BY <1>1, <1>4, <1>8, <2>1, <3>1
  <2>3. Shown[q] = handler.existing
    BY <1>4, <1>8, <2>1
  <2>4. CASE handler.status = "APPROVED"
    <3>1. handler.existing = "PENDING"
      BY <2>1, <2>4 DEF Reading
    <3>2. Preparing(q)'
      BY <1>3, <2>1, <2>4 DEF AfterSave, Preparing
    <3>. QED  BY <1>6, <1>8, <2>2, <2>3, <3>1, <3>2
  <2>5. CASE handler.status # "APPROVED"
    <3>1. <<handler.existing, handler.status>> \in Answers
      BY <2>1, <2>5 DEF Reading, Answers
    <3>2. Shown'[q] = handler.status
      BY <1>1, <1>3, <1>5, <1>8, <2>1, <2>5 DEF AfterSave
    <3>. QED  BY <1>7, <2>1, <2>2, <2>3, <3>1, <3>2
  <2>. QED  BY <2>4, <2>5
<1>12. CASE ChecksRations /\ Ends
  <2>1. handler.pc = "rations" /\ request' = request /\ request[q] = "APPROVED"
    BY <1>2, <1>12 DEF ChecksRations, At, Reading, Approving
  <2>2. Preparing(q) /\ \A s \in Requests \ {q} : ~Preparing(s)
    BY <1>2, <2>1 DEF Preparing
  <2>3. /\ Shown[q] = "PENDING" /\ Shown'[q] = "APPROVED"
        /\ \A s \in Requests \ {q} : Shown'[s] = Shown[s]
    BY <1>3, <1>5, <1>8, <1>12, <2>1, <2>2
  <2>. QED  BY <1>7, <2>3 DEF Answers, Statuses
<1>13. CASE Prepares \/ ChecksStaff \/ Assigns \/ FillsManifest \/ (ChecksRations /\ ~Ends)
  <2>1. /\ request' = request /\ handler.pc \in {"prepare", "staff", "assign", "manifest", "rations"}
        /\ To("staff") \/ To("assign") \/ To("manifest") \/ To("rations") \/ To("revert")
    BY <1>13 DEF Prepares, ChecksStaff, Assigns, FillsManifest, ChecksRations, At
  <2>2. \A s \in Requests : Preparing(s)' <=> Preparing(s)
    BY <1>2, <1>3, <2>1 DEF Preparing
  <2>. QED  BY <1>6, <1>8, <2>1, <2>2
<1>14. CASE Reverts
  <2>1. handler.pc = "revert" /\ request' = [request EXCEPT ![q] = "PENDING"] /\ Ends
    BY <1>2, <1>14 DEF Reverts, Reverted, At, Reading, Approving
  <2>2. Preparing(q) /\ \A s \in Requests \ {q} : ~Preparing(s)
    BY <1>2, <2>1 DEF Preparing
  <2>. QED  BY <1>1, <1>3, <1>5, <1>6, <1>8, <2>1, <2>2
<1>15. CASE Approves \/ Refuses \/ ChangesStaff \/ Checks \/ CancelsTransfer \/ Replaces
  <2>1. /\ request' = request /\ handler.pc \in {"idle", "check", "cancel", "replace"}
        /\ handler'.pc \in {"idle", "check", "save", "replace"}
    <3>1. CASE Approves
      <4>1. PICK r \in Requests : \E crew \in Crews[r] :
                 Starts([Rest EXCEPT !.pc = "save", !.r = r, !.status = "APPROVED",
                                     !.existing = "PENDING", !.people = crew])
        BY <3>1 DEF Approves
      <4>. QED  BY <4>1 DEF Starts, At, Rest
    <3>2. CASE Refuses
      BY <3>2 DEF Refuses, Starts, At, Rest
    <3>3. CASE ChangesStaff
      BY <3>3 DEF ChangesStaff, Starts, At, Rest
    <3>4. CASE Checks \/ CancelsTransfer \/ Replaces
      BY <1>3, <3>4 DEF Checks, CancelsTransfer, Replaces, At
    <3>. QED  BY <1>15, <3>1, <3>2, <3>3, <3>4
  <2>. QED  BY <1>4, <1>5, <1>6, <1>8, <2>1
<1>16. CASE UNCHANGED <<request, handler>>
  BY <1>6, <1>16 DEF Shown, Preparing
<1>17. ~Stops
  BY DEF Stops
<1>. QED  BY <1>10, <1>11, <1>12, <1>13, <1>14, <1>15, <1>16, <1>17
          DEF Next, Serves, Passes, Departs, PutsBack, Completes, Cancels, vars

\* An approval that both camps see has its transfer prepared.
LEMMA PreparedIsApproved ==
    ASSUME Answered
    PROVE  {r \in Requests : Shown[r] = "APPROVED" /\ Prepared(r)} = {r \in Requests : Shown[r] = "APPROVED"}
<1>1. \A r \in Requests : Staffed(r) => Prepared(r)
  BY DEF Staffed, Prepared, Waits, Active
<1>. QED  BY <1>1 DEF Answered, Shown

\* The server, as long as it does not stop half-way, implements RequestLifecycle: for
\* any requests, people and goods an approval is one step for the two camps, taken
\* with its transfer prepared or not at all.
THEOREM LifecycleImplemented == Spec => ImplementsLifecycle
<1>1. ASSUME Init PROVE L!Init /\ Story
  <2>1. handler.pc = "idle" /\ \A r \in Requests : request[r] = "NEW"
    BY <1>1 DEF Init, Rest
  <2>2. Shown = [r \in Requests |-> "NEW"]
    BY <2>1 DEF Shown, Preparing
  <2>3. L!Init
    BY <2>2 DEF L!Init
  <2>4. Answered
    BY <1>1 DEF Init, NoRows, Answered, Empty
  <2>5. Reading /\ Progress
    BY <2>1 DEF Reading, Progress, Approving
  <2>. QED  BY <2>3, <2>4, <2>5 DEF Story
<1>2. ASSUME TypeOK, Story, [Next]_vars PROVE Story'
  BY <1>2, StoryStep DEF Story
<1>3. ASSUME TypeOK, Story, Story', [Next]_vars PROVE [~stopped' => L!Next]_(L!vars)
  <2>. SUFFICES ASSUME ~stopped' PROVE L!Next \/ UNCHANGED L!vars
    OBVIOUS
  <2>. DEFINE Ready0 == {r \in Requests : Shown[r] = "APPROVED" /\ Prepared(r)}
  <2>1. ~stopped
    BY <1>3 DEF Next, Serves, Creates, Submits, Writes, Approves, Refuses, Starts, Checks, Saves,
     CancelsTransfer, Prepares, ChecksStaff, Assigns, FillsManifest, ChecksRations, Reverts,
     ChangesStaff, Replaces, Passes, Departs, PutsBack, Completes, Cancels, Stops, vars, notes
  <2>2. Answered /\ Reading /\ Answered'
    BY <1>3, <2>1 DEF Story
  <2>3. Ready0 = {r \in Requests : Shown[r] = "APPROVED"}
    BY <2>2, PreparedIsApproved
  <2>4. Ready0' = {r \in Requests : Shown'[r] = "APPROVED"}
    <3>1. \A r \in Requests : Staffed(r)' => Prepared(r)'
      BY DEF Staffed, Prepared, Waits, Active
    <3>. QED  BY <2>2, <3>1 DEF Answered, Shown
  <2>5. CASE Shown' = Shown
    <3>1. Ready0' = Ready0
      BY <2>3, <2>4, <2>5
    <3>. QED  BY <2>5, <3>1 DEF L!vars
  <2>6. ASSUME NEW r \in Requests, NEW to \in Statuses,
               <<Shown[r], to>> \in Answers, Shown' = [Shown EXCEPT ![r] = to]
        PROVE  L!Next
    <3>1. Shown'[r] = to /\ \A s \in Requests \ {r} : Shown'[s] = Shown[s]
      BY <2>6 DEF Shown
    <3>2. CASE to = "APPROVED"
      <4>1. Ready0' = Ready0 \cup {r} /\ Shown[r] = "PENDING"
        BY <2>3, <2>4, <2>6, <3>1, <3>2 DEF Answers
      <4>. QED  BY <2>6, <3>2, <4>1 DEF L!Next, L!Approved, L!Moves
    <3>3. CASE Shown[r] = "APPROVED"
      <4>1. Ready0' = Ready0 \ {r} /\ to \in {"REJECTED", "CANCELED"}
        BY <2>3, <2>4, <2>6, <3>1, <3>3 DEF Answers
      <4>. QED  BY <2>6, <3>3, <4>1 DEF L!Next, L!Withdrawn, L!Moves
    <3>4. CASE Shown[r] # "APPROVED" /\ to # "APPROVED"
      <4>1. Ready0' = Ready0
        BY <2>3, <2>4, <3>1, <3>4
      <4>2. <<Shown[r], to>> \in {<<"NEW", "DRAFT">>, <<"DRAFT", "PENDING">>, <<"PENDING", "REJECTED">>}
        BY <2>6, <3>4 DEF Answers
      <4>. QED  BY <2>6, <4>1, <4>2 DEF L!Next, L!Drafted, L!Submitted, L!Refused, L!Moves
    <3>. QED  BY <3>2, <3>3, <3>4
  <2>. QED  BY <1>3, <2>2, <2>5, <2>6, ShownStep
<1>4. Init => L!Init /\ Story
  BY <1>1
<1>5. TypeOK /\ Story /\ [Next]_vars => Story'
  BY <1>2
<1>6. TypeOK /\ Story /\ Story' /\ [Next]_vars => [~stopped' => L!Next]_(L!vars)
  BY <1>3
<1>. QED  BY <1>4, <1>5, <1>6, InitType, StepType, PTL DEF Spec, ImplementsLifecycle


-----------------------------------------------------------------------------
(* Sums: what MapThenSumSet returns is the first summand and the sum of    *)
(* the others, whichever comes first.                                      *)

Total(f, S) == MapThenSumSet(LAMBDA x : f[x], S)

Some(S) == CHOOSE x \in S : TRUE

\* The function that MapThenSumSet defines by recursion.
Sums(g, f, S) == g = [s \in SUBSET S |-> IF s = {} THEN 0 ELSE f[Some(s)] + g[s \ {Some(s)}]]

LEMMA TotalIs == ASSUME NEW f, NEW S PROVE Total(f, S) = (CHOOSE g : Sums(g, f, S))[S]
BY DEF Total, MapThenSumSet, MapThenFoldSet, Sums, Some

LEMMA SomeIn == ASSUME NEW S, S # {} PROVE Some(S) \in S
BY DEF Some

\* Of subsets of a finite set one is the smallest.
LEMMA Smallest ==
    ASSUME NEW S, IsFiniteSet(S), NEW B \in SUBSET (SUBSET S), B # {}
    PROVE  \E s \in B : \A t \in B : t \subseteq s => t = s
<1>1. IsWellFoundedOn(StrictSubsetOrdering(S), SUBSET S)
  BY FS_StrictSubsetOrderingWellFounded, FS_FiniteSubsetsOfFinite
<1>2. PICK s \in B : \A t \in B : ~(<<t, s>> \in StrictSubsetOrdering(S))
  BY <1>1, WFMin
<1>. QED  BY <1>2 DEF StrictSubsetOrdering

LEMMA SumsAgree ==
    ASSUME NEW f, NEW g, NEW h, NEW S, NEW T, NEW U, IsFiniteSet(S),
           Sums(g, f, T), Sums(h, f, U), S \subseteq T, S \subseteq U
    PROVE  g[S] = h[S]
<1>0. PICK Bad \in SUBSET (SUBSET S) :
        Bad = {s \in SUBSET S : g[s] # h[s]}
  OBVIOUS
<1>1. ASSUME Bad # {} PROVE FALSE
  <2>1. PICK s \in Bad : \A t \in Bad : t \subseteq s => t = s
    BY <1>1, Smallest
  <2>2. /\ g[s] = IF s = {} THEN 0 ELSE f[Some(s)] + g[s \ {Some(s)}]
        /\ h[s] = IF s = {} THEN 0 ELSE f[Some(s)] + h[s \ {Some(s)}]
    BY DEF Sums
  <2>3. s # {}
    BY <1>0, <2>2
  <2>4. s \ {Some(s)} \notin Bad
    BY <2>1, <2>3, SomeIn
  <2>. QED  BY <1>0, <2>1, <2>2, <2>3, <2>4
<1>. QED  BY <1>0, <1>1

LEMMA SumsExist ==
    ASSUME NEW f, NEW S, IsFiniteSet(S)
    PROVE  \E g : Sums(g, f, S)
<1>0. PICK Bad \in SUBSET (SUBSET S) :
        Bad = {s \in SUBSET S : ~\E g : Sums(g, f, s)}
  OBVIOUS
<1>1. ASSUME Bad # {} PROVE FALSE
  <2>1. PICK t \in Bad : \A s \in Bad : s \subseteq t => s = t
    BY <1>1, Smallest
  <2>. DEFINE G(s) == CHOOSE g : Sums(g, f, s)
  <2>0. PICK sum :
          sum = [s \in SUBSET t |-> IF s = {} THEN 0 ELSE f[Some(s)] + G(s \ {Some(s)})[s \ {Some(s)}]]
    OBVIOUS
  <2>2. ASSUME NEW s \in SUBSET t, s # t PROVE Sums(G(s), f, s)
    <3>1. \E g : Sums(g, f, s)
      BY <1>0, <2>1, <2>2
    <3>. QED  BY <3>1
  <2>3. ASSUME NEW s \in SUBSET t, s # t PROVE sum[s] = G(s)[s]
    <3>1. Sums(G(s), f, s)
      BY <2>2, <2>3
    <3>2. G(s)[s] = IF s = {} THEN 0 ELSE f[Some(s)] + G(s)[s \ {Some(s)}]
      BY <3>1 DEF Sums
    <3>3. CASE s # {}
      <4>1. PICK v \in SUBSET t : v = s \ {Some(s)}
        OBVIOUS
      <4>2. v # t /\ v \subseteq s
        BY <2>3, <3>3, <4>1, SomeIn
      <4>3. Sums(G(v), f, v) /\ IsFiniteSet(v)
        BY <2>2, <4>2, FS_Subset
      <4>4. G(s)[v] = G(v)[v]
        BY <3>1, <4>2, <4>3, SumsAgree
      <4>. QED  BY <2>0, <3>2, <3>3, <4>1, <4>4
    <3>4. CASE s = {}
      BY <2>0, <3>2, <3>4
    <3>. QED  BY <3>3, <3>4
  <2>4. ASSUME NEW s \in SUBSET t, s # {}
        PROVE  sum[s] = f[Some(s)] + sum[s \ {Some(s)}]
    <3>1. s \ {Some(s)} \in SUBSET t /\ s \ {Some(s)} # t
      BY <2>4, SomeIn
    <3>. QED  BY <2>0, <2>3, <2>4, <3>1
  <2>5. Sums(sum, f, t)
    BY <2>0, <2>4 DEF Sums
  <2>. QED  BY <1>0, <2>1, <2>5
<1>. QED  BY <1>0, <1>1

LEMMA TotalSome ==
    ASSUME NEW f, NEW S, IsFiniteSet(S)
    PROVE  /\ S = {} => Total(f, S) = 0
           /\ S # {} => Total(f, S) = f[Some(S)] + Total(f, S \ {Some(S)})
<1>. DEFINE G(s) == CHOOSE g : Sums(g, f, s)
<1>1. ASSUME NEW s \in SUBSET S PROVE Sums(G(s), f, s)
  <2>1. IsFiniteSet(s)
    BY FS_Subset
  <2>2. \E g : Sums(g, f, s)
    BY <2>1, SumsExist
  <2>. QED  BY <2>2
<1>2. \A s : Total(f, s) = G(s)[s]
  BY TotalIs
<1>. HIDE DEF G
<1>3. G(S)[S] = IF S = {} THEN 0 ELSE f[Some(S)] + G(S)[S \ {Some(S)}]
  BY <1>1 DEF Sums
<1>4. G(S)[S \ {Some(S)}] = G(S \ {Some(S)})[S \ {Some(S)}]
  <2>1. IsFiniteSet(S \ {Some(S)})
    BY FS_Subset
  <2>. QED  BY <1>1, <2>1, SumsAgree
<1>. QED  BY <1>2, <1>3, <1>4

LEMMA TotalType ==
    ASSUME NEW f, NEW S, IsFiniteSet(S), \A x \in S : f[x] \in Nat
    PROVE  Total(f, S) \in Nat
<1>0. PICK Bad \in SUBSET (SUBSET S) :
        Bad = {s \in SUBSET S : Total(f, s) \notin Nat}
  OBVIOUS
<1>1. ASSUME Bad # {} PROVE FALSE
  <2>1. PICK s \in Bad : \A t \in Bad : t \subseteq s => t = s
    BY <1>1, Smallest
  <2>2. IsFiniteSet(s)
    BY FS_Subset
  <2>3. s # {} /\ Total(f, s) = f[Some(s)] + Total(f, s \ {Some(s)})
    BY <1>0, <2>1, <2>2, TotalSome
  <2>4. f[Some(s)] \in Nat /\ Total(f, s \ {Some(s)}) \in Nat
    BY <1>0, <2>1, <2>3, SomeIn
  <2>. QED  BY <1>0, <2>1, <2>3, <2>4
<1>. QED  BY <1>0, <1>1

\* Any summand may come first.
LEMMA TotalRemove ==
    ASSUME NEW f, NEW S, IsFiniteSet(S), \A x \in S : f[x] \in Nat, NEW x \in S
    PROVE  Total(f, S) = f[x] + Total(f, S \ {x})
<1>0. PICK Bad \in SUBSET (SUBSET S) :
        Bad = {s \in SUBSET S : \E z \in s : Total(f, s) # f[z] + Total(f, s \ {z})}
  OBVIOUS
<1>1. ASSUME Bad # {} PROVE FALSE
  <2>1. PICK s \in Bad : \A t \in Bad : t \subseteq s => t = s
    BY <1>1, Smallest
  <2>2. PICK z \in s : Total(f, s) # f[z] + Total(f, s \ {z})
    BY <1>0
  <2>3. IsFiniteSet(s) /\ s # {} /\ s \subseteq S
    BY FS_Subset
  <2>4. PICK y \in s : y = Some(s)
    BY <2>3, SomeIn
  <2>5. Total(f, s) = f[y] + Total(f, s \ {y})
    BY <2>3, <2>4, TotalSome
  <2>6. y # z
    BY <2>2, <2>5
  <2>7. ASSUME NEW a \in s, NEW b \in s, a # b
        PROVE  Total(f, s \ {a}) = f[b] + Total(f, (s \ {a}) \ {b})
    <3>1. PICK t \in SUBSET S : t = s \ {a}
      BY <2>3
    <3>2. t \notin Bad
      BY <2>1, <2>7, <3>1
    <3>3. ~\E v \in t : Total(f, t) # f[v] + Total(f, t \ {v})
      BY <1>0, <3>2
    <3>4. b \in t
      BY <2>7, <3>1
    <3>. QED  BY <3>1, <3>3, <3>4
  <2>8. /\ f[z] \in Nat /\ f[y] \in Nat
        /\ Total(f, (s \ {z}) \ {y}) \in Nat
    <3>1. IsFiniteSet((s \ {z}) \ {y})
      BY <2>3, FS_Subset
    <3>. QED  BY <2>3, <3>1, TotalType
  <2>9. (s \ {y}) \ {z} = (s \ {z}) \ {y}
    OBVIOUS
  <2>. QED  BY <2>2, <2>5, <2>6, <2>7, <2>8, <2>9
<1>. QED  BY <1>0, <1>1

\* A part of the summands is no more than the whole.
LEMMA TotalOfPart ==
    ASSUME NEW f, NEW S, IsFiniteSet(S), \A x \in S : f[x] \in Nat, NEW P \in SUBSET S
    PROVE  Total(f, P) <= Total(f, S)
<1>0. PICK Bad \in SUBSET (SUBSET S) :
        Bad = {s \in SUBSET S : P \subseteq s /\ ~(Total(f, P) <= Total(f, s))}
  OBVIOUS
<1>1. ASSUME Bad # {} PROVE FALSE
  <2>1. PICK s \in Bad : \A t \in Bad : t \subseteq s => t = s
    BY <1>1, Smallest
  <2>2. s \in SUBSET S /\ P \subseteq s /\ ~(Total(f, P) <= Total(f, s))
    BY <1>0
  <2>3. IsFiniteSet(s) /\ IsFiniteSet(P) /\ \A x \in s : f[x] \in Nat
    BY <2>2, FS_Subset
  <2>4. Total(f, s) \in Nat /\ Total(f, P) \in Nat
    BY <2>2, <2>3, TotalType
  <2>5. PICK x \in s : x \notin P
    <3>1. s # P
      BY <2>2, <2>4
    <3>. QED  BY <2>2, <3>1
  <2>6. PICK t \in SUBSET S : t = s \ {x}
    BY <2>2
  <2>7. Total(f, P) <= Total(f, t)
    BY <1>0, <2>1, <2>2, <2>5, <2>6
  <2>8. Total(f, s) = f[x] + Total(f, t) /\ f[x] \in Nat
    BY <2>3, <2>6, TotalRemove
  <2>9. Total(f, t) \in Nat
    <3>1. IsFiniteSet(t)
      BY FS_Subset
    <3>. QED  BY <3>1, TotalType
  <2>. QED  BY <2>2, <2>4, <2>7, <2>8, <2>9
<1>. QED  BY <1>0, <1>1

-----------------------------------------------------------------------------
(* The goods promised to approved requests.  What is kept is a little more:  *)
(* the goods of all transfers that wait to leave, those of the request the   *)
(* handler is refusing among them, fit too, and a transfer that is on its    *)
(* way or was put back has sent its goods.                                   *)

Waiting == {s \in Requests : transfer[s] = "PENDING_DEPARTURE" /\ s \notin left}

Gone == {s \in Requests : transfer[s] = "IN_TRANSIT"} \cup putBack

Fits == ~stopped /\ failed = {} =>
            stock - Total(Amount, Waiting) >= Minimum /\ Gone \subseteq left

\* Sums of amounts are numbers, and goods that are added or taken away count once.
LEMMA Amounts ==
    ASSUME NEW W \in SUBSET Requests
    PROVE  /\ Total(Amount, W) \in Nat
           /\ \A r \in W : Total(Amount, W) = Amount[r] + Total(Amount, W \ {r})
           /\ \A P \in SUBSET W : Total(Amount, P) <= Total(Amount, W)
<1>1. IsFiniteSet(W) /\ \A x \in W : Amount[x] \in Nat
  BY FS_Subset, RequestAssumption
<1>2. /\ Total(Amount, W) \in Nat
      /\ \A r \in W : Total(Amount, W) = Amount[r] + Total(Amount, W \ {r})
  BY <1>1, TotalType, TotalRemove
<1>3. \A P \in SUBSET W : Total(Amount, P) <= Total(Amount, W)
  BY <1>1, TotalOfPart
<1>. QED  BY <1>2, <1>3

\* Transfers that wait do so for approved requests, or for the one being refused.
LEMMA WaitingIsPromised ==
    ASSUME TypeOK, Kept, Answered, failed = {}, putBack \subseteq left, handler.pc # "cancel"
    PROVE  \A s \in Waiting : request[s] = "APPROVED"
<1>1. ASSUME NEW s \in Waiting, request[s] # "APPROVED" PROVE FALSE
  <2>1. s \in Requests /\ transfer[s] = "PENDING_DEPARTURE" /\ s \notin putBack
    BY DEF Waiting
  <2>2. request[s] \in Refused
    BY <1>1, <2>1 DEF TypeOK, Answered, Statuses, Refused
  <2>. QED  BY <2>1, <2>2 DEF Kept, RefusedWaits
<1>. QED  BY <1>1

LEMMA FitsIsEnough ==
    ASSUME TypeOK, Fits
    PROVE  CommitmentsFit
<1>. SUFFICES ASSUME ~stopped, failed = {}
              PROVE  stock - Total(Amount, ToLeave) >= Minimum
  BY DEF CommitmentsFit, Total
<1>1. Waiting \in SUBSET Requests /\ ToLeave \in SUBSET Waiting
  BY DEF Waiting, ToLeave
<1>2. /\ Total(Amount, Waiting) \in Nat /\ Total(Amount, ToLeave) \in Nat
      /\ Total(Amount, ToLeave) <= Total(Amount, Waiting)
  BY <1>1, Amounts
<1>3. stock - Total(Amount, Waiting) >= Minimum /\ stock \in Nat /\ Minimum \in Nat
  BY RequestAssumption DEF Fits, TypeOK
<1>. QED  BY <1>2, <1>3

\* A step after which no other transfer waits, with the goods still there that do.
LEMMA FewerWait ==
    ASSUME NEW W \in SUBSET Requests, NEW V \in SUBSET W,
           NEW r \in Requests, W \subseteq V \cup {r}, NEW before \in Nat, NEW after \in Nat,
           before - Total(Amount, W) >= Minimum,
           after = before \/ (r \in W /\ V = W \ {r} /\ after = before - Amount[r])
    PROVE  after - Total(Amount, V) >= Minimum
<1>1. /\ Total(Amount, W) \in Nat /\ Total(Amount, V) \in Nat /\ Minimum \in Nat /\ Amount[r] \in Nat
      /\ r \in W => Total(Amount, W) = Amount[r] + Total(Amount, W \ {r})
      /\ Total(Amount, V) <= Total(Amount, W)
  BY Amounts, RequestAssumption
<1>2. CASE after = before
  BY <1>1, <1>2
<1>3. CASE r \in W /\ V = W \ {r} /\ after = before - Amount[r]
  <2>1. Total(Amount, W) = Amount[r] + Total(Amount, V)
    BY <1>1, <1>3
  <2>. QED  BY <1>1, <1>3, <2>1
<1>. QED  BY <1>2, <1>3

\* What was promised to a transfer is there when it leaves.
LEMMA SendsAll ==
    ASSUME TypeOK, NEW r \in Waiting, stock - Total(Amount, Waiting) >= Minimum
    PROVE  Sent(r) = Amount[r] /\ Sent(r) # 0
<1>1. Waiting \in SUBSET Requests /\ {r} \in SUBSET Waiting
  BY DEF Waiting
<1>2. /\ Total(Amount, Waiting) \in Nat /\ Total(Amount, Waiting \ {r}) \in Nat
      /\ Total(Amount, Waiting) = Amount[r] + Total(Amount, Waiting \ {r})
  BY <1>1, Amounts
<1>3. Amount[r] \in Nat \ {0} /\ stock \in Nat /\ Minimum \in Nat
  BY <1>1, RequestAssumption DEF TypeOK
<1>. QED  BY <1>2, <1>3 DEF Sent

LEMMA StepFits ==
    ASSUME TypeOK, TypeOK', ~stopped => Kept, Story, Fits, [Next]_vars
    PROVE  Fits'
<1>. USE DEF notes, manifest, goods, tables
<1>. SUFFICES ASSUME ~stopped', failed' = {}
              PROVE  stock' - Total(Amount, Waiting') >= Minimum /\ Gone' \subseteq left'
  BY DEF Fits
<1>1. CASE Stops
  BY <1>1 DEF Stops
<1>. SUFFICES ASSUME UNCHANGED stopped, UNCHANGED failed
              PROVE  stock' - Total(Amount, Waiting') >= Minimum /\ Gone' \subseteq left'
  BY <1>1 DEF Next, Serves, Creates, Submits, Writes, Approves, Refuses, Starts, Checks, Saves,
     CancelsTransfer, Prepares, ChecksStaff, Assigns, FillsManifest, ChecksRations, Reverts,
     ChangesStaff, Replaces, Passes, Departs, PutsBack, Completes, Cancels, vars
<1>2. PICK W \in SUBSET Requests : W = Waiting
  BY DEF Waiting
<1>3. PICK V \in SUBSET Requests : V = Waiting'
  BY DEF Waiting
<1>4. /\ stock - Total(Amount, W) >= Minimum /\ stock \in Nat /\ stock' \in Nat
      /\ handler.r \in Requests /\ DOMAIN transfer = Requests
      /\ Gone \subseteq left /\ putBack \subseteq left
  BY <1>2 DEF Fits, Gone, TypeOK, HandlerType
<1>5. ASSUME UNCHANGED <<transfer, goods>>, putBack' \subseteq putBack
      PROVE  stock' - Total(Amount, Waiting') >= Minimum /\ Gone' \subseteq left'
  <2>1. V = W
    BY <1>2, <1>3, <1>5 DEF Waiting
  <2>2. Gone' \subseteq left'
    BY <1>4, <1>5 DEF Gone
  <2>. QED  BY <1>3, <1>4, <1>5, <2>1, <2>2
\* A transfer that waited does no longer, and has taken what it was promised.
<1>6. ASSUME NEW r \in Requests, NEW to, to # "PENDING_DEPARTURE", UNCHANGED putBack,
             transfer' = [transfer EXCEPT ![r] = to],
             \/ UNCHANGED goods /\ (to = "IN_TRANSIT" => transfer[r] = "IN_TRANSIT")
             \/ transfer[r] = "PENDING_DEPARTURE" /\ SendsGoods(r)
      PROVE  stock' - Total(Amount, Waiting') >= Minimum /\ Gone' \subseteq left'
  <2>1. V = W \ {r} /\ left \subseteq left'
    <3>1. left' = left \/ left' = left \cup {r}
      BY <1>6 DEF SendsGoods
    <3>2. transfer'[r] # "PENDING_DEPARTURE" /\ \A s \in Requests \ {r} : transfer'[s] = transfer[s]
      BY <1>4, <1>6
    <3>. QED  BY <1>2, <1>3, <3>1, <3>2 DEF Waiting
  <2>2. /\ stock' = stock \/ (r \in W /\ stock' = stock - Amount[r])
        /\ to = "IN_TRANSIT" => r \in left'
    <3>1. CASE UNCHANGED goods
      <4>1. transfer[r] = "IN_TRANSIT" => r \in left
        BY <1>4 DEF Gone
      <4>2. transfer[r] = "PENDING_DEPARTURE" /\ r \notin left => r \in W
        BY <1>2 DEF Waiting
      <4>3. r \in W => ~(transfer[r] = "PENDING_DEPARTURE" /\ SendsGoods(r))
        <5>1. r \in W => Sent(r) # 0 /\ r \notin left
          BY <1>2, <1>4, SendsAll DEF Waiting
        <5>. QED  BY <3>1, <5>1 DEF SendsGoods
      <4>. QED  BY <1>6, <3>1, <4>1, <4>2, <4>3
    <3>2. CASE ~UNCHANGED goods
      <4>1. SendsGoods(r) /\ transfer[r] = "PENDING_DEPARTURE" /\ r \notin left
        BY <1>6, <3>2 DEF SendsGoods
      <4>2. r \in W
        BY <1>2, <4>1 DEF Waiting
      <4>3. Sent(r) = Amount[r]
        BY <1>2, <1>4, <4>2, SendsAll
      <4>4. stock' = stock - Sent(r) /\ left' = left \cup {r}
        BY <3>2, <4>1 DEF SendsGoods
      <4>. QED  BY <4>2, <4>3, <4>4
    <3>. QED  BY <3>1, <3>2
  <2>3. Gone' \subseteq left'
    <3>1. \A s \in Requests \ {r} : transfer'[s] = transfer[s]
      BY <1>4, <1>6
    <3>2. transfer'[r] = to
      BY <1>4, <1>6
    <3>. QED  BY <1>4, <1>6, <2>1, <2>2, <3>1, <3>2 DEF Gone
  <2>4. stock' - Total(Amount, V) >= Minimum
    BY <1>4, <2>1, <2>2, FewerWait
  <2>. QED  BY <1>3, <2>3, <2>4
\* A new transfer is of an approved request, as those are that the check has counted.
<1>7. ASSUME Prepares
      PROVE  stock' - Total(Amount, Waiting') >= Minimum /\ Gone' \subseteq left'
  <2>1. PICK r \in Requests : r = handler.r
    BY <1>4
  <2>2. CASE ~UNCHANGED transfer
    <3>1. /\ handler.pc = "prepare" /\ Available(r) /\ transfer[r] = "NONE"
          /\ UNCHANGED <<stock, left, putBack>>
          /\ transfer' = [transfer EXCEPT ![r] = "PENDING_DEPARTURE"]
      <4>1. transfer = [s \in Requests |-> transfer[s]]
        BY DEF TypeOK
      <4>2. [transfer EXCEPT ![r] = transfer[r]] = transfer
        BY <4>1
      <4>. QED  BY <1>7, <2>1, <2>2, <4>2 DEF Prepares, At, To
    <3>2. V \subseteq W \cup {r} /\ r \notin W /\ W \subseteq V
      BY <1>2, <1>3, <1>4, <3>1 DEF Waiting
    <3>3. \A s \in W : request[s] = "APPROVED"
      BY <1>2, <1>4, <3>1, WaitingIsPromised DEF Story
    <3>4. PICK C \in SUBSET Requests :
             C = {s \in Requests \ {r} : request[s] = "APPROVED" /\ transfer[s] = "PENDING_DEPARTURE"}
      OBVIOUS
    <3>5. W \in SUBSET C
      BY <1>2, <3>2, <3>3, <3>4 DEF Waiting
    <3>6. Committed(r) = Total(Amount, C)
      BY <3>4 DEF Committed, Total
    <3>7. Total(Amount, W) <= Total(Amount, C) /\ Total(Amount, C) \in Nat
      BY <3>5, Amounts
    <3>8. Total(Amount, V) <= Amount[r] + Total(Amount, W)
      <4>1. CASE r \in V
        <5>1. V \ {r} = W
          BY <3>2
        <5>. QED  BY <4>1, <5>1, Amounts, RequestAssumption
      <4>2. CASE r \notin V
        <5>1. V = W
          BY <3>2, <4>2
        <5>. QED  BY <5>1, Amounts, RequestAssumption
      <4>. QED  BY <4>1, <4>2
    <3>9. /\ Amount[r] \in Nat /\ Total(Amount, W) \in Nat /\ Total(Amount, V) \in Nat
          /\ Minimum \in Nat
      BY Amounts, RequestAssumption
    <3>10. Gone' \subseteq left'
      BY <1>4, <3>1 DEF Gone
    <3>. QED  BY <1>3, <1>4, <3>1, <3>6, <3>7, <3>8, <3>9, <3>10 DEF Available
  <2>3. CASE UNCHANGED transfer
    BY <1>5, <1>7, <2>3 DEF Prepares
  <2>. QED  BY <2>2, <2>3
<1>8. CASE CancelsTransfer
  <2>1. /\ UNCHANGED <<stock, left, putBack>>
        /\ transfer' = transfer \/ transfer' = [transfer EXCEPT ![handler.r] = "CANCELED"]
    BY <1>8 DEF CancelsTransfer, CancelTransfer
  <2>. QED  BY <1>4, <1>5, <1>6, <2>1
<1>9. ASSUME NEW r \in Requests, Departs(r) \/ Completes(r) \/ Cancels(r)
      PROVE  stock' - Total(Amount, Waiting') >= Minimum /\ Gone' \subseteq left'
  <2>1. CASE Departs(r)
    BY <1>6, <2>1 DEF Departs, MayLeave
  <2>2. CASE Completes(r)
    BY <1>6, <2>2 DEF Completes, MayLeave
  <2>3. CASE Cancels(r)
    BY <1>6, <2>3 DEF Cancels, CancelTransfer
  <2>. QED  BY <1>9, <2>1, <2>2, <2>3
\* What was put back has left.
<1>10. ASSUME NEW r \in Requests, PutsBack(r)
       PROVE  stock' - Total(Amount, Waiting') >= Minimum /\ Gone' \subseteq left'
  <2>1. /\ transfer[r] = "IN_TRANSIT" /\ UNCHANGED <<stock, left>> /\ putBack' = putBack \cup {r}
        /\ transfer' = [transfer EXCEPT ![r] = "PENDING_DEPARTURE"]
    BY <1>10 DEF PutsBack
  <2>2. r \in left
    BY <1>4, <2>1 DEF Gone
  <2>3. V = W
    BY <1>2, <1>3, <1>4, <2>1, <2>2 DEF Waiting
  <2>4. Gone' \subseteq left'
    BY <1>4, <2>1, <2>2 DEF Gone
  <2>. QED  BY <1>3, <1>4, <2>1, <2>3, <2>4
<1>11. CASE Saves
  BY <1>5, <1>11 DEF Saves
<1>12. CASE UNCHANGED <<transfer, goods, putBack>>
  BY <1>5, <1>12
<1>. QED  BY <1>1, <1>7, <1>8, <1>9, <1>10, <1>11, <1>12
     DEF Next, Serves, Creates, Submits, Writes, Approves, Refuses, Starts, Checks,
     ChecksStaff, Assigns, FillsManifest, ChecksRations, Reverts, ChangesStaff, Replaces, Passes,
     Stops, vars

\* What is promised to the approved requests can leave with the minimum kept, for any
\* amounts and any stock that held it at the start.
THEOREM CommitmentsKept == Spec => []CommitmentsFit
<1>1. Init => Fits
  <2>. SUFFICES ASSUME Init PROVE Fits
    OBVIOUS
  <2>1. Waiting = {} /\ stock \in Nat /\ stock >= Minimum /\ Minimum \in Nat
    BY RequestAssumption DEF Init, Waiting
  <2>3. Gone = {}
    BY DEF Init, Gone
  <2>2. Total(Amount, {}) = 0
    BY TotalSome, FS_EmptySet
  <2>. QED  BY <2>1, <2>2, <2>3 DEF Fits
<1>2. Init => Story
  <2>. SUFFICES ASSUME Init PROVE Story
    OBVIOUS
  <2>1. handler.pc = "idle" /\ \A r \in Requests : request[r] = "NEW"
    BY DEF Init, Rest
  <2>2. Answered
    BY <2>1 DEF Init, NoRows, Answered, Empty
  <2>. QED  BY <2>1, <2>2 DEF Story, Reading, Progress, Approving
<1>3. TypeOK /\ Story /\ [Next]_vars => Story'
  BY StoryStep DEF Story
<1>4. TypeOK /\ TypeOK' /\ (~stopped => Kept) /\ Story /\ Fits /\ [Next]_vars => Fits'
  BY StepFits
<1>5. TypeOK /\ (~stopped => Kept) /\ [Next]_vars => (~stopped' => Kept')
  BY StepKept
<1>6. Init => (~stopped => Kept)
  BY InitKept
<1>7. TypeOK /\ Fits => CommitmentsFit
  BY FitsIsEnough
<1>. QED  BY <1>1, <1>2, <1>3, <1>4, <1>5, <1>6, <1>7, InitType, StepType, PTL DEF Spec

=============================================================================
