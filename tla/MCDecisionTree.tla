-------------------------- MODULE MCDecisionTree --------------------------
(***************************************************************************)
(* An instance of DecisionTree for TLC: a camp with its models, one that   *)
(* is created later, and trees of at most two splits.                      *)
(***************************************************************************)
EXTENDS DecisionTree

MCFirstCamps == <<"k1">>
MCJobs       == <<"admission", "role">>

Leaf(share) == [distribution |-> [ACCEPT |-> share, REJECT |-> 1000 - share]]
Age         == [feature |-> "age_years", threshold |-> 30]
Skills      == [feature |-> "skills_score", threshold |-> 5]

\* Shares on either side of the limits, whole and at the end of uncertain ways,
\* and classes among which there is no ACCEPT.
MCTrees ==
    {<<Leaf(294)>>, <<Leaf(705)>>,
     <<Age, Leaf(705), Leaf(1000)>>,
     <<Age, Skills, Leaf(294), Leaf(500), Leaf(1000)>>,
     <<[distribution |-> [YES |-> 100, NO |-> 900]]>>}

MCApplicants == [age_years : {30, 33}, skills_score : {6}]

===========================================================================
