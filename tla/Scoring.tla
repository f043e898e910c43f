------------------------------ MODULE Scoring ------------------------------
(***************************************************************************)
(* How the service of decision trees turns a trained tree and the features *)
(* of an applicant into a score and an action                              *)
(* (src/modules/decisionTree/decisionTree.service.ts, DT below).           *)
(*                                                                         *)
(* A tree is a function of the positions of a heap: 1 is the root, 2n and  *)
(* 2n+1 are the children of n.  A leaf keeps its distribution, in shares   *)
(* of a thousand.                                                          *)
(***************************************************************************)
EXTENDS Integers

Accept  == "ACCEPT"
Actions == {"AUTO_APPROVE", "AUTO_REJECT", "SUGGEST"}

IsLeaf(node) == "distribution" \in DOMAIN node

\* What a split has done to an applicant that is close to its threshold: a
\* margin of a whole scale or more leaves no doubt (DT:589-595).
Scale(feature) == IF feature \in {"age_years", "experience_years"} THEN 10 ELSE 3

Margin(node, features) ==
    LET d == features[node.feature] - node.threshold IN IF d < 0 THEN -d ELSE d

Capped(m, limit) == IF m > limit THEN limit ELSE m

\* The child a split sends an applicant to; a tie goes left.
Child(n, node, features) ==
    IF features[node.feature] <= node.threshold THEN 2 * n ELSE 2 * n + 1

\* The leaf an applicant ends in.
LeafDistribution(tree, features) ==
    LET From[n \in DOMAIN tree] ==
            IF IsLeaf(tree[n]) THEN tree[n].distribution
                               ELSE From[Child(n, tree[n], features)]
    IN  From[1]

\* The product of the confidences of the splits on the way, each between a half
\* and one, as a fraction.
PathConfidence(tree, features) ==
    LET From[n \in DOMAIN tree] ==
            IF IsLeaf(tree[n])
            THEN [num |-> 1, den |-> 1]
            ELSE LET s    == Scale(tree[n].feature)
                     rest == From[Child(n, tree[n], features)]
                 IN  [num |-> (s + Capped(Margin(tree[n], features), s)) * rest.num,
                      den |-> 2 * s * rest.den]
    IN  From[1]

\* The classes ml-cart may predict: those with the largest share of a leaf.  The
\* library is external; which way it sends a tie is not known here, so the
\* leaf on the other side of a tie is one of those it may use.
Reachable(tree, features) ==
    LET From[n \in DOMAIN tree] ==
            IF IsLeaf(tree[n]) THEN {n}
            ELSE From[Child(n, tree[n], features)]
                 \cup IF Margin(tree[n], features) = 0 THEN From[2 * n + 1] ELSE {}
    IN  From[1]

Predictions(tree, features) ==
    UNION {LET d == tree[n].distribution
           IN  {c \in DOMAIN d : \A other \in DOMAIN d : d[other] <= d[c]} :
               n \in Reachable(tree, features)}

-----------------------------------------------------------------------------
\* Math.round of num / den, for natural num.
Round(num, den) == (2 * num + den) \div (2 * den)

\* The share of ACCEPT in the leaf in per cent, or of the class predicted if the
\* model has no such class (DT:442-464).
RawScore(distribution, prediction) ==
    LET class == IF Accept \in DOMAIN distribution THEN Accept ELSE prediction
    IN  Round(100 * distribution[class], 1000)

\* Mutant of FuzzyScore: the doubts are left out.
FuzzyScoreRaw(raw, confidence) == raw

\* The doubts of the path pull the score towards 50.
FuzzyScore(raw, confidence) ==
    Round(50 * confidence.den + (raw - 50) * confidence.num, confidence.den)

DecisionAction(score, prediction) ==
    CASE score > 70 -> IF prediction = Accept THEN "AUTO_APPROVE" ELSE "AUTO_REJECT"
      [] score < 30 -> "AUTO_REJECT"
      [] OTHER      -> "SUGGEST"

\* What the service answers for an applicant, with the share of ACCEPT and the
\* confidence it comes from.
Explained(tree, features, prediction) ==
    LET leaf       == LeafDistribution(tree, features)
        confidence == PathConfidence(tree, features)
        score      == FuzzyScore(RawScore(leaf, prediction), confidence)
    IN  [share      |-> IF Accept \in DOMAIN leaf THEN leaf[Accept] ELSE 0,
         confidence |-> confidence,
         prediction |-> prediction,
         action     |-> DecisionAction(score, prediction)]

=============================================================================
