------------------------- MODULE MCIntercampRequest -------------------------
(***************************************************************************)
(* An instance of IntercampRequest for TLC: a request for anybody of a     *)
(* trade and one for a person by name; the goods of both are there, or of  *)
(* one of them.                                                            *)
(***************************************************************************)
EXTENDS IntercampRequest

MCAmount  == [r1 |-> 2, r2 |-> 2]
MCNamed   == [r1 |-> {}, r2 |-> {"p3"}]
MCByTrade == [r1 |-> 1, r2 |-> 0]
MCCrews   == [r1 |-> {{"p1"}}, r2 |-> {{"p1"}, {"p2"}}]

=============================================================================
