---------------------------- MODULE MCGangBinder ----------------------------
(***************************************************************************)
(* A gang of three members on two nodes that needs two of them; the third  *)
(* preempts a victim.  The second one only comes as long as nothing goes   *)
(* wrong, the other two are taken through two changes or faults.           *)
(***************************************************************************)
EXTENDS GangBinder

UnitOfDef == [p1 |-> "g", p2 |-> "g", p3 |-> "g"]
NodeForDef == [p1 |-> "n1", p2 |-> "n1", p3 |-> "n2"]
VictimsOfDef == [p1 |-> {}, p2 |-> {}, p3 |-> {"v"}]
MinMemberDef == [g |-> 2]

TroubleWithTwo == events["p2"] # <<"none">> => changes + faults = 0
=============================================================================
