--------------------------- MODULE MCUserHandler ----------------------------
(* A request for one user, one of a later time for another, and one that   *)
(* does not parse.                                                         *)
EXTENDS UserHandler

MCRequests == {"a", "b", "x"}
MCUserOf   == [r \in MCRequests |-> IF r = "b" THEN "u2" ELSE "u1"]
MCExpires  == [r \in MCRequests |-> IF r = "b" THEN 1 ELSE 0]
MCGarbled  == {"x"}
=============================================================================
