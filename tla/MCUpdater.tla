------------------------------ MODULE MCUpdater -----------------------------
(* Three releases; by choice of Sound some of them do not come up. *)
EXTENDS Updater

MCNames == {"v1", "v2", "v3"}
MCPrec  == [n \in MCNames |-> CASE n = "v1" -> 1 [] n = "v2" -> 2 [] n = "v3" -> 3]
MCSound == {"v1"}
=============================================================================
