----------------------------- MODULE MCSecrets ------------------------------
(* Two values for two files, one of them in both values, and one that does *)
(* not parse.                                                              *)
EXTENDS SecretsHandler

MCValues    == {"v1", "v2", "bad"}
MCMalformed == {"bad"}
MCFiles     == {"f", "g"}
MCSecrets   == {"s1", "s2"}
MCWanted    == [v \in MCValues |->
                  CASE v = "v1"  -> [f \in MCFiles |-> "s1"]
                    [] v = "v2"  -> [f \in {"f"} |-> "s2"]
                    [] v = "bad" -> [f \in {} |-> "s1"]]
=============================================================================
