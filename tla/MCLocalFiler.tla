---------------------------- MODULE MCLocalFiler ----------------------------
(* A small repository: three versions and a name that is no version. *)
EXTENDS LocalFiler

MCNames  == {"v1", "v2", "v3", "junk"}
MCSemVer == {"v1", "v2", "v3"}
MCPrec   == [n \in MCNames |-> CASE n = "v1" -> 1 [] n = "v2" -> 2
                                 [] n = "v3" -> 3 [] OTHER -> 0]
=============================================================================
