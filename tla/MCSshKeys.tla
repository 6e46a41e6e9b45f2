----------------------------- MODULE MCSshKeys ------------------------------
(* A key for a user; another for that user, one for a user of the system,  *)
(* which other programs write too, and one for nobody; and a value that    *)
(* does not parse.                                                         *)
EXTENDS SshKeys

MCValues     == {"one", "mixed", "bad"}
MCEntries    == [v \in MCValues |->
                   CASE v = "one"   -> <<<<"u", "k1">>>>
                     [] v = "mixed" -> <<<<"u", "k2">>, <<"root", "own">>, <<"-", "k1">>>>
                     [] v = "bad"   -> <<>>]
MCMalformed  == {"bad"}
MCBadNames   == {"-"}
MCRestricted == {"root"}
MCOwnKeys    == {"own"}
=============================================================================
