---------------------------- MODULE VersionStore ----------------------------
(***************************************************************************)
(* What the on-disk version repository of the updater promises, whatever   *)
(* crashes and write errors happen underneath: a version becomes stored in *)
(* one indivisible step, and the only version ever given up on purpose is  *)
(* one that no other stored version is older than.  LocalFiler implements  *)
(* this specification (LocalFiler!StoreSpec).                              *)
(***************************************************************************)
EXTENDS Integers

CONSTANTS Names,     \* directory names below the repository root
          Prec,      \* Prec[n]: the semver precedence of name n
          Rotting    \* the versions that the disk may spoil by itself

VARIABLE stored      \* the versions whose executable and checksum are intact

Init == stored = {}

(* A new version is committed, completely or not at all. *)
Add(n) == /\ n \notin stored
          /\ stored' = stored \cup {n}

(* Rotation: a version no stored version is older than makes room. *)
EvictOldest(n) == /\ n \in stored
                  /\ \A m \in stored : Prec[n] <= Prec[m]
                  /\ stored' = stored \ {n}

(* The environment spoils, or cannot read, a stored version. *)
Rot(n) == /\ n \in stored \cap Rotting
          /\ stored' = stored \ {n}

Next == \E n \in Names : Add(n) \/ EvictOldest(n) \/ Rot(n)

Spec == Init /\ [][Next]_stored
=============================================================================
