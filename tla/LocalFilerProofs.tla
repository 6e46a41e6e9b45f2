-------------------------- MODULE LocalFilerProofs --------------------------
(***************************************************************************)
(* What holds of the version repository for every set of names, every      *)
(* capacity, with or without write errors, crashes and decay: the types,   *)
(* StoredListed, and the implementation of VersionStore.                   *)
(***************************************************************************)
EXTENDS LocalFiler, TLAPS

(* From the moment load has returned until the process ends. *)
Adding == {"mkdir", "exe", "exeCopy", "sum", "sumCopy"}

(* A directory that does not exist has no contents. *)
NoDirEmpty == \A n \in Names \ dirs : exe[n] = "none" /\ sum[n] = "none"

(* Nothing on the disk is out of the list but what load has yet to see,    *)
(* and what is being added.                                                *)
AllListed == /\ rpc = "scan" => dirs \subseteq versions \cup pending
             /\ rpc \in {"ready", "ok"} => dirs \subseteq versions
             /\ rpc \in Adding => dirs \subseteq versions \cup arg

(* What is being added cannot validate before its checksum is complete. *)
NotYetStored == rpc \in Adding => \A n \in arg : sum[n] # "whole"

(* It is not in the list yet, and after MkdirAll its directory exists. *)
FreshArg == /\ rpc \in Adding => arg # NoArg /\ arg \cap versions = {}
            /\ rpc \in Adding \ {"mkdir"} => arg \subseteq dirs

(* Nothing is added before or during Init. *)
InitNoArg == rpc \in {"down", "load", "scan"} => arg = NoArg

(* What load has looked at and left on the disk validates, or did so then. *)
Cleaned == arg = NoArg =>
             /\ rpc = "scan" => dirs \subseteq Stored \cup pending \cup Rotting
             /\ rpc = "ok" => dirs \subseteq Stored \cup Rotting

Disk == /\ NoDirEmpty /\ AllListed /\ NotYetStored
        /\ FreshArg /\ InitNoArg

IInv == TypeOK /\ Disk /\ Cleaned

-----------------------------------------------------------------------------
(* RemoveAll takes n, and nothing else, out of the stored versions. *)
LEMMA RemoveAllStored ==
  ASSUME TypeOK, NEW n \in Names, RemoveAll(n)
  PROVE  Stored' = Stored \ {n}
<1> USE NamesAssumption
<1>1. \A m \in Names : m # n => exe'[m] = exe[m] /\ sum'[m] = sum[m]
  BY DEF TypeOK, RemoveAll
<1>2. QED
  BY <1>1 DEF TypeOK, RemoveAll, Stored

(* A failing RemoveAll spoils n at most. *)
LEMMA RemoveAllFailsStored ==
  ASSUME TypeOK, NEW n \in Names, RemoveAllFails(n)
  PROVE  Stored' = Stored \/ Stored' = Stored \ {n}
<1> USE NamesAssumption
<1>1. dirs' = dirs
  BY DEF RemoveAllFails
<1>2. \A m \in Names : m # n => exe'[m] = exe[m] /\ sum'[m] = sum[m]
  BY DEF TypeOK, RemoveAllFails
<1>3. exe'[n] \in {exe[n], "none"} /\ sum'[n] \in {sum[n], "none"}
  BY DEF TypeOK, RemoveAllFails
<1>4. CASE exe'[n] = exe[n] /\ sum'[n] = sum[n]
  <2>1. Stored' = Stored
    BY <1>1, <1>2, <1>4 DEF Stored
  <2>2. QED BY <2>1
<1>5. CASE ~(exe'[n] = exe[n] /\ sum'[n] = sum[n])
  <2>1. exe'[n] # "whole" \/ sum'[n] # "whole"
    BY <1>3, <1>5
  <2>2. Stored' = Stored \ {n}
    BY <1>1, <1>2, <2>1 DEF Stored
  <2>3. QED BY <2>2
<1>6. QED BY <1>4, <1>5

(* Decay takes one version out of the stored ones. *)
LEMMA SpoilStored ==
  ASSUME TypeOK, NEW n \in Names, Spoil(n)
  PROVE  Stored' = Stored \ {n}
BY DEF TypeOK, Spoil, Stored

-----------------------------------------------------------------------------
(* The initial states, and each step of the repository, keep the types. *)
LEMMA InitIInv == Init => IInv
BY DEF Init, IInv, TypeOK, Disk, NoDirEmpty, AllListed, NotYetStored, FreshArg,
       InitNoArg, Cleaned, NoArg, Piece, Adding

LEMMA TypeStep == TypeOK /\ [Next]_filerVars => TypeOK'
<1> SUFFICES ASSUME TypeOK, [Next]_filerVars PROVE TypeOK'
  OBVIOUS
<1> USE NamesAssumption DEF TypeOK, Piece, NoArg, diskVars
<1>1. CASE ReadDir
  BY <1>1 DEF ReadDir
<1>2. ASSUME NEW n \in Names, ScanEntry(n) PROVE TypeOK'
  BY <1>2 DEF ScanEntry, ScanValid, ScanInvalid, RemoveAll, RemoveAllFails
<1>3. ASSUME NEW n \in Names, EvictOldest(n) PROVE TypeOK'
  BY <1>3 DEF EvictOldest, RemoveAll, RemoveAllFails
<1>4. CASE LoadDone
  BY <1>4 DEF LoadDone
<1>5. CASE AddMkdir \/ AddExeCreate \/ AddExeCopy
  BY <1>5 DEF AddMkdir, AddExeCreate, AddExeCopy, Put
<1>6. CASE AddSumCreate \/ AddSumCopy \/ AddSumFails
  BY <1>6 DEF AddSumCreate, AddSumCopy, AddSumFails, Put
<1>7. CASE Call
  BY <1>7 DEF Call, CallInit, CallAdd
<1>8. CASE Return \/ Environment
  BY <1>8 DEF Return, Environment, Exit, Stray, Spoil
<1>9. CASE UNCHANGED filerVars
  BY <1>9 DEF filerVars
<1>10. QED
  BY <1>1, <1>2, <1>3, <1>4, <1>5, <1>6, <1>7, <1>8, <1>9 DEF Next, Step

(* The types hold in every state. *)
THEOREM TypeCorrect == Spec => []TypeOK
<1>1. Init => TypeOK
  BY InitIInv DEF IInv
<1>2. QED
  BY <1>1, TypeStep, PTL DEF Spec

-----------------------------------------------------------------------------
(* The inductive invariant, one step per action of the repository. *)
LEMMA DiskStep == IInv /\ [Next]_filerVars => Disk'
<1> SUFFICES ASSUME IInv, [Next]_filerVars PROVE Disk'
  OBVIOUS
<1> USE NamesAssumption
    DEF IInv, TypeOK, Disk, NoDirEmpty, AllListed, NotYetStored, FreshArg,
        InitNoArg, Adding, NoArg, diskVars
<1>1. CASE ReadDir
  BY <1>1 DEF ReadDir
<1>2. ASSUME NEW n \in Names, ScanEntry(n) PROVE Disk'
  <2>1. CASE ScanValid(n)
    BY <1>2, <2>1 DEF ScanEntry, ScanValid
  <2>2. CASE ScanInvalid(n) /\ RemoveAll(n)
    BY <1>2, <2>2 DEF ScanEntry, ScanInvalid, RemoveAll, RemoveAllFails
  <2>3. CASE ScanInvalid(n) /\ RemoveAllFails(n) /\ rpc' = "err"
    BY <1>2, <2>3 DEF ScanEntry, RemoveAllFails
  <2>4. QED
    BY <1>2, <2>1, <2>2, <2>3 DEF ScanEntry, ScanInvalid
<1>3. ASSUME NEW n \in Names, EvictOldest(n) PROVE Disk'
  <2>1. CASE RemoveAll(n) /\ rpc' = "load"
    BY <1>3, <2>1 DEF EvictOldest, RemoveAll
  <2>2. CASE RemoveAllFails(n) /\ rpc' = "err"
    BY <1>3, <2>2 DEF EvictOldest, RemoveAllFails
  <2>3. QED
    BY <1>3, <2>1, <2>2 DEF EvictOldest
<1>4. CASE LoadDone
  BY <1>4 DEF LoadDone
<1>5. CASE AddMkdir
  BY <1>5 DEF AddMkdir
<1>6. CASE AddExeCreate \/ AddExeCopy
  BY <1>6 DEF AddExeCreate, AddExeCopy, Put
<1>7. CASE AddSumCreate
  BY <1>7 DEF AddSumCreate, Put
<1>8. CASE AddSumCopy \/ AddSumFails
  BY <1>8 DEF AddSumCopy, AddSumFails, Put
<1>9. CASE Call
  BY <1>9 DEF Call, CallInit, CallAdd, Get
<1>10. CASE Return \/ Exit
  BY <1>10 DEF Return, Exit
<1>11. ASSUME NEW n \in Names, Stray(n) \/ Spoil(n) PROVE Disk'
  BY <1>11 DEF Stray, Spoil, Stored
<1>12. CASE UNCHANGED filerVars
  BY <1>12 DEF filerVars
<1>13. QED
  BY <1>1, <1>2, <1>3, <1>4, <1>5, <1>6, <1>7, <1>8, <1>9, <1>10, <1>11, <1>12
     DEF Next, Step, Environment

(* load's loop leaves behind it only directories that validate. *)
LEMMA CleanedStep == IInv /\ [Next]_filerVars => Cleaned'
<1> SUFFICES ASSUME IInv, [Next]_filerVars PROVE Cleaned'
  OBVIOUS
<1> USE NamesAssumption DEF IInv, Cleaned, diskVars
<1>a. TypeOK
  OBVIOUS
<1>1. CASE ReadDir
  BY <1>1 DEF ReadDir
<1>2. ASSUME NEW n \in Names, ScanEntry(n) PROVE Cleaned'
  <2>1. CASE ScanValid(n)
    BY <1>2, <2>1 DEF ScanEntry, ScanValid, Stored
  <2>2. CASE ScanInvalid(n) /\ RemoveAll(n) /\ rpc' = rpc /\ pending' = pending \ {n}
    <3>1. Stored' = Stored \ {n} /\ dirs' = dirs \ {n}
      BY <1>a, <2>2, RemoveAllStored DEF RemoveAll
    <3>2. QED
      BY <1>2, <2>2, <3>1 DEF ScanEntry
  <2>3. CASE ScanInvalid(n) /\ RemoveAllFails(n) /\ rpc' = "err"
    BY <2>3
  <2>4. QED
    BY <1>2, <2>1, <2>2, <2>3 DEF ScanEntry, ScanInvalid
<1>3. ASSUME NEW n \in Names, EvictOldest(n) PROVE Cleaned'
  BY <1>3 DEF EvictOldest
<1>4. CASE LoadDone
  BY <1>4 DEF LoadDone, Stored
<1>5. CASE AddMkdir \/ AddExeCreate \/ AddExeCopy \/ AddSumCreate
  BY <1>5 DEF AddMkdir, AddExeCreate, AddExeCopy, AddSumCreate, Disk, InitNoArg
<1>6. CASE AddSumCopy \/ AddSumFails
  <2>1. arg # NoArg /\ arg' = arg
    BY <1>6 DEF Disk, FreshArg, Adding, AddSumCopy, AddSumFails
  <2>2. QED
    BY <1>6, <2>1 DEF AddSumCopy, AddSumFails
<1>7. CASE Call
  BY <1>7 DEF Call, CallInit, CallAdd
<1>8. CASE Return \/ Exit
  BY <1>8 DEF Return, Exit
<1>9. ASSUME NEW n \in Names, Stray(n) \/ Spoil(n) PROVE Cleaned'
  <2>1. CASE Stray(n)
    BY <2>1 DEF Stray
  <2>2. CASE Spoil(n)
    <3>1. Stored' = Stored \ {n} /\ n \in Rotting
      BY <1>a, <2>2, SpoilStored DEF Spoil
    <3>2. QED
      BY <2>2, <3>1 DEF Spoil
  <2>3. QED
    BY <1>9, <2>1, <2>2
<1>10. CASE UNCHANGED filerVars
  BY <1>10 DEF filerVars, Stored
<1>11. QED
  BY <1>1, <1>2, <1>3, <1>4, <1>5, <1>6, <1>7, <1>8, <1>9, <1>10
     DEF Next, Step, Environment

LEMMA IInvCorrect == Spec => []IInv
<1>1. IInv /\ [Next]_filerVars => IInv'
  BY TypeStep, DiskStep, CleanedStep DEF IInv
<1>2. QED
  BY InitIInv, <1>1, PTL DEF Spec

(* Between calls, no intact version on the disk is missing from the list   *)
(* that List and Get answer from (localFiler.go, load and Add).            *)
THEOREM StoredListedCorrect == Spec => []StoredListed
<1>1. IInv => StoredListed
  BY DEF IInv, Disk, AllListed, StoredListed, Stored
<1>2. QED
  BY <1>1, IInvCorrect, PTL

(* When Init returns nil on a disk that does not decay by itself, every    *)
(* entry below the root validates (localFiler.go:83-102).                  *)
THEOREM InitCleansDiskCorrect == Spec => []InitCleansDisk
<1>1. IInv => InitCleansDisk
  BY DEF IInv, Cleaned, InitCleansDisk, Stored
<1>2. QED
  BY <1>1, IInvCorrect, PTL

-----------------------------------------------------------------------------
(* The stored versions change in one step per added version, and leave it  *)
(* one oldest version at a time.                                           *)
LEMMA StoreStep == IInv /\ [Next]_filerVars => [Store!Next]_Stored
<1> SUFFICES ASSUME IInv, [Next]_filerVars PROVE [Store!Next]_Stored
  OBVIOUS
<1> USE NamesAssumption DEF diskVars
<1>a. TypeOK /\ Disk
  BY DEF IInv
<1>b. ASSUME NEW n \in Names, Stored' = Stored \ {n},
             n \notin Stored \/ n \in Rotting \/ (\A m \in Stored : Prec[n] <= Prec[m])
      PROVE  [Store!Next]_Stored
  BY <1>b DEF Store!Next, Store!Rot, Store!EvictOldest
<1>1. CASE ReadDir \/ LoadDone
  BY <1>1 DEF ReadDir, LoadDone, Stored
<1>2. ASSUME NEW n \in Names, ScanEntry(n) PROVE [Store!Next]_Stored
  <2>1. CASE ScanValid(n)
    BY <2>1 DEF ScanValid, Stored
  <2>2. CASE ScanInvalid(n)
    <3>1. Stored' = Stored \/ Stored' = Stored \ {n}
      BY <1>a, <2>2, RemoveAllStored, RemoveAllFailsStored DEF ScanInvalid
    <3>2. n \notin Stored \/ n \in Rotting
      BY <2>2 DEF ScanInvalid
    <3>3. QED
      BY <1>b, <3>1, <3>2
  <2>3. QED
    BY <1>2, <2>1, <2>2 DEF ScanEntry
<1>3. ASSUME NEW n \in Names, EvictOldest(n) PROVE [Store!Next]_Stored
  <2>1. Stored' = Stored \/ Stored' = Stored \ {n}
    BY <1>a, <1>3, RemoveAllStored, RemoveAllFailsStored DEF EvictOldest
  <2>2. \A m \in Stored : Prec[n] <= Prec[m]
    BY <1>a, <1>3 DEF EvictOldest, Oldest, Disk, AllListed, Stored
  <2>3. QED
    BY <1>b, <2>1, <2>2
<1>4. CASE AddMkdir
  BY <1>a, <1>4 DEF AddMkdir, Disk, NotYetStored, Adding, Stored
<1>5. CASE AddExeCreate \/ AddExeCopy
  <2>1. \A n \in arg : sum[n] # "whole"
    BY <1>a, <1>5 DEF AddExeCreate, AddExeCopy, Disk, NotYetStored, Adding
  <2>2. \A n \in Names \ arg : exe'[n] = exe[n]
    BY <1>a, <1>5 DEF AddExeCreate, AddExeCopy, Put
  <2>3. dirs' = dirs /\ sum' = sum
    BY <1>5 DEF AddExeCreate, AddExeCopy
  <2>4. QED
    BY <2>1, <2>2, <2>3 DEF Stored
<1>6. CASE AddSumCreate
  <2>1. \A n \in arg : sum[n] # "whole"
    BY <1>a, <1>6 DEF AddSumCreate, Disk, NotYetStored, Adding
  <2>2. \A n \in Names : sum'[n] = IF n \in arg THEN "torn" ELSE sum[n]
    BY <1>6 DEF AddSumCreate, Put
  <2>3. QED
    BY <1>6, <2>1, <2>2 DEF AddSumCreate, Stored
<1>7. CASE AddSumCopy
  <2>1. PICK n \in Names : arg = {n}
    BY <1>a, <1>7 DEF AddSumCopy, TypeOK, Disk, FreshArg, Adding
  <2>2. sum[n] # "whole"
    BY <1>a, <1>7, <2>1 DEF AddSumCopy, Disk, NotYetStored, Adding
  <2>3. \A m \in Names : sum'[m] = IF m = n THEN "whole" ELSE sum[m]
    BY <1>7, <2>1 DEF AddSumCopy, Put
  <2>4. dirs' = dirs /\ exe' = exe
    BY <1>7 DEF AddSumCopy
  <2>5. n \notin Stored
    BY <2>2 DEF Stored
  <2>6. Stored' = Stored \/ Stored' = Stored \cup {n}
    <3>1. CASE n \in dirs \cap SemVer /\ exe[n] = "whole"
      BY <2>3, <2>4, <3>1 DEF Stored
    <3>2. CASE ~(n \in dirs \cap SemVer /\ exe[n] = "whole")
      BY <2>3, <2>4, <2>5, <3>2 DEF Stored
    <3>3. QED BY <3>1, <3>2
  <2>7. QED
    BY <2>5, <2>6 DEF Store!Next, Store!Add
<1>8. CASE AddSumFails
  BY <1>8 DEF AddSumFails, Stored
<1>9. CASE Call \/ Return \/ Exit
  BY <1>9 DEF Call, CallInit, CallAdd, Return, Exit, Stored
<1>10. ASSUME NEW n \in Names, Stray(n) PROVE [Store!Next]_Stored
  BY <1>a, <1>10 DEF Stray, Disk, NoDirEmpty, Stored
<1>11. ASSUME NEW n \in Names, Spoil(n) PROVE [Store!Next]_Stored
  <2>1. Stored' = Stored \ {n}
    BY <1>a, <1>11, SpoilStored
  <2>2. QED
    BY <1>b, <1>11, <2>1 DEF Spoil
<1>12. CASE UNCHANGED filerVars
  BY <1>12 DEF filerVars, Stored
<1>13. QED
  BY <1>1, <1>2, <1>3, <1>4, <1>5, <1>6, <1>7, <1>8, <1>9, <1>10, <1>11, <1>12
     DEF Next, Step, Environment

(* The repository implements VersionStore: whatever crashes and fails, a   *)
(* version is committed by the one write that completes its checksum, and  *)
(* rotation gives up a stored version no other stored one is older than.   *)
THEOREM ImplementsStore == Spec => StoreSpec
<1>1. Init => Store!Init
  BY DEF Init, Store!Init, Stored
<1>2. QED
  BY <1>1, StoreStep, IInvCorrect, PTL DEF Spec, StoreSpec, Store!Spec
=============================================================================
