----------------------------- MODULE LocalFiler -----------------------------
(***************************************************************************)
(* The updater's version repository, pkg/repo/localFiler.go: a directory   *)
(* per version below a root, each holding an executable and the file with  *)
(* its checksum, and the in-memory list of versions that every query is    *)
(* answered from.                                                          *)
(*                                                                         *)
(* One process at a time uses the repository.  It calls Init once and then *)
(* Add; rpc is where it is inside the running call, "ok" and "err" are the *)
(* call's results, "down" says that no process is running.  Every write to *)
(* the disk is a step of its own, so that the process may die between any  *)
(* two of them (Exit) and leave the directory half-written.                *)
(*                                                                         *)
(* versions is a set: the slice never holds a name twice, and each reader  *)
(* sorts it or searches it linearly, so its order is not state.            *)
(***************************************************************************)
EXTENDS Integers, FiniteSets

CONSTANTS Names,                \* directory names below the root
          SemVer,               \* those that parse as a semantic version
          Prec,                 \* precedence of a name; 0 if it does not parse
          NumVersionsToCache,
          MayFail,              \* may a write, a removal or ReadDir fail?
          Rotting               \* names whose files may spoil, or fail to be read

ASSUME NamesAssumption ==
  /\ IsFiniteSet(Names)
  /\ SemVer \subseteq Names
  /\ Prec \in [Names -> Nat]
  /\ NumVersionsToCache \in Nat
  /\ MayFail \in BOOLEAN
  /\ Rotting \subseteq Names

VARIABLES dirs,      \* the entries that exist below the root
          exe,       \* exe[n], sum[n]: what is in each version's directory
          sum,
          versions,  \* LocalFiler.versions
          rpc,
          arg,       \* the version being added; none during Init
          pending    \* entries of ReadDir that load has yet to look at

filerVars == <<dirs, exe, sum, versions, rpc, arg, pending>>
diskVars  == <<dirs, exe, sum>>

Piece == {"none", "torn", "whole"}   \* no file, a part of it, all of it

(* validateVersion: the name parses, and directory, executable and a       *)
(* matching checksum are there.                                            *)
Stored == {n \in dirs \cap SemVer : exe[n] = "whole" /\ sum[n] = "whole"}

NoArg == {}          \* arg is a set: {} or the one version being added

Get(n) == n \in versions

(* Wrong: the list taken for one in ascending order. *)
NewestAsOldest(n) == /\ n \in versions
                     /\ \A m \in versions : Prec[m] <= Prec[n]

(* The last element of the sorted list; the sort is not stable. *)
Oldest(n) == /\ n \in versions
             /\ \A m \in versions : Prec[n] <= Prec[m]

(* Removes directory n, or fails after removing some of its files. *)
RemoveAll(n) == /\ dirs' = dirs \ {n}
                /\ exe'  = [exe EXCEPT ![n] = "none"]
                /\ sum'  = [sum EXCEPT ![n] = "none"]

RemoveAllFails(n) == /\ MayFail
                     /\ \E e \in {exe[n], "none"}, s \in {sum[n], "none"} :
                          /\ exe' = [exe EXCEPT ![n] = e]
                          /\ sum' = [sum EXCEPT ![n] = s]
                     /\ UNCHANGED dirs

-----------------------------------------------------------------------------
(* Init and load *)

CallInit == /\ rpc = "down"
            /\ rpc' = "load"
            /\ UNCHANGED <<diskVars, versions, arg, pending>>

(* MkdirAll of the root, and ReadDir. *)
ReadDir == /\ rpc = "load"
           /\ \/ /\ rpc' = "scan"
                 /\ versions' = {}
                 /\ pending' = dirs
              \/ /\ MayFail
                 /\ rpc' = "err"
                 /\ UNCHANGED <<versions, pending>>
           /\ UNCHANGED <<diskVars, arg>>

(* The body of load's loop.  An entry that does not validate is removed    *)
(* from the disk, and its name is appended to the list all the same.       *)
ScanValid(n) == /\ n \in Stored
                /\ versions' = versions \cup {n}
                /\ pending' = pending \ {n}
                /\ UNCHANGED <<diskVars, rpc>>

(* Wrong: the entry stays on the disk. *)
ScanInvalidKeeps(n) == /\ n \notin Stored \/ n \in Rotting
                       /\ versions' = versions \cup {n}
                       /\ pending' = pending \ {n}
                       /\ UNCHANGED <<diskVars, rpc>>

ScanInvalid(n) == /\ n \notin Stored \/ n \in Rotting
                  /\ \/ /\ RemoveAll(n)
                        /\ versions' = versions \cup {n}
                        /\ pending' = pending \ {n}
                        /\ UNCHANGED rpc
                     \/ /\ RemoveAllFails(n)
                        /\ rpc' = "err"
                        /\ pending' = {}
                        /\ UNCHANGED versions

ScanEntry(n) == /\ rpc = "scan"
                /\ n \in pending
                /\ ScanValid(n) \/ ScanInvalid(n)
                /\ UNCHANGED arg

LoadDone == /\ rpc = "scan"
            /\ pending = {}
            /\ Cardinality(versions) <= NumVersionsToCache
            /\ rpc' = "ok"
            /\ UNCHANGED <<diskVars, versions, arg, pending>>

(* Wrong: loads again without having removed the directory. *)
EvictOldestKeeps(n) == /\ rpc = "scan"
                       /\ pending = {}
                       /\ Cardinality(versions) > NumVersionsToCache
                       /\ Oldest(n)
                       /\ rpc' = "load"
                       /\ UNCHANGED <<diskVars, versions, arg, pending>>

(* Remove(oldest), which loads the list again; nothing follows the nested  *)
(* load but the return of its error, so the recursion is a loop.           *)
EvictOldest(n) == /\ rpc = "scan"
                  /\ pending = {}
                  /\ Cardinality(versions) > NumVersionsToCache
                  /\ Oldest(n)
                  /\ \/ RemoveAll(n) /\ rpc' = "load"
                     \/ RemoveAllFails(n) /\ rpc' = "err"
                  /\ UNCHANGED <<versions, arg, pending>>

-----------------------------------------------------------------------------
(* Add *)

(* srcOk: the file to add exists beside a checksum file that matches it. *)
CallAdd(n, srcOk) == /\ rpc = "ready"
                     /\ arg' = {n}
                     /\ rpc' = IF ~Get(n) /\ srcOk THEN "mkdir" ELSE "err"
                     /\ UNCHANGED <<diskVars, versions, pending>>

(* Wrong: loses what the other directories hold. *)
PutAlone(f, p) == [n \in arg |-> p]

(* The directory contents f once the version being added holds p. *)
Put(f, p) == [n \in Names |-> IF n \in arg THEN p ELSE f[n]]

AddMkdir == /\ rpc = "mkdir"
            /\ \/ rpc' = "exe" /\ dirs' = dirs \cup arg
               \/ MayFail /\ rpc' = "err" /\ UNCHANGED dirs
            /\ UNCHANGED <<exe, sum, versions, arg, pending>>

(* copy creates or truncates the destination before it writes. *)
AddExeCreate == /\ rpc = "exe"
                /\ \/ rpc' = "exeCopy" /\ exe' = Put(exe, "torn")
                   \/ MayFail /\ rpc' = "err" /\ UNCHANGED exe
                /\ UNCHANGED <<dirs, sum, versions, arg, pending>>

AddExeCopy == /\ rpc = "exeCopy"
              /\ \/ rpc' = "sum" /\ exe' = Put(exe, "whole")
                 \/ MayFail /\ rpc' = "err" /\ UNCHANGED exe
              /\ UNCHANGED <<dirs, sum, versions, arg, pending>>

AddSumCreate == /\ rpc = "sum"
                /\ rpc' = "sumCopy"
                /\ sum' = Put(sum, "torn")
                /\ UNCHANGED <<dirs, exe, versions, arg, pending>>

(* Wrong: does not list what it has added. *)
AddSumCopyUnlisted == /\ rpc = "sumCopy"
                      /\ rpc' = "ok"
                      /\ sum' = Put(sum, "whole")
                      /\ UNCHANGED <<dirs, exe, versions, arg, pending>>

AddSumCopy == /\ rpc = "sumCopy"
              /\ rpc' = "ok"
              /\ sum' = Put(sum, "whole")
              /\ versions' = versions \cup arg
              /\ UNCHANGED <<dirs, exe, arg, pending>>

(* An error of the second copy is logged and not returned. *)
AddSumFails == /\ MayFail
               /\ rpc \in {"sum", "sumCopy"}
               /\ rpc' = "ok"
               /\ versions' = versions \cup arg
               /\ UNCHANGED <<diskVars, arg, pending>>

-----------------------------------------------------------------------------
(* The callers, and the environment *)

(* The caller goes on after a success. *)
Return == /\ rpc = "ok"
          /\ rpc' = "ready"
          /\ arg' = NoArg
          /\ UNCHANGED <<diskVars, versions, pending>>

(* The process ends: by itself, by log.Fatal on any error, or killed. *)
Exit == /\ rpc # "down"
        /\ rpc' = "down"
        /\ versions' = {}
        /\ arg' = NoArg
        /\ pending' = {}
        /\ UNCHANGED diskVars

(* A foreign entry below the root, empty or not a directory at all. *)
Stray(n) == /\ rpc = "down"
            /\ n \notin dirs
            /\ dirs' = dirs \cup {n}
            /\ UNCHANGED <<exe, sum, versions, rpc, arg, pending>>

Spoil(n) == /\ n \in Rotting
            /\ n \in Stored
            /\ exe' = [exe EXCEPT ![n] = "torn"]
            /\ UNCHANGED <<dirs, sum, versions, rpc, arg, pending>>

-----------------------------------------------------------------------------
Init == /\ dirs = {}
        /\ exe = [n \in Names |-> "none"]
        /\ sum = [n \in Names |-> "none"]
        /\ versions = {}
        /\ rpc = "down"
        /\ arg = NoArg
        /\ pending = {}

(* What the running call does on its own. *)
Step == \/ ReadDir
        \/ \E n \in Names : ScanEntry(n) \/ EvictOldest(n)
        \/ LoadDone
        \/ AddMkdir \/ AddExeCreate \/ AddExeCopy
        \/ AddSumCreate \/ AddSumCopy \/ AddSumFails

Call == CallInit \/ \E n \in Names, srcOk \in BOOLEAN : CallAdd(n, srcOk)

Environment == Exit \/ \E n \in Names : Stray(n) \/ Spoil(n)

Next == Step \/ Call \/ Return \/ Environment

(* A running call is executed; nothing says that calls are made.           *)
Spec == Init /\ [][Next]_filerVars /\ WF_filerVars(Step)

-----------------------------------------------------------------------------
TypeOK == /\ dirs \subseteq Names
          /\ exe \in [Names -> Piece]
          /\ sum \in [Names -> Piece]
          /\ versions \subseteq Names
          /\ rpc \in {"down", "load", "scan", "ready", "mkdir", "exe", "exeCopy",
                      "sum", "sumCopy", "ok", "err"}
          /\ arg \in {NoArg} \cup {{n} : n \in Names}
          /\ pending \subseteq Names

(* Between calls every intact version on disk is in the list: neither the  *)
(* removal of broken entries, nor rotation, nor an Add cut short at any    *)
(* write loses sight of a version the updater could fall back to.          *)
StoredListed == rpc \in {"ready", "ok"} => Stored \subseteq versions

(* When Init returns nil, every entry that does not validate is gone from  *)
(* the disk, however many rotations load went through, unless it has       *)
(* spoiled since                                                           *)
(* (localFiler_test.go "remove version from repository if ...").           *)
InitCleansDisk == (rpc = "ok" /\ arg = NoArg) => dirs \ Rotting \subseteq Stored

(* Rotation recurses into load until the list fits, and always ends. *)
LoadTerminates == rpc = "load" ~> rpc \in {"ok", "err", "down"}

(* The repository is a VersionStore: additions are atomic under crashes    *)
(* and write errors, and rotation gives up oldest versions only.           *)
Store == INSTANCE VersionStore WITH stored <- Stored
StoreSpec == Store!Spec

(* What the tests' comments promise: an entry that fails validation is     *)
(* removed from the repository, hence not offered by List and Get.         *)
InitListsOnlyStored ==
  (rpc = "ok" /\ arg = NoArg) => versions \ Rotting \subseteq Stored
=============================================================================
