---------------------------- MODULE UpdaterProofs ----------------------------
(***************************************************************************)
(* What holds of the updater's commands for every set of versions, every   *)
(* capacity of the repository, whatever fails, however often a command is  *)
(* killed or the machine restarted, and whichever services come up.        *)
(*                                                                         *)
(* The repository is used, not opened: each step of the updater is a step  *)
(* of LocalFiler or leaves it alone, so that what LocalFilerProofs shows   *)
(* of the one holds in the other.                                          *)
(***************************************************************************)
EXTENDS Updater, WellFoundedInduction, TLAPS

Repository == INSTANCE LocalFilerProofs

(* The steps of Remove, which are the first of install, and the rest of it. *)
Removing   == {"exist", "stopping", "delete", "wipe"}
Installing == {"copy", "copying", "service", "start", "starting"}

(* Where the repository's running call is, at each step of the command. *)
RepoAt ==
  /\ upc = "idle" <=> rpc = "down"
  /\ upc = "init" => rpc \in {"load", "scan", "ok", "err"}
  /\ upc \in {"addInstalled", "addLatest"} =>
       rpc \in {"mkdir", "exe", "exeCopy", "sum", "sumCopy", "ok", "err"}
  /\ upc = "err" => rpc \in {"ready", "ok", "err"}
  /\ upc \notin {"idle", "init", "addInstalled", "addLatest", "err"} => rpc = "ready"

(* Where the service manager's is. *)
SvcAt ==
  /\ upc = "stopping" => spc \in {"stopped", "ok", "err"}
  /\ upc = "starting" => spc \in {"started", "ok", "err"}
  /\ upc \notin {"stopping", "starting", "cmdWait"} => spc = "idle"

(* Which commands come to a step. *)
CmdAt ==
  /\ upc # "idle" => cmd \in Commands
  /\ upc \in {"latest", "addLatest", "choose"} \cup Installing => cmd = "update"
  /\ upc \in Removing => cmd \in {"update", "remove"}
  /\ upc \in {"startCmd", "stopCmd", "cmdWait"} => cmd \in {"start", "stop"}

(* There is a target from Choose to the end of an update. *)
TargetAt ==
  /\ cmd # "update" => target = None
  /\ upc \in {"idle", "init", "installed", "addInstalled", "latest", "addLatest", "choose"}
       => target = None /\ ~rolling
  /\ cmd = "update" /\ upc \in Removing \cup Installing => target # None

(* A service without an entry does not run, and one whose entry is marked  *)
(* for deletion has stopped: only a handle keeps the entry.                *)
EntryState ==
  /\ entry = "absent" => state = "Stopped"
  /\ entry = "marked" => state = "Stopped" /\ leak

(* The service has stopped before its entry is deleted, and nothing can    *)
(* start it from then until the executable is whole.                       *)
StoppedFirst ==
  /\ upc = "stopping" /\ spc = "ok" => state = "Stopped"
  /\ upc \in {"delete", "wipe"} => state = "Stopped"
  /\ upc \in {"wipe", "copy", "copying"} => entry # "present"

(* What the agent's executable is, at each step of the command. *)
AgentAt ==
  /\ torn => installed = None
  /\ upc \in {"addInstalled", "latest", "addLatest", "choose"} => installed = from
  /\ upc \in {"copy", "copying"} => installed = None
  /\ upc = "copying" => torn
  /\ upc \in {"service", "start", "starting"} =>
       installed = target \/ (installed = None /\ torn)
  /\ upc = "starting" /\ spc = "ok" => installed = target /\ entry = "present"

(* Once added, the version the machine had and the server's latest stay in *)
(* the repository's list for the rest of the command.                      *)
FromListed ==
  /\ upc = "addInstalled" => arg = from /\ (rpc = "ok" => from \subseteq versions)
  /\ upc \notin {"idle", "init", "installed", "addInstalled", "err"} => from \subseteq versions
  /\ upc = "addLatest" => arg = latest /\ (rpc = "ok" => latest \subseteq versions)
  /\ upc = "choose" => latest \subseteq versions

(* The target is above the version the machine had, and not below it after *)
(* a rollback.                                                             *)
TargetAbove ==
  \A t \in target, f \in from : Prec[f] < Prec[t] \/ (rolling /\ Prec[f] = Prec[t])

UInv == /\ TypeOK
        /\ RepoAt /\ SvcAt /\ CmdAt /\ TargetAt
        /\ EntryState /\ StoppedFirst /\ AgentAt /\ FromListed /\ TargetAbove
        /\ RunsOnlyInstalled /\ UpdateInstalls /\ NoDowngrade /\ RollbackTried
        /\ RemoveRemoves /\ CheckPredictsUpdate

-----------------------------------------------------------------------------
(* The two instances of LocalFiler are one specification. *)
LEMMA SameAssumption == Repository!IsFiniteSet(Names)
BY UpdaterAssumption DEF IsFiniteSet, Repository!IsFiniteSet

(* Their types agree, in this state and in the next ... *)
LEMMA SameTypes ==
  /\ Repo!TypeOK <=> Repository!TypeOK
  /\ Repo!TypeOK' <=> Repository!TypeOK'
BY DEF Repo!TypeOK, Repository!TypeOK, Repo!Piece, Repository!Piece,
       Repo!NoArg, Repository!NoArg

(* ... and so do their steps. *)
LEMMA SameSteps == [Repo!Next]_repoVars => [Repository!Next]_(Repository!filerVars)
BY DEF repoVars, Repository!filerVars, Repo!ReadDir, Repository!ReadDir,
       Repo!ScanEntry, Repository!ScanEntry, Repo!ScanValid, Repository!ScanValid,
       Repo!ScanInvalid, Repository!ScanInvalid, Repo!LoadDone, Repository!LoadDone,
       Repo!EvictOldest, Repository!EvictOldest, Repo!RemoveAll, Repository!RemoveAll,
       Repo!RemoveAllFails, Repository!RemoveAllFails, Repo!Oldest, Repository!Oldest,
       Repo!Stored, Repository!Stored, Repo!AddMkdir, Repository!AddMkdir,
       Repo!AddExeCreate, Repository!AddExeCreate, Repo!AddExeCopy,
       Repository!AddExeCopy, Repo!AddSumCreate, Repository!AddSumCreate,
       Repo!AddSumCopy, Repository!AddSumCopy, Repo!AddSumFails,
       Repository!AddSumFails, Repo!Put, Repository!Put, Repo!Get, Repository!Get,
       Repo!CallInit, Repository!CallInit, Repo!CallAdd, Repository!CallAdd, Repo!Call,
       Repository!Call, Repo!Return, Repository!Return, Repo!Exit, Repository!Exit,
       Repo!Stray, Repository!Stray, Repo!Spoil, Repository!Spoil, Repo!Environment,
       Repository!Environment, Repo!Step, Repository!Step, Repo!Next, Repository!Next,
       Repo!NoArg, Repository!NoArg, Repo!diskVars, Repository!diskVars,
       Repo!Cardinality, Repository!Cardinality, Repo!IsFiniteSet,
       Repository!IsFiniteSet

(* What LocalFilerProofs!TypeStep says of the updater's repository. *)
LEMMA RepoTypeStep == Repo!TypeOK /\ [Repo!Next]_repoVars => Repo!TypeOK'
<1>1. Repository!TypeOK /\ [Repository!Next]_(Repository!filerVars) => Repository!TypeOK'
  BY Repository!TypeStep, SameAssumption, UpdaterAssumption
<1>2. QED
  BY <1>1, SameTypes, SameSteps

(* Every step of the updater is one of the repository, or leaves it alone. *)
LEMMA RepoNext ==
  ASSUME TypeOK, [Next]_vars
  PROVE  [Repo!Next]_repoVars
<1> USE UpdaterAssumption
<1>1. CASE \E c \in Commands : Begin(c)
  BY <1>1 DEF Begin, Repo!Next, Repo!Call
<1>2. CASE RepoReady \/ AddedInstalled \/ AddedLatest
  BY <1>2 DEF RepoReady, AddedInstalled, AddedLatest, Repo!Next
<1>3. CASE MaybeAddInstalledVersion
  <2>1. CASE \E v \in installed \ versions : Repo!CallAdd(v, TRUE)
    BY <2>1 DEF TypeOK, AtMostOne, None, Repo!Next, Repo!Call
  <2>2. CASE UNCHANGED repoVars
    BY <2>2
  <2>3. QED
    BY <1>3, <2>1, <2>2 DEF MaybeAddInstalledVersion
<1>4. CASE EnsureLatestAdded
  <2>1. ASSUME NEW lv \in {None} \cup {{v} : v \in SemVer},
               \E v \in lv \ versions, srcOk \in {TRUE, ~MayFail} : Repo!CallAdd(v, srcOk)
        PROVE  Repo!Next
    BY <2>1 DEF None, Repo!Next, Repo!Call
  <2>2. CASE UNCHANGED repoVars
    BY <2>2
  <2>3. QED
    BY <1>4, <2>1, <2>2 DEF EnsureLatestAdded
<1>5. CASE \/ Choose \/ EnsureNoService \/ StoppedService \/ DeleteService \/ Wipe
           \/ EnsureCopy \/ Copied \/ EnsureService \/ Start \/ Started
           \/ StartCommand \/ StopCommand \/ CommandDone \/ SvcTick
  BY <1>5 DEF Choose, EnsureNoService, StoppedService, DeleteService, Wipe, EnsureCopy,
              Copied, EnsureService, Start, Started, StartCommand, StopCommand,
              CommandDone, SvcTick
<1>6. CASE RepoStep
  BY <1>6 DEF RepoStep, Repo!Next
<1>7. CASE ServiceSteps \/ UNCHANGED vars
  BY <1>7 DEF ServiceSteps, vars
<1>8. CASE Exit \/ Reboot
  BY <1>8 DEF Exit, Reboot, Repo!Next, Repo!Environment
<1>9. CASE Rot
  BY <1>9 DEF Rot, Repo!Next, Repo!Environment
<1>10. QED
  BY <1>1, <1>2, <1>3, <1>4, <1>5, <1>6, <1>7, <1>8, <1>9 DEF Next, Process

(* What a running call of the repository does, as far as it shows. *)
LEMMA RepoStepShows ==
  ASSUME Repo!Step
  PROVE  /\ arg' = arg
         /\ \/ rpc \in {"load", "scan"} /\ rpc' \in {"load", "scan", "ok", "err"}
            \/ /\ rpc \in {"mkdir", "exe", "exeCopy", "sum", "sumCopy"}
               /\ rpc' \in {"exe", "exeCopy", "sum", "sumCopy", "ok", "err"}
               /\ versions' = versions \/ versions' = versions \cup arg
               /\ rpc' = "ok" => arg \subseteq versions'
<1>1. CASE Repo!ReadDir \/ Repo!LoadDone
  BY <1>1 DEF Repo!ReadDir, Repo!LoadDone
<1>2. ASSUME NEW n \in Names, Repo!ScanEntry(n) \/ Repo!EvictOldest(n)
      PROVE  /\ arg' = arg
             /\ rpc \in {"load", "scan"} /\ rpc' \in {"load", "scan", "ok", "err"}
  BY <1>2 DEF Repo!ScanEntry, Repo!ScanValid, Repo!ScanInvalid, Repo!EvictOldest
<1>3. CASE Repo!AddMkdir \/ Repo!AddExeCreate \/ Repo!AddExeCopy
  BY <1>3 DEF Repo!AddMkdir, Repo!AddExeCreate, Repo!AddExeCopy
<1>4. CASE Repo!AddSumCreate \/ Repo!AddSumCopy \/ Repo!AddSumFails
  BY <1>4 DEF Repo!AddSumCreate, Repo!AddSumCopy, Repo!AddSumFails
<1>5. QED
  BY <1>1, <1>2, <1>3, <1>4 DEF Repo!Step

-----------------------------------------------------------------------------
(* The invariant holds before the first command, with or without an agent. *)
LEMMA UInvInit == Init => UInv
<1> SUFFICES ASSUME Init PROVE UInv
  OBVIOUS
<1> USE UpdaterAssumption DEF Init, None
<1>1. Repo!TypeOK /\ rpc = "down"
  BY DEF Repo!Init, Repo!TypeOK, Repo!Piece, Repo!NoArg
<1>2. TypeOK
  BY <1>1 DEF TypeOK, AtMostOne, Svc!SvcTypeOK
<1>3. RepoAt /\ SvcAt /\ CmdAt /\ TargetAt
  BY <1>1 DEF RepoAt, SvcAt, CmdAt, TargetAt, Removing, Installing
<1>4. EntryState /\ StoppedFirst /\ AgentAt /\ FromListed /\ TargetAbove
  BY DEF EntryState, StoppedFirst, AgentAt, FromListed, TargetAbove
<1>5. /\ RunsOnlyInstalled /\ UpdateInstalls /\ NoDowngrade /\ RollbackTried
      /\ RemoveRemoves /\ CheckPredictsUpdate
  BY DEF RunsOnlyInstalled, UpdateInstalls, NoDowngrade, RollbackTried,
         RemoveRemoves, CheckPredictsUpdate
<1>6. QED
  BY <1>2, <1>3, <1>4, <1>5 DEF UInv

(* The types of the service manager's variables. *)
LEMMA SvcTypeStep == TypeOK /\ [Next]_vars => Svc!SvcTypeOK'
<1> SUFFICES ASSUME TypeOK, [Next]_vars PROVE Svc!SvcTypeOK'
  OBVIOUS
<1>a. Svc!SvcTypeOK
  BY DEF TypeOK
<1> USE DEF Svc!SvcTypeOK, Svc!svcVars, svcVars
<1>1. CASE \/ \E c \in Commands : Begin(c)
           \/ RepoReady \/ MaybeAddInstalledVersion \/ AddedInstalled
           \/ EnsureLatestAdded \/ AddedLatest \/ Choose \/ Wipe
           \/ EnsureCopy \/ Copied \/ RepoStep \/ Rot \/ UNCHANGED vars
  BY <1>a, <1>1 DEF Begin, RepoReady, MaybeAddInstalledVersion, AddedInstalled,
              EnsureLatestAdded, AddedLatest, Choose, Wipe, EnsureCopy, Copied,
              RepoStep, Rot, vars
<1>2. CASE EnsureNoService \/ StopCommand
  BY <1>a, <1>2 DEF EnsureNoService, StopCommand, Svc!Stop
<1>3. CASE Start \/ StartCommand
  BY <1>a, <1>3 DEF Start, StartCommand, Svc!Start
<1>4. CASE StoppedService \/ Started \/ CommandDone
  BY <1>a, <1>4 DEF StoppedService, Started, CommandDone, Svc!Result
<1>5. CASE DeleteService
  BY <1>a, <1>5 DEF DeleteService, Svc!Delete, Svc!Sweep
<1>6. CASE EnsureService
  BY <1>a, <1>6 DEF EnsureService, Svc!Create
<1>7. CASE SvcTick
  BY <1>a, <1>7 DEF SvcTick, Svc!StartTick, Svc!StopTick
<1>8. CASE ServiceSteps
  BY <1>a, <1>8 DEF ServiceSteps, Svc!ServiceUp, Svc!ServiceDies, Svc!ServiceStops,
              Svc!ServiceGivesUp, Svc!ServiceGoes, Svc!Sweep
<1>9. CASE Exit \/ Reboot
  BY <1>a, <1>9 DEF Exit, Reboot, Svc!ProcessEnds, Svc!Reboot, Svc!Sweep
<1>10. QED
  BY <1>1, <1>2, <1>3, <1>4, <1>5, <1>6, <1>7, <1>8, <1>9 DEF Next, Process

(* The types of all variables; what a command may do next depends on it. *)
LEMMA TypeStep == TypeOK /\ CmdAt /\ [Next]_vars => TypeOK'
<1> SUFFICES ASSUME TypeOK, CmdAt, [Next]_vars PROVE TypeOK'
  OBVIOUS
<1>a. Repo!TypeOK' /\ Svc!SvcTypeOK'
  BY RepoNext, RepoTypeStep, SvcTypeStep DEF TypeOK
<1>b. versions \subseteq Names /\ SemVer \subseteq Names
  BY UpdaterAssumption DEF TypeOK, Repo!TypeOK
<1> USE DEF TypeOK, AtMostOne, None, Goto, agentVars, runVars
<1>1. CASE \E c \in Commands : Begin(c)
  BY <1>a, <1>1 DEF Begin
<1>2. CASE RepoReady \/ AddedInstalled \/ MaybeAddInstalledVersion
  <2>1. cmd \in Commands
    BY <1>2 DEF CmdAt, RepoReady, AddedInstalled, MaybeAddInstalledVersion
  <2>2. FirstStep \in {"latest", "exist", "startCmd", "stopCmd", "ok"}
    BY <2>1 DEF Commands, FirstStep
  <2>3. QED
    BY <1>a, <1>2, <2>2 DEF RepoReady, AddedInstalled, MaybeAddInstalledVersion
<1>3. CASE EnsureLatestAdded
  BY <1>a, <1>b, <1>3 DEF EnsureLatestAdded
<1>4. CASE AddedLatest
  BY <1>a, <1>4 DEF AddedLatest
<1>5. CASE Choose
  BY <1>a, <1>b, <1>5 DEF Choose
<1>6. ASSUME InstallFails,
             UNCHANGED <<cmd, latest, from>>,
             installed' \in AtMostOne, torn' \in BOOLEAN
      PROVE  TypeOK'
  BY <1>a, <1>b, <1>6 DEF InstallFails
<1>7. CASE EnsureNoService \/ StoppedService \/ DeleteService \/ EnsureService \/ Started
  BY <1>a, <1>6, <1>7 DEF EnsureNoService, StoppedService, DeleteService, EnsureService,
                          Started, Proceed
<1>8. CASE Wipe \/ EnsureCopy \/ Copied
  BY <1>a, <1>6, <1>8 DEF Wipe, EnsureCopy, Copied, Proceed
<1>9. CASE Start \/ StartCommand \/ StopCommand \/ CommandDone
  BY <1>a, <1>9 DEF Start, StartCommand, StopCommand, CommandDone, Proceed
<1>10. CASE RepoStep \/ SvcTick \/ ServiceSteps \/ Rot \/ UNCHANGED vars
  BY <1>a, <1>10 DEF RepoStep, SvcTick, ServiceSteps, Rot, vars
<1>11. CASE Exit \/ Reboot
  BY <1>a, <1>11 DEF Exit, Reboot, Forget
<1>12. QED
  BY <1>1, <1>2, <1>3, <1>4, <1>5, <1>7, <1>8, <1>9, <1>10, <1>11 DEF Next, Process

-----------------------------------------------------------------------------
(* Where the command and its two calls are goes together. *)
Control == RepoAt /\ SvcAt /\ CmdAt /\ TargetAt

(* A command whose install has failed, and whose calls have returned. *)
LEMMA FailsControl ==
  ASSUME TypeOK, Control, InstallFails,
         upc \in Removing \cup Installing, cmd' = cmd, rpc' = rpc, spc' = "idle"
  PROVE  Control'
<1> USE DEF Control, RepoAt, SvcAt, CmdAt, TargetAt, Removing, Installing, None, Goto
<1>1. rpc' = "ready" /\ cmd' \in {"update", "remove"} /\ cmd' \in Commands
  BY DEF Commands
<1>2. \/ upc' = "exist" /\ cmd = "update" /\ (\E v \in versions : target' = {v})
      \/ upc' = "err" /\ UNCHANGED target
  BY DEF InstallFails
<1>3. QED
  BY <1>1, <1>2

(* And one that goes on. *)
LEMMA ProceedControl ==
  ASSUME TypeOK, Control, NEW l \in Removing \cup Installing \cup {"ok"}, Proceed(l),
         upc \in Removing \cup Installing, cmd' = cmd, rpc' = rpc,
         l \in Installing => cmd = "update",
         l \notin {"stopping", "starting"} => spc' = "idle",
         l = "stopping" => spc' \in {"stopped", "ok", "err"},
         l = "starting" => spc' \in {"started", "ok", "err"}
  PROVE  Control'
<1> USE DEF Control, RepoAt, SvcAt, CmdAt, TargetAt, Removing, Installing, None, Goto,
            Proceed, Commands
<1>1. QED
  OBVIOUS

(* The command and its two calls stay together. *)
LEMMA ControlStep == TypeOK /\ Control /\ [Next]_vars => Control'
<1> SUFFICES ASSUME TypeOK, Control, [Next]_vars PROVE Control'
  OBVIOUS
<1> USE DEF Control, RepoAt, SvcAt, CmdAt, TargetAt, Removing, Installing, None, Goto,
            svcVars, repoVars, agentVars, runVars
<1>1. CASE \E c \in Commands : Begin(c)
  BY <1>1 DEF Begin, Repo!CallInit, Repo!diskVars
<1>2. CASE RepoReady
  BY <1>2 DEF RepoReady, Repo!Return
<1>f. cmd \in Commands => /\ FirstStep \in {"latest", "exist", "startCmd", "stopCmd", "ok"}
                          /\ FirstStep = "latest" => cmd = "update"
                          /\ FirstStep = "exist" => cmd = "remove"
                          /\ FirstStep \in {"startCmd", "stopCmd"} => cmd \in {"start", "stop"}
  BY DEF Commands, FirstStep
<1>3. CASE MaybeAddInstalledVersion
  BY <1>3, <1>f DEF MaybeAddInstalledVersion, Repo!CallAdd
<1>4. CASE AddedInstalled
  BY <1>4, <1>f DEF AddedInstalled, Repo!Return
<1>5. CASE EnsureLatestAdded
  BY <1>5 DEF EnsureLatestAdded, Repo!CallAdd
<1>6. CASE AddedLatest
  BY <1>6 DEF AddedLatest, Repo!Return
<1>7. CASE Choose
  BY <1>7 DEF Choose
<1>8. CASE EnsureNoService \/ StoppedService \/ DeleteService \/ Wipe
  BY <1>8, FailsControl, ProceedControl
     DEF EnsureNoService, StoppedService, DeleteService, Wipe, Svc!Stop, Svc!Result, Svc!Delete
<1>9. CASE EnsureCopy \/ Copied \/ EnsureService
  BY <1>9, FailsControl, ProceedControl DEF EnsureCopy, Copied, EnsureService, Svc!Create
<1>10. CASE Start \/ Started
  BY <1>10, FailsControl, ProceedControl DEF Start, Started, Svc!Start, Svc!Result
<1>11. CASE StartCommand \/ StopCommand
  BY <1>11 DEF StartCommand, StopCommand, Svc!Start, Svc!Stop
<1>12. CASE CommandDone
  BY <1>12 DEF CommandDone, Svc!Result
<1>13. CASE RepoStep
  BY <1>13, RepoStepShows DEF RepoStep
<1>14. CASE SvcTick
  BY <1>14 DEF SvcTick, Svc!StartTick, Svc!StopTick
<1>15. CASE ServiceSteps
  BY <1>15 DEF ServiceSteps, Svc!ServiceUp, Svc!ServiceDies, Svc!ServiceStops,
               Svc!ServiceGivesUp, Svc!ServiceGoes
<1>16. CASE Exit \/ Reboot
  BY <1>16 DEF Exit, Reboot, Forget, Repo!Exit, Svc!ProcessEnds, Svc!Reboot
<1>17. CASE Rot \/ UNCHANGED vars
  BY <1>17 DEF Rot, Repo!Spoil, vars
<1>18. QED
  BY <1>1, <1>2, <1>3, <1>4, <1>5, <1>6, <1>7, <1>8, <1>9, <1>10, <1>11, <1>12, <1>13,
     <1>14, <1>15, <1>16, <1>17 DEF Next, Process

-----------------------------------------------------------------------------
(* The entry and the state of the service, whoever changes them. *)
LEMMA EntryStep == TypeOK /\ Control /\ EntryState /\ StoppedFirst /\ [Next]_vars => EntryState'
<1> SUFFICES ASSUME TypeOK, Control, EntryState, StoppedFirst, [Next]_vars PROVE EntryState'
  OBVIOUS
<1> USE DEF EntryState, svcVars, Svc!svcVars
<1>a. Svc!SvcTypeOK
  BY DEF TypeOK
<1>1. CASE \/ \E c \in Commands : Begin(c)
           \/ RepoReady \/ MaybeAddInstalledVersion \/ AddedInstalled
           \/ EnsureLatestAdded \/ AddedLatest \/ Choose \/ Wipe
           \/ EnsureCopy \/ Copied \/ RepoStep \/ Rot \/ UNCHANGED vars
  BY <1>1 DEF Begin, RepoReady, MaybeAddInstalledVersion, AddedInstalled,
              EnsureLatestAdded, AddedLatest, Choose, Wipe, EnsureCopy, Copied,
              RepoStep, Rot, vars
<1>2. CASE EnsureNoService \/ StopCommand
  BY <1>2 DEF EnsureNoService, StopCommand, Svc!Stop, Svc!IsRunning
<1>3. CASE Start \/ StartCommand
  BY <1>3 DEF Start, StartCommand, Svc!Start, Svc!StartService
<1>4. CASE StoppedService \/ Started \/ CommandDone \/ SvcTick
  BY <1>4 DEF StoppedService, Started, CommandDone, SvcTick, Svc!Result,
              Svc!StartTick, Svc!StopTick
<1>5. CASE DeleteService
  BY <1>a, <1>5 DEF DeleteService, StoppedFirst, Svc!SvcTypeOK, Svc!Delete, Svc!Sweep
<1>6. CASE EnsureService
  BY <1>6 DEF EnsureService, Svc!Create
<1>7. CASE ServiceSteps
  BY <1>7 DEF ServiceSteps, Svc!ServiceUp, Svc!ServiceDies, Svc!ServiceStops,
              Svc!ServiceGivesUp, Svc!ServiceGoes, Svc!Sweep
<1>8. CASE Exit \/ Reboot
  BY <1>a, <1>8 DEF Exit, Reboot, Svc!SvcTypeOK, Svc!ProcessEnds, Svc!Reboot, Svc!Sweep
<1>9. QED
  BY <1>1, <1>2, <1>3, <1>4, <1>5, <1>6, <1>7, <1>8 DEF Next, Process

(* Once stopped, the service stays so as long as nothing starts it. *)
LEMMA StoppedStep ==
  TypeOK /\ Control /\ EntryState /\ StoppedFirst /\ [Next]_vars => StoppedFirst'
<1> SUFFICES ASSUME TypeOK, Control, EntryState, StoppedFirst, [Next]_vars
             PROVE  StoppedFirst'
  OBVIOUS
<1> USE DEF StoppedFirst, svcVars, Svc!svcVars, Goto
<1>a. Svc!SvcTypeOK
  BY DEF TypeOK
<1>b. InstallFails => upc' \in {"exist", "err"}
  BY DEF InstallFails
<1>1. CASE \E c \in Commands : Begin(c)
  BY <1>1 DEF Begin
<1>2. CASE RepoReady \/ MaybeAddInstalledVersion \/ AddedInstalled
  <2>1. cmd \in Commands
    BY <1>2 DEF Control, CmdAt, RepoReady, AddedInstalled, MaybeAddInstalledVersion
  <2>2. FirstStep \in {"latest", "exist", "startCmd", "stopCmd", "ok"}
    BY <2>1 DEF Commands, FirstStep
  <2>3. QED
    BY <1>2, <2>2 DEF RepoReady, AddedInstalled, MaybeAddInstalledVersion
<1>3. CASE EnsureLatestAdded \/ AddedLatest \/ Choose
  BY <1>3 DEF EnsureLatestAdded, AddedLatest, Choose
<1>4. CASE EnsureNoService
  BY <1>4, <1>b DEF EnsureNoService, EntryState, Proceed, Svc!IsExist, Svc!IsStopped, Svc!Stop
<1>5. CASE StoppedService
  BY <1>5, <1>b DEF StoppedService, Proceed, Svc!Result
<1>6. CASE DeleteService
  BY <1>6, <1>b DEF DeleteService, Proceed, Svc!Delete, Svc!Sweep
<1>7. CASE Wipe \/ EnsureCopy \/ Copied
  BY <1>7, <1>b DEF Wipe, EnsureCopy, Copied, Proceed
<1>8. CASE EnsureService \/ Start \/ Started
  BY <1>8, <1>b DEF EnsureService, Start, Started, Proceed
<1>9. CASE StartCommand \/ StopCommand \/ CommandDone
  BY <1>9 DEF StartCommand, StopCommand, CommandDone
<1>10. CASE RepoStep \/ Rot \/ UNCHANGED vars
  BY <1>10 DEF RepoStep, Rot, vars
<1>11. CASE SvcTick
  BY <1>11 DEF SvcTick, Svc!StartTick, Svc!StopTick, Svc!IsStopped, Control, SvcAt
<1>12. CASE ServiceSteps
  BY <1>12 DEF ServiceSteps, Svc!ServiceUp, Svc!ServiceDies, Svc!ServiceStops,
               Svc!ServiceGivesUp, Svc!ServiceGoes, Svc!Sweep
<1>13. CASE Exit \/ Reboot
  BY <1>13 DEF Exit, Reboot, Forget
<1>14. QED
  BY <1>1, <1>2, <1>3, <1>4, <1>5, <1>6, <1>7, <1>8, <1>9, <1>10, <1>11, <1>12, <1>13
     DEF Next, Process

(* The service runs only from an executable: who starts it finds one, and  *)
(* who takes it away finds it stopped.                                     *)
LEMMA RunsStep ==
  ASSUME TypeOK, Control, StoppedFirst, AgentAt, RunsOnlyInstalled, [Next]_vars
  PROVE  RunsOnlyInstalled'
<1> USE DEF RunsOnlyInstalled, svcVars, agentVars, Svc!svcVars, Runnable
<1>1. CASE \/ \E c \in Commands : Begin(c)
           \/ RepoReady \/ MaybeAddInstalledVersion \/ AddedInstalled
           \/ EnsureLatestAdded \/ AddedLatest \/ Choose
           \/ EnsureCopy \/ RepoStep \/ Rot \/ UNCHANGED vars
  BY <1>1 DEF Begin, RepoReady, MaybeAddInstalledVersion, AddedInstalled,
              EnsureLatestAdded, AddedLatest, Choose, EnsureCopy, RepoStep, Rot, vars
<1>2. CASE EnsureNoService \/ StopCommand
  BY <1>2 DEF EnsureNoService, StopCommand, Svc!Stop, Svc!IsRunning
<1>3. CASE Start \/ StartCommand
  BY <1>3 DEF Start, StartCommand, Svc!Start, Svc!StartService
<1>4. CASE StoppedService \/ Started \/ CommandDone \/ SvcTick \/ DeleteService
  BY <1>4 DEF StoppedService, Started, CommandDone, SvcTick, DeleteService, Svc!Result,
              Svc!StartTick, Svc!StopTick, Svc!Delete
<1>5. CASE EnsureService
  BY <1>5 DEF EnsureService, Svc!Create
<1>6. CASE Wipe
  BY <1>6 DEF Wipe, StoppedFirst
<1>7. CASE Copied
  BY <1>7 DEF Copied, AgentAt
<1>8. CASE ServiceSteps
  BY <1>8 DEF ServiceSteps, Svc!ServiceUp, Svc!ServiceDies, Svc!ServiceStops,
              Svc!ServiceGivesUp, Svc!ServiceGoes
<1>9. CASE Exit \/ Reboot
  BY <1>9 DEF Exit, Reboot, Svc!ProcessEnds, Svc!Reboot
<1>10. QED
  BY <1>1, <1>2, <1>3, <1>4, <1>5, <1>6, <1>7, <1>8, <1>9 DEF Next, Process

(* The executable at each step. *)
LEMMA AgentStep ==
  ASSUME TypeOK, Control, EntryState, AgentAt, RunsOnlyInstalled, [Next]_vars
  PROVE  AgentAt'
<1> USE DEF AgentAt, agentVars, Goto
<1>a. Svc!SvcTypeOK
  BY DEF TypeOK
<1>b. InstallFails => upc' \in {"exist", "err"}
  BY DEF InstallFails
<1>1. CASE \E c \in Commands : Begin(c)
  BY <1>1 DEF Begin
<1>f. cmd \in Commands => FirstStep \in {"latest", "exist", "startCmd", "stopCmd", "ok"}
  BY DEF Commands, FirstStep
<1>2. CASE RepoReady
  BY <1>2 DEF RepoReady, runVars
<1>3. CASE MaybeAddInstalledVersion
  BY <1>f, <1>3 DEF MaybeAddInstalledVersion, Control, CmdAt
<1>4. CASE AddedInstalled
  BY <1>f, <1>4 DEF AddedInstalled, Control, CmdAt, runVars
<1>5. CASE EnsureLatestAdded
  BY <1>5 DEF EnsureLatestAdded, runVars
<1>6. CASE AddedLatest
  BY <1>6 DEF AddedLatest, runVars
<1>7. CASE Choose
  BY <1>7 DEF Choose, runVars
<1>8. CASE EnsureNoService \/ StoppedService \/ DeleteService
  BY <1>8, <1>b DEF EnsureNoService, StoppedService, DeleteService, Proceed
<1>9. CASE Wipe
  BY <1>9, <1>b DEF Wipe, Proceed, Control, CmdAt
<1>10. CASE EnsureCopy
  BY <1>10, <1>b DEF EnsureCopy, Proceed
<1>11. CASE Copied
  BY <1>11, <1>b DEF Copied, Proceed
<1>12. CASE EnsureService
  BY <1>12, <1>b DEF EnsureService, Proceed
<1>13. CASE Start
  BY <1>a, <1>13 DEF Start, Proceed, Svc!Start, Svc!IsExist, Svc!IsRunning, EntryState,
                    RunsOnlyInstalled, Svc!SvcTypeOK
<1>14. CASE Started
  BY <1>14, <1>b DEF Started, Proceed
<1>15. CASE StartCommand \/ StopCommand \/ CommandDone
  BY <1>15 DEF StartCommand, StopCommand, CommandDone
<1>16. CASE RepoStep \/ Rot \/ UNCHANGED vars
  BY <1>16 DEF RepoStep, Rot, vars, svcVars, runVars
<1>17. CASE SvcTick
  BY <1>a, <1>17 DEF SvcTick, Svc!StartTick, Svc!StopTick, Svc!IsRunning, EntryState,
                     Control, SvcAt, RunsOnlyInstalled, Svc!SvcTypeOK, runVars
<1>18. CASE ServiceSteps
  BY <1>18 DEF ServiceSteps, Svc!ServiceUp, Svc!ServiceDies, Svc!ServiceStops,
               Svc!ServiceGivesUp, Svc!ServiceGoes, Svc!Sweep, runVars
<1>19. CASE Exit \/ Reboot
  BY <1>19 DEF Exit, Reboot, Forget
<1>20. QED
  BY <1>1, <1>2, <1>3, <1>4, <1>5, <1>6, <1>7, <1>8, <1>9, <1>10, <1>11, <1>12,
     <1>13, <1>14, <1>15, <1>16, <1>17, <1>18, <1>19 DEF Next, Process

-----------------------------------------------------------------------------
(* The list only grows while a command runs. *)
LEMMA ListedStep ==
  ASSUME TypeOK, Control, FromListed, [Next]_vars
  PROVE  FromListed'
<1> USE DEF FromListed, Goto
<1>a. InstallFails => upc' \in {"exist", "err"}
  BY DEF InstallFails
<1>b. cmd \in Commands => FirstStep \in {"latest", "exist", "startCmd", "stopCmd", "ok"}
  BY DEF Commands, FirstStep
<1>1. CASE \E c \in Commands : Begin(c)
  BY <1>1 DEF Begin
<1>2. CASE RepoReady
  BY <1>2 DEF RepoReady
<1>3. CASE MaybeAddInstalledVersion
  BY <1>b, <1>3 DEF MaybeAddInstalledVersion, repoVars, TypeOK, AtMostOne, None,
                    Control, CmdAt, Repo!CallAdd
<1>4. CASE AddedInstalled
  BY <1>b, <1>4 DEF AddedInstalled, Repo!Return, Control, CmdAt, runVars
<1>5. CASE EnsureLatestAdded
  <2>1. PICK lv \in {None} \cup {{v} : v \in SemVer} :
          /\ latest' = lv
          /\ \/ upc' = "err" /\ UNCHANGED repoVars
             \/ lv \subseteq versions /\ upc' = "choose" /\ UNCHANGED repoVars
             \/ /\ \E v \in lv \ versions, srcOk \in {TRUE, ~MayFail} :
                     Repo!CallAdd(v, srcOk)
                /\ upc' = "addLatest"
    BY <1>5 DEF EnsureLatestAdded
  <2>2. CASE UNCHANGED repoVars /\ upc' \in {"err", "choose"}
    BY <1>5, <2>1, <2>2 DEF EnsureLatestAdded, repoVars
  <2>3. ASSUME NEW v \in lv \ versions, NEW srcOk \in {TRUE, ~MayFail},
               Repo!CallAdd(v, srcOk), upc' = "addLatest"
        PROVE  FromListed'
    <3>1. lv = {v}
      BY DEF None
    <3>2. arg' = latest' /\ rpc' # "ok" /\ versions' = versions
      BY <2>1, <2>3, <3>1 DEF Repo!CallAdd
    <3>3. QED
      BY <1>5, <2>3, <3>2 DEF EnsureLatestAdded
  <2>4. QED
    BY <2>1, <2>2, <2>3
<1>6. CASE AddedLatest
  BY <1>6 DEF AddedLatest, Repo!Return, runVars
<1>7. CASE Choose
  BY <1>7 DEF Choose, repoVars
<1>8. CASE EnsureNoService \/ StoppedService \/ DeleteService \/ Wipe
  BY <1>a, <1>8 DEF EnsureNoService, StoppedService, DeleteService, Wipe, Proceed, repoVars
<1>9. CASE EnsureCopy \/ Copied \/ EnsureService \/ Start \/ Started
  BY <1>a, <1>9 DEF EnsureCopy, Copied, EnsureService, Start, Started, Proceed, repoVars
<1>10. CASE StartCommand \/ StopCommand \/ CommandDone
  BY <1>10 DEF StartCommand, StopCommand, CommandDone, repoVars, runVars
<1>11. CASE RepoStep
  <2>1. upc \in {"init", "addInstalled", "addLatest"}
    BY <1>11, RepoStepShows DEF RepoStep, Control, RepoAt
  <2>2. CASE upc = "init"
    BY <1>11, <2>2 DEF RepoStep
  <2>3. CASE upc \in {"addInstalled", "addLatest"}
    BY <1>11, <2>3, RepoStepShows DEF RepoStep, Control, RepoAt, runVars
  <2>4. QED
    BY <2>1, <2>2, <2>3
<1>12. CASE SvcTick \/ ServiceSteps \/ UNCHANGED vars
  BY <1>12 DEF SvcTick, ServiceSteps, vars, repoVars, runVars
<1>13. CASE Rot
  BY <1>13 DEF Rot, Repo!Spoil, runVars
<1>14. CASE Exit \/ Reboot
  BY <1>14 DEF Exit, Reboot, Forget
<1>15. QED
  BY <1>1, <1>2, <1>3, <1>4, <1>5, <1>6, <1>7, <1>8, <1>9, <1>10, <1>11, <1>12, <1>13,
     <1>14 DEF Next, Process

(* The rollback goes to a version that is not below the one the machine    *)
(* had: that one is in the list, below the target that failed.             *)
LEMMA AboveFails ==
  ASSUME TypeOK, Control, FromListed, TargetAbove, InstallFails,
         upc \in Removing \cup Installing, from' = from
  PROVE  TargetAbove'
<1> USE DEF TargetAbove
<1>1. CASE UNCHANGED <<target, rolling>>
  BY <1>1
<1>2. ASSUME NEW to \in target, NEW v \in versions,
             ~rolling, RepoPrevious(v, to), target' = {v}, rolling' = TRUE
      PROVE  TargetAbove'
  <2>1. ASSUME NEW f \in from
        PROVE  Prec[f] < Prec[v] \/ Prec[f] = Prec[v]
    <3>1. /\ f \in Names /\ v \in Names /\ to \in Names
          /\ Prec[f] \in Nat /\ Prec[v] \in Nat /\ Prec[to] \in Nat
      BY UpdaterAssumption DEF TypeOK, AtMostOne, None, Repo!TypeOK
    <3>2. Prec[f] < Prec[to]
      BY <1>2
    <3>3. f \in versions /\ f # to
      BY <3>1, <3>2 DEF FromListed, Removing, Installing
    <3>4. Prec[f] <= Prec[v]
      BY <1>2, <3>1, <3>2, <3>3 DEF RepoPrevious
    <3>5. QED
      BY <3>1, <3>4
  <2>2. QED
    BY <1>2, <2>1
<1>3. QED
  BY <1>1, <1>2 DEF InstallFails

(* The target is chosen above what is installed, and once more by a        *)
(* rollback.                                                               *)
LEMMA AboveStep ==
  ASSUME TypeOK, Control, AgentAt, FromListed, TargetAbove, [Next]_vars
  PROVE  TargetAbove'
<1> USE DEF Proceed, runVars
<1>a. upc \in {"idle", "init", "installed", "addInstalled", "latest", "addLatest", "choose"}
        => target = {}
  BY DEF Control, TargetAt, None
<1>b. ASSUME target' = {} PROVE TargetAbove'
  BY <1>b DEF TargetAbove
<1>c. ASSUME UNCHANGED <<target, from, rolling>> PROVE TargetAbove'
  BY <1>c DEF TargetAbove
<1>1. CASE (\E c \in Commands : Begin(c)) \/ MaybeAddInstalledVersion \/ EnsureLatestAdded
  BY <1>1, <1>a, <1>b DEF Begin, MaybeAddInstalledVersion, EnsureLatestAdded
<1>2. CASE \/ RepoReady \/ AddedInstalled \/ AddedLatest
           \/ StartCommand \/ StopCommand \/ CommandDone
           \/ RepoStep \/ SvcTick \/ ServiceSteps \/ Rot \/ UNCHANGED vars
  BY <1>2, <1>c DEF RepoReady, AddedInstalled, AddedLatest, StartCommand, StopCommand,
                    CommandDone, RepoStep, SvcTick, ServiceSteps, Rot, vars
<1>3. CASE Choose
  <2>1. CASE UNCHANGED target
    BY <1>3, <1>a, <1>b, <2>1 DEF Choose
  <2>2. ASSUME NEW rv \in versions, \A v \in installed : Prec[v] < Prec[rv], target' = {rv}
        PROVE  TargetAbove'
    BY <1>3, <2>2 DEF Choose, AgentAt, TargetAbove
  <2>3. QED
    BY <1>3, <2>1, <2>2 DEF Choose
<1>4. CASE EnsureNoService \/ StoppedService \/ DeleteService \/ Wipe
  BY <1>4, <1>c, AboveFails DEF EnsureNoService, StoppedService, DeleteService, Wipe, Removing
<1>5. CASE EnsureCopy \/ Copied \/ EnsureService \/ Start \/ Started
  BY <1>5, <1>c, AboveFails
     DEF EnsureCopy, Copied, EnsureService, Start, Started, Installing
<1>6. CASE Exit \/ Reboot
  BY <1>6, <1>b DEF Exit, Reboot, Forget, None
<1>7. QED
  BY <1>1, <1>2, <1>3, <1>4, <1>5, <1>6 DEF Next, Process

-----------------------------------------------------------------------------
(* How a command comes to its end, and what can happen after it. *)
LEMMA OkComes ==
  ASSUME TypeOK, Control, [Next]_vars, upc' = "ok"
  PROVE  \/ /\ upc = "ok"
            /\ UNCHANGED <<agentVars, runVars, versions>>
            /\ ServiceSteps \/ UNCHANGED svcVars
         \/ cmd' \in {"check", "start", "stop"}
         \/ Choose \/ Wipe \/ Started
<1> USE DEF Goto
<1>a. InstallFails => upc' # "ok"
  BY DEF InstallFails
<1>b. cmd \in Commands /\ FirstStep = "ok" => cmd = "check"
  BY DEF Commands, FirstStep
<1>1. CASE (\E c \in Commands : Begin(c)) \/ RepoReady \/ EnsureLatestAdded \/ AddedLatest
  BY <1>1 DEF Begin, RepoReady, EnsureLatestAdded, AddedLatest
<1>2. CASE MaybeAddInstalledVersion \/ AddedInstalled
  BY <1>b, <1>2 DEF MaybeAddInstalledVersion, AddedInstalled, Control, CmdAt, runVars
<1>3. CASE EnsureNoService \/ StoppedService \/ DeleteService
  BY <1>a, <1>3 DEF EnsureNoService, StoppedService, DeleteService, Proceed
<1>4. CASE EnsureCopy \/ Copied \/ EnsureService \/ Start
  BY <1>a, <1>4 DEF EnsureCopy, Copied, EnsureService, Start, Proceed
<1>5. CASE StartCommand \/ StopCommand \/ CommandDone
  BY <1>5 DEF StartCommand, StopCommand, CommandDone, Control, CmdAt, runVars
<1>6. CASE RepoStep
  BY <1>6, RepoStepShows DEF RepoStep, Control, RepoAt
<1>7. CASE SvcTick
  BY <1>7 DEF SvcTick, Svc!StartTick, Svc!StopTick, Control, SvcAt
<1>8. CASE ServiceSteps \/ UNCHANGED vars
  BY <1>8 DEF ServiceSteps, vars, repoVars
<1>9. CASE Rot
  BY <1>9 DEF Rot, Repo!Spoil
<1>10. CASE Exit \/ Reboot
  BY <1>10 DEF Exit, Reboot, Forget
<1>11. QED
  BY <1>1, <1>2, <1>3, <1>4, <1>5, <1>6, <1>7, <1>8, <1>9, <1>10 DEF Next, Process

(* What is not in the database does not come back by itself, and what is   *)
(* there and not marked stays.                                             *)
LEMMA ServiceKeepsEntry ==
  ASSUME EntryState, ServiceSteps
  PROVE  entry' = entry
BY DEF EntryState, ServiceSteps, Svc!ServiceUp, Svc!ServiceDies, Svc!ServiceStops,
       Svc!ServiceGivesUp, Svc!ServiceGoes, Svc!Sweep

(* An update comes to ok with a target only through Started. *)
LEMMA UpdateInstallsStep ==
  ASSUME TypeOK, Control, EntryState, AgentAt, UpdateInstalls, [Next]_vars
  PROVE  UpdateInstalls'
<1> SUFFICES ASSUME upc' = "ok", cmd' = "update", target' # None
             PROVE  (installed = target /\ ~torn /\ entry # "absent")'
  BY DEF UpdateInstalls
<1>1. CASE /\ upc = "ok"
           /\ UNCHANGED <<agentVars, runVars, versions>>
           /\ ServiceSteps \/ UNCHANGED svcVars
  <2>1. installed = target /\ ~torn /\ entry # "absent"
    BY <1>1 DEF UpdateInstalls, runVars
  <2>2. entry' = entry
    BY <1>1, ServiceKeepsEntry DEF svcVars
  <2>3. QED
    BY <1>1, <2>1, <2>2 DEF agentVars, runVars
<1>2. CASE Choose
  BY <1>2 DEF Choose, Control, TargetAt, Goto
<1>3. CASE Wipe
  <2>1. ~InstallFails
    BY DEF InstallFails, Goto
  <2>2. QED
    BY <1>3, <2>1 DEF Wipe, Proceed, Goto
<1>4. CASE Started
  <2>1. ~InstallFails
    BY DEF InstallFails, Goto
  <2>2. upc = "starting" /\ spc = "ok" /\ target' = target /\ entry' = entry
    BY <1>4, <2>1 DEF Started, Svc!Result, Proceed
  <2>3. installed = target /\ entry = "present" /\ ~torn
    BY <2>2 DEF AgentAt
  <2>4. QED
    BY <1>4, <2>2, <2>3 DEF Started, agentVars
<1>5. QED
  BY <1>1, <1>2, <1>3, <1>4, OkComes

(* The executable is at any time what the command found, the target or    *)
(* none.                                                                   *)
LEMMA NoDowngradeStep ==
  ASSUME TypeOK, AgentAt, TargetAbove, NoDowngrade, [Next]_vars
  PROVE  NoDowngrade'
<1> USE DEF NoDowngrade, agentVars, runVars
<1>a. \A n \in installed \cup from \cup target : Prec[n] \in Nat
  BY UpdaterAssumption DEF TypeOK, AtMostOne, None
<1>b. ASSUME UNCHANGED <<installed, from>> PROVE NoDowngrade'
  BY <1>b
<1>c. ASSUME installed' = {} \/ from' = {} PROVE NoDowngrade'
  BY <1>c
<1>1. CASE MaybeAddInstalledVersion
  <2>1. installed' = installed /\ from' = installed
    BY <1>1 DEF MaybeAddInstalledVersion
  <2>2. \A v, f \in installed : v = f
    BY DEF TypeOK, AtMostOne, None
  <2>3. QED
    BY <1>a, <2>1, <2>2
<1>2. CASE Wipe
  BY <1>2, <1>b, <1>c DEF Wipe, None
<1>3. CASE Copied
  <2>1. from' = from
    BY <1>3 DEF Copied
  <2>2. CASE installed' = target
    BY <1>a, <2>1, <2>2 DEF TargetAbove
  <2>3. CASE installed' = installed
    BY <1>b, <2>1, <2>3
  <2>4. QED
    BY <1>3, <2>2, <2>3 DEF Copied
<1>4. CASE Exit \/ Reboot
  BY <1>4, <1>c DEF Exit, Reboot, Forget, None
<1>5. CASE \/ \E c \in Commands : Begin(c)
           \/ RepoReady \/ AddedInstalled \/ EnsureLatestAdded \/ AddedLatest \/ Choose
           \/ EnsureNoService \/ StoppedService \/ DeleteService
           \/ EnsureCopy \/ EnsureService \/ Start \/ Started
  BY <1>5, <1>b DEF Begin, RepoReady, AddedInstalled, EnsureLatestAdded, AddedLatest,
                    Choose, EnsureNoService, StoppedService, DeleteService, EnsureCopy,
                    EnsureService, Start, Started
<1>6. CASE \/ StartCommand \/ StopCommand \/ CommandDone
           \/ RepoStep \/ SvcTick \/ ServiceSteps \/ Rot \/ UNCHANGED vars
  BY <1>6, <1>b DEF StartCommand, StopCommand, CommandDone, RepoStep, SvcTick,
                    ServiceSteps, Rot, vars
<1>7. QED
  BY <1>1, <1>2, <1>3, <1>4, <1>5, <1>6 DEF Next, Process

(* Remove comes to ok only through Wipe, and nothing it removed comes back. *)
LEMMA RemoveRemovesStep ==
  ASSUME TypeOK, Control, EntryState, StoppedFirst, RemoveRemoves, [Next]_vars
  PROVE  RemoveRemoves'
<1> SUFFICES ASSUME upc' = "ok", cmd' = "remove"
             PROVE  (/\ installed = None /\ ~torn
                     /\ entry # "present" /\ state = "Stopped")'
  BY DEF RemoveRemoves
<1>1. CASE /\ upc = "ok"
           /\ UNCHANGED <<agentVars, runVars, versions>>
           /\ ServiceSteps \/ UNCHANGED svcVars
  <2>1. installed = None /\ ~torn /\ entry # "present" /\ state = "Stopped"
    BY <1>1 DEF RemoveRemoves, runVars
  <2>2. entry' = entry /\ state' = state
    BY <1>1, <2>1, ServiceKeepsEntry
       DEF svcVars, ServiceSteps, Svc!ServiceUp, Svc!ServiceDies, Svc!ServiceStops,
           Svc!ServiceGivesUp, Svc!ServiceGoes
  <2>3. QED
    BY <1>1, <2>1, <2>2 DEF agentVars
<1>2. CASE Choose
  BY <1>2 DEF Choose, Control, CmdAt
<1>3. CASE Wipe
  <2>1. ~InstallFails
    BY DEF InstallFails, Goto
  <2>2. QED
    BY <1>3, <2>1 DEF Wipe, Proceed, Goto, StoppedFirst, svcVars
<1>4. CASE Started
  BY <1>4 DEF Started, Control, CmdAt, Installing
<1>5. QED
  BY <1>1, <1>2, <1>3, <1>4, OkComes

-----------------------------------------------------------------------------
(* A set of naturals has a least element. *)
LEMMA LeastNatural ==
  ASSUME NEW S, S \subseteq Nat, S # {}
  PROVE  \E m \in S : \A n \in S : m <= n
<1>1. IsWellFoundedOn({p \in Nat \X Nat : p[1] < p[2]}, Nat)
  BY NatLessThanWellFounded DEF OpToRel
<1>2. PICK m \in S : \A n \in S : <<n, m>> \notin {p \in Nat \X Nat : p[1] < p[2]}
  BY <1>1, WFMin
<1>3. \A n \in S : ~(n < m)
  BY <1>2
<1>4. QED
  BY <1>3

(* getRepoPrevious finds a version whenever another one is not above. *)
LEMMA PreviousExists ==
  ASSUME TypeOK, NEW to \in Names, NEW f \in versions \ {to}, Prec[f] <= Prec[to]
  PROVE  \E v \in versions : RepoPrevious(v, to)
<1> DEFINE Below    == {v \in versions \ {to} : Prec[v] <= Prec[to]}
           Distance == {Prec[to] - Prec[v] : v \in Below}
<1>1. /\ versions \subseteq Names /\ Prec[to] \in Nat
      /\ \A v \in versions : Prec[v] \in Nat
  BY UpdaterAssumption DEF TypeOK, Repo!TypeOK
<1>2. Distance \subseteq Nat /\ Distance # {}
  BY <1>1
<1>3. PICK d \in Distance : \A e \in Distance : d <= e
  <2> HIDE DEF Distance
  <2>1. QED
    BY <1>2, LeastNatural
<1>4. PICK v \in Below : d = Prec[to] - Prec[v]
  OBVIOUS
<1>5. ASSUME NEW m \in Below
      PROVE  Prec[m] <= Prec[v]
  <2>1. Prec[to] - Prec[v] <= Prec[to] - Prec[m]
    BY <1>3, <1>4
  <2>2. QED
    BY <1>1, <2>1
<1>6. QED
  BY <1>4, <1>5 DEF RepoPrevious

(* An install that fails goes into the rollback, or has been there, or had *)
(* nothing to go back to.                                                  *)
LEMMA TriedFails ==
  ASSUME TypeOK, Control, FromListed, TargetAbove, InstallFails,
         upc \in Removing \cup Installing, from' = from
  PROVE  RollbackTried'
<1> SUFFICES ASSUME upc' = "err", target' # None, from' # None, ~rolling'
             PROVE  FALSE
  BY DEF RollbackTried
<1>1. /\ \/ cmd # "update"
         \/ \A to \in target, v \in versions : ~RepoPrevious(v, to)
      /\ target' = target /\ ~rolling
  BY DEF InstallFails, Goto
<1>2. cmd = "update"
  BY <1>1 DEF Control, TargetAt
<1>3. PICK to \in target, f \in from : Prec[f] < Prec[to]
  BY <1>1 DEF TargetAbove, None
<1>4. /\ to \in Names /\ f \in versions
      /\ Prec[f] \in Nat /\ Prec[to] \in Nat
  BY UpdaterAssumption DEF TypeOK, AtMostOne, None, FromListed, Removing, Installing
<1>5. f # to /\ Prec[f] <= Prec[to]
  BY <1>3, <1>4
<1>6. \E v \in versions : RepoPrevious(v, to)
  BY <1>4, <1>5, PreviousExists
<1>7. QED
  BY <1>1, <1>2, <1>6

(* An update comes to err with a target only through InstallFails. *)
LEMMA RollbackTriedStep ==
  ASSUME TypeOK, Control, FromListed, TargetAbove, RollbackTried, [Next]_vars
  PROVE  RollbackTried'
<1> USE DEF Goto, Proceed
<1>a. upc \in {"idle", "init", "installed", "addInstalled", "latest", "addLatest", "choose"}
        => target = None
  BY DEF Control, TargetAt
<1>b. upc \in {"startCmd", "stopCmd", "cmdWait"} => target = None
  BY DEF Control, CmdAt, TargetAt
<1>c. ASSUME target' = None PROVE RollbackTried'
  BY <1>c DEF RollbackTried
<1>d. ASSUME upc' # "err" PROVE RollbackTried'
  BY <1>d DEF RollbackTried
<1>e. ASSUME UNCHANGED <<upc, target, from, rolling>> PROVE RollbackTried'
  BY <1>e DEF RollbackTried
<1>1. CASE \/ \E c \in Commands : Begin(c)
           \/ RepoReady \/ MaybeAddInstalledVersion \/ AddedInstalled
           \/ EnsureLatestAdded \/ AddedLatest
           \/ StartCommand \/ StopCommand \/ CommandDone
  BY <1>a, <1>b, <1>c, <1>1
     DEF Begin, RepoReady, MaybeAddInstalledVersion, AddedInstalled, EnsureLatestAdded,
         AddedLatest, StartCommand, StopCommand, CommandDone, runVars
<1>2. CASE Choose
  BY <1>a, <1>c, <1>d, <1>2 DEF Choose
<1>3. CASE EnsureNoService \/ StoppedService \/ DeleteService \/ Wipe
  BY <1>d, <1>3, TriedFails
     DEF EnsureNoService, StoppedService, DeleteService, Wipe, Removing
<1>4. CASE EnsureCopy \/ Copied \/ EnsureService \/ Start \/ Started
  BY <1>d, <1>4, TriedFails
     DEF EnsureCopy, Copied, EnsureService, Start, Started, Installing
<1>5. CASE RepoStep \/ SvcTick \/ ServiceSteps \/ Rot \/ UNCHANGED vars
  BY <1>e, <1>5 DEF RepoStep, SvcTick, ServiceSteps, Rot, vars, runVars
<1>6. CASE Exit \/ Reboot
  BY <1>c, <1>6 DEF Exit, Reboot, Forget
<1>7. QED
  BY <1>1, <1>2, <1>3, <1>4, <1>5, <1>6 DEF Next, Process

-----------------------------------------------------------------------------
(* An update comes to install, before any rollback, only through Choose. *)
LEMMA ExistComes ==
  ASSUME TypeOK, Control, [Next]_vars, upc' = "exist", cmd' = "update", ~rolling'
  PROVE  \/ /\ upc = "exist"
            /\ UNCHANGED <<agentVars, runVars, versions>>
         \/ Choose
<1> USE DEF Goto
<1>a. InstallFails => upc' # "exist" \/ rolling'
  BY DEF InstallFails
<1>b. cmd = "update" => FirstStep # "exist"
  BY DEF FirstStep
<1>1. CASE (\E c \in Commands : Begin(c)) \/ RepoReady \/ EnsureLatestAdded \/ AddedLatest
  BY <1>1 DEF Begin, RepoReady, EnsureLatestAdded, AddedLatest
<1>2. CASE MaybeAddInstalledVersion \/ AddedInstalled
  BY <1>b, <1>2 DEF MaybeAddInstalledVersion, AddedInstalled, runVars
<1>3. CASE EnsureNoService \/ StoppedService \/ DeleteService \/ Wipe
  BY <1>a, <1>3 DEF EnsureNoService, StoppedService, DeleteService, Wipe, Proceed
<1>4. CASE EnsureCopy \/ Copied \/ EnsureService \/ Start \/ Started
  BY <1>a, <1>4 DEF EnsureCopy, Copied, EnsureService, Start, Started, Proceed
<1>5. CASE StartCommand \/ StopCommand \/ CommandDone
  BY <1>5 DEF StartCommand, StopCommand, CommandDone
<1>6. CASE RepoStep
  BY <1>6, RepoStepShows DEF RepoStep, Control, RepoAt
<1>7. CASE SvcTick \/ ServiceSteps \/ UNCHANGED vars
  BY <1>7 DEF SvcTick, ServiceSteps, vars, repoVars
<1>8. CASE Rot
  BY <1>8 DEF Rot, Repo!Spoil
<1>9. CASE Exit \/ Reboot
  BY <1>9 DEF Exit, Reboot, Forget
<1>10. QED
  BY <1>1, <1>2, <1>3, <1>4, <1>5, <1>6, <1>7, <1>8, <1>9 DEF Next, Process

(* Update installs when Check would report it ... *)
LEMMA ChooseInstalls ==
  ASSUME TypeOK, NEW rv \in versions, \A v \in installed : Prec[v] < Prec[rv]
  PROVE  CheckActions(latest) \cap {"Install", "Update"} # {}
<1>1. CASE installed = None
  BY <1>1 DEF CheckActions
<1>2. CASE installed # None
  <2>1. PICK i \in installed : TRUE
    BY <1>2 DEF None
  <2>2. Prec[i] < Prec[rv] /\ rv \in latest \cup versions
    BY <2>1
  <2>3. "Update" \in CheckActions(latest)
    BY <2>1, <2>2 DEF CheckActions
  <2>4. QED
    BY <2>3
<1>3. QED
  BY <1>1, <1>2

(* ... and has nothing to do when Check has nothing to report. *)
LEMMA ChooseNothing ==
  ASSUME TypeOK, NEW rv \in versions, RepoLatest(rv), latest \subseteq versions,
         NEW i \in installed, Prec[i] >= Prec[rv]
  PROVE  CheckActions(latest) = {}
<1>1. /\ \A v \in versions : v \in Names /\ Prec[v] \in Nat
      /\ i \in Names /\ Prec[i] \in Nat
      /\ installed = {i}
  BY UpdaterAssumption DEF TypeOK, AtMostOne, None, Repo!TypeOK
<1>2. ASSUME NEW v \in versions PROVE ~(Prec[i] < Prec[v])
  <2>1. Prec[v] <= Prec[rv]
    BY DEF RepoLatest
  <2>2. QED
    BY <1>1, <2>1
<1>3. ~(\E j \in installed, v \in latest \cup versions : Prec[j] < Prec[v])
  BY <1>1, <1>2
<1>4. installed # None
  BY DEF None
<1>5. QED
  BY <1>3, <1>4 DEF CheckActions

(* Check's answer changes neither before install begins nor after ok. *)
LEMMA CheckPredictsUpdateStep ==
  ASSUME TypeOK, Control, FromListed, CheckPredictsUpdate, [Next]_vars
  PROVE  CheckPredictsUpdate'
<1>1. ASSUME cmd' = "update", upc' = "exist", ~rolling'
      PROVE  (CheckActions(latest) \cap {"Install", "Update"} # {})'
  <2>1. CASE upc = "exist" /\ UNCHANGED <<agentVars, runVars, versions>>
    BY <1>1, <2>1 DEF CheckPredictsUpdate, CheckActions, agentVars, runVars
  <2>2. CASE Choose
    <3>1. CheckActions(latest) \cap {"Install", "Update"} # {}
      BY <1>1, <2>2, ChooseInstalls DEF Choose, Goto
    <3>2. UNCHANGED <<installed, latest, versions>>
      BY <2>2 DEF Choose, agentVars, repoVars
    <3>3. QED
      BY <3>1, <3>2 DEF CheckActions
  <2>3. QED
    BY <1>1, <2>1, <2>2, ExistComes
<1>2. ASSUME cmd' = "update", upc' = "ok", target' = None
      PROVE  (CheckActions(latest) = {})'
  <2>1. CASE upc = "ok" /\ UNCHANGED <<agentVars, runVars, versions>>
    BY <1>2, <2>1 DEF CheckPredictsUpdate, CheckActions, agentVars, runVars
  <2>2. CASE Choose
    <3>1. CheckActions(latest) = {}
      BY <1>2, <2>2, ChooseNothing DEF Choose, Goto, FromListed
    <3>2. UNCHANGED <<installed, latest, versions>>
      BY <2>2 DEF Choose, agentVars, repoVars
    <3>3. QED
      BY <3>1, <3>2 DEF CheckActions
  <2>3. CASE Wipe \/ Started
    <3>1. ~InstallFails
      BY <1>2 DEF InstallFails, Goto
    <3>2. QED
      BY <1>2, <2>3, <3>1
         DEF Wipe, Started, Proceed, Goto, Control, TargetAt, Installing
  <2>4. QED
    BY <1>2, <2>1, <2>2, <2>3, OkComes
<1>3. QED
  BY <1>1, <1>2 DEF CheckPredictsUpdate

-----------------------------------------------------------------------------
(* Every step of the updater preserves the invariant. *)
LEMMA UInvStep == UInv /\ [Next]_vars => UInv'
<1> SUFFICES ASSUME UInv, [Next]_vars PROVE UInv'
  OBVIOUS
<1> USE DEF UInv, Control
<1>1. TypeOK' /\ Control'
  BY TypeStep, ControlStep
<1>2. EntryState' /\ StoppedFirst' /\ AgentAt'
  BY EntryStep, StoppedStep, AgentStep
<1>3. FromListed' /\ TargetAbove'
  BY ListedStep, AboveStep
<1>4. RunsOnlyInstalled' /\ UpdateInstalls' /\ NoDowngrade'
  BY RunsStep, UpdateInstallsStep, NoDowngradeStep
<1>5. RollbackTried' /\ RemoveRemoves' /\ CheckPredictsUpdate'
  BY RollbackTriedStep, RemoveRemovesStep, CheckPredictsUpdateStep
<1>6. QED
  BY <1>1, <1>2, <1>3, <1>4, <1>5

(* The invariant holds always: the theorems below are its parts. *)
LEMMA UInvCorrect == Spec => []UInv
<1>1. QED
  BY UInvInit, UInvStep, PTL DEF Spec

(* The variables keep their types, and an update works on one version. *)
THEOREM UpdaterTypeCorrect == Spec => []TypeOK
<1>1. UInv => TypeOK
  BY DEF UInv
<1>2. QED
  BY <1>1, UInvCorrect, PTL

(* The service never runs without its executable, whatever fails, is       *)
(* killed or restarted (install and Remove, updater.go:324 and 803).       *)
THEOREM RunsOnlyInstalledCorrect == Spec => []RunsOnlyInstalled
<1>1. UInv => RunsOnlyInstalled
  BY DEF UInv
<1>2. QED
  BY <1>1, UInvCorrect, PTL

(* An update that went into install and returns nil has installed all of   *)
(* its target, or of the version it rolled back to.                        *)
THEOREM UpdateInstallsCorrect == Spec => []UpdateInstalls
<1>1. UInv => UpdateInstalls
  BY DEF UInv
<1>2. QED
  BY <1>1, UInvCorrect, PTL

(* No update, however it ends, leaves a version below the one it found.   *)
THEOREM NoDowngradeCorrect == Spec => []NoDowngrade
<1>1. UInv => NoDowngrade
  BY DEF UInv
<1>2. QED
  BY <1>1, UInvCorrect, PTL

(* An update of an installed agent that fails in install has tried the     *)
(* rollback: getRepoPrevious always finds a version then, because the one  *)
(* the machine had is in the repository and below the target.              *)
THEOREM RollbackTriedCorrect == Spec => []RollbackTried
<1>1. UInv => RollbackTried
  BY DEF UInv
<1>2. QED
  BY <1>1, UInvCorrect, PTL

(* Remove returns nil only when there is neither a service nor a file.     *)
THEOREM RemoveRemovesCorrect == Spec => []RemoveRemoves
<1>1. UInv => RemoveRemoves
  BY DEF UInv
<1>2. QED
  BY <1>1, UInvCorrect, PTL

(* Update goes into install exactly when the dry run says that it would.   *)
THEOREM CheckPredictsUpdateCorrect == Spec => []CheckPredictsUpdate
<1>1. UInv => CheckPredictsUpdate
  BY DEF UInv
<1>2. QED
  BY <1>1, UInvCorrect, PTL

-----------------------------------------------------------------------------
(* The steps of the repository inside the updater. *)
LEMMA RepositoryBehaves == Spec => [][Repository!Next]_(Repository!filerVars)
<1>1. UInv /\ [Next]_vars => [Repository!Next]_(Repository!filerVars)
  BY RepoNext, SameSteps DEF UInv
<1>2. QED
  BY <1>1, UInvCorrect, PTL DEF Spec

(* The invariant of the repository, in every state of the updater. *)
LEMMA RepositoryInv == Spec => []Repository!IInv
<1>1. Init => Repository!Init
  BY DEF Init, Repo!Init, Repository!Init, Repo!NoArg, Repository!NoArg
<1>2. Repository!Init => Repository!IInv
  BY Repository!InitIInv, SameAssumption, UpdaterAssumption
<1>3. Repository!IInv /\ [Repository!Next]_(Repository!filerVars) => Repository!IInv'
  <2>1. Repository!IInv /\ [Repository!Next]_(Repository!filerVars) => Repository!TypeOK'
    BY Repository!TypeStep, SameAssumption, UpdaterAssumption DEF Repository!IInv
  <2>2. Repository!IInv /\ [Repository!Next]_(Repository!filerVars) => Repository!Disk'
    BY Repository!DiskStep, SameAssumption, UpdaterAssumption
  <2>3. Repository!IInv /\ [Repository!Next]_(Repository!filerVars) => Repository!Cleaned'
    BY Repository!CleanedStep, SameAssumption, UpdaterAssumption
  <2>4. QED
    BY <2>1, <2>2, <2>3 DEF Repository!IInv
<1>4. QED
  BY <1>1, <1>2, <1>3, RepositoryBehaves, PTL DEF Spec

(* Whatever the commands do, and whenever they are killed, the updater's   *)
(* repository lists every intact version on the disk between its calls.    *)
THEOREM RepositoryListsStored == Spec => []Repo!StoredListed
<1>1. Repository!IInv => Repo!StoredListed
  BY DEF Repository!IInv, Repository!Disk, Repository!AllListed, Repo!StoredListed,
         Repo!Stored
<1>2. QED
  BY <1>1, RepositoryInv, PTL

(* Across any sequence of commands the repository implements VersionStore. *)
THEOREM RepositoryStores == Spec => Repo!StoreSpec
<1>1. Init => Repo!Store!Init
  BY DEF Init, Repo!Init, Repo!Store!Init, Repo!Stored
<1>2. Repository!IInv /\ [Repository!Next]_(Repository!filerVars)
        => [Repository!Store!Next]_(Repository!Stored)
  BY Repository!StoreStep, SameAssumption, UpdaterAssumption
<1>3. [Repository!Store!Next]_(Repository!Stored) => [Repo!Store!Next]_(Repo!Stored)
  BY DEF Repo!Store!Next, Repository!Store!Next, Repo!Stored, Repository!Stored,
         Repo!Store!Add, Repository!Store!Add, Repo!Store!EvictOldest,
         Repository!Store!EvictOldest, Repo!Store!Rot, Repository!Store!Rot
<1>4. QED
  BY <1>1, <1>2, <1>3, RepositoryInv, RepositoryBehaves, PTL
     DEF Spec, Repo!StoreSpec, Repo!Store!Spec

-----------------------------------------------------------------------------
(* Every step places, removes, registers, runs or ends as AgentLifecycle   *)
(* allows, or shows nothing of it.                                         *)
LEMMA LifecycleStep ==
  UInv /\ [Next]_vars
    => [Lifecycle!Next]_<<installed, entry = "present", state # "Stopped">>
<1> SUFFICES ASSUME UInv, [Next]_vars
             PROVE  [Lifecycle!Next]_<<installed, entry = "present", state # "Stopped">>
  OBVIOUS
<1>a. TypeOK /\ EntryState /\ StoppedFirst /\ AgentAt /\ RunsOnlyInstalled
  BY DEF UInv
<1> USE DEF svcVars, Svc!svcVars, agentVars
<1>b. ASSUME installed' = installed, state' = state, entry' # entry,
             entry = "present" \/ entry' = "present", state = "Stopped"
      PROVE  Lifecycle!Next
  BY <1>b DEF Lifecycle!Next, Lifecycle!Register, Lifecycle!Unregister
<1>c. ASSUME installed' = installed, entry' = entry, entry = "present",
             state = "Stopped", state' # "Stopped", installed # {}
      PROVE  Lifecycle!Next
  BY <1>c DEF Lifecycle!Next, Lifecycle!Run
<1>1. CASE \/ \E c \in Commands : Begin(c)
           \/ RepoReady \/ MaybeAddInstalledVersion \/ AddedInstalled
           \/ EnsureLatestAdded \/ AddedLatest \/ Choose
           \/ EnsureCopy \/ RepoStep \/ Rot \/ UNCHANGED vars
  BY <1>1 DEF Begin, RepoReady, MaybeAddInstalledVersion, AddedInstalled,
              EnsureLatestAdded, AddedLatest, Choose, EnsureCopy, RepoStep, Rot, vars
<1>2. CASE EnsureNoService \/ StopCommand
  BY <1>2 DEF EnsureNoService, StopCommand, Svc!Stop, Svc!IsRunning
<1>3. CASE Start \/ StartCommand
  <2>1. Svc!Start(Runnable) /\ installed' = installed
    BY <1>3 DEF Start, StartCommand
  <2>2. CASE UNCHANGED state
    BY <2>1, <2>2 DEF Svc!Start
  <2>3. CASE Svc!StartService(Runnable) /\ state' = "StartPending"
    BY <1>c, <2>1, <2>3 DEF Svc!Start, Svc!StartService, Svc!IsStopped, Runnable, None
  <2>4. QED
    BY <2>1, <2>2, <2>3 DEF Svc!Start
<1>4. CASE StoppedService \/ Started \/ CommandDone \/ SvcTick
  BY <1>4 DEF StoppedService, Started, CommandDone, Svc!Result, SvcTick,
              Svc!StartTick, Svc!StopTick
<1>5. CASE DeleteService
  <2>1. CASE Svc!Delete
    BY <1>a, <1>b, <1>5, <2>1 DEF DeleteService, StoppedFirst, Svc!Delete, Svc!Sweep
  <2>2. CASE UNCHANGED svcVars
    BY <1>5, <2>2 DEF DeleteService
  <2>3. QED
    BY <1>5, <2>1, <2>2 DEF DeleteService
<1>6. CASE Wipe
  <2>1. entry # "present" /\ state = "Stopped" /\ entry' = entry /\ state' = state
    BY <1>a, <1>6 DEF Wipe, StoppedFirst
  <2>2. installed' = installed \/ installed' = {}
    BY <1>6 DEF Wipe, None
  <2>3. QED
    BY <2>1, <2>2 DEF Lifecycle!Next, Lifecycle!Wipe
<1>7. CASE Copied
  <2>1. entry # "present" /\ state = "Stopped" /\ entry' = entry /\ state' = state
    BY <1>a, <1>7 DEF Copied, StoppedFirst, EntryState, TypeOK, Svc!SvcTypeOK
  <2>2. installed = {}
    BY <1>a, <1>7 DEF Copied, AgentAt, None
  <2>3. CASE installed' = target
    BY <1>a, <2>1, <2>2, <2>3
       DEF TypeOK, AtMostOne, None, Lifecycle!Next, Lifecycle!Place
  <2>4. CASE installed' = installed
    BY <2>1, <2>4
  <2>5. QED
    BY <1>7, <2>3, <2>4 DEF Copied
<1>8. CASE EnsureService
  <2>1. CASE Svc!Create
    BY <1>a, <1>b, <1>8, <2>1 DEF EnsureService, EntryState, TypeOK, Svc!SvcTypeOK,
                                  Svc!Create, Svc!IsExist
  <2>2. CASE UNCHANGED svcVars
    BY <1>8, <2>2 DEF EnsureService
  <2>3. QED
    BY <1>8, <2>1, <2>2 DEF EnsureService
<1>9. CASE ServiceSteps
  <2>1. installed' = installed /\ entry' = entry
    BY <1>a, <1>9, ServiceKeepsEntry DEF ServiceSteps
  <2>2. \/ (state' # "Stopped") = (state # "Stopped")
        \/ state # "Stopped" /\ state' = "Stopped"
    BY <1>9 DEF ServiceSteps, Svc!ServiceUp, Svc!ServiceDies, Svc!ServiceStops,
                Svc!ServiceGivesUp, Svc!ServiceGoes
  <2>3. QED
    BY <2>1, <2>2 DEF Lifecycle!Next, Lifecycle!End
<1>10. CASE Exit
  BY <1>10 DEF Exit, Svc!ProcessEnds, Svc!Sweep
<1>11. CASE Reboot
  <2>1. installed' = installed /\ (entry' = "present") = (entry = "present")
    BY <1>11 DEF Reboot, Svc!Reboot, Svc!Sweep
  <2>2. state # "Stopped" => entry = "present" /\ installed # {}
    BY <1>a DEF EntryState, RunsOnlyInstalled, TypeOK, Svc!SvcTypeOK, None
  <2>3. state' # "Stopped" <=> entry = "present" /\ installed # {}
    BY <1>11 DEF Reboot, Svc!Reboot, Runnable, None
  <2>4. QED
    BY <2>1, <2>2, <2>3 DEF Lifecycle!Next, Lifecycle!Run
<1>12. QED
  BY <1>1, <1>2, <1>3, <1>4, <1>5, <1>6, <1>7, <1>8, <1>9, <1>10, <1>11 DEF Next, Process

(* Updater implements AgentLifecycle: no order of commands, kills,         *)
(* restarts and failures places, replaces or removes the executable where  *)
(* a service could run.                                                    *)
THEOREM ImplementsLifecycle == Spec => LifecycleSpec
<1>1. Init => Lifecycle!Init
  BY UpdaterAssumption DEF Init, Lifecycle!Init, None
<1>2. QED
  BY <1>1, LifecycleStep, UInvCorrect, PTL DEF Spec, LifecycleSpec, Lifecycle!Spec
=============================================================================
