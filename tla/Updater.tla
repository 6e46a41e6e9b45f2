------------------------------ MODULE Updater -------------------------------
(***************************************************************************)
(* The guest agent's updater, windows/internal/updater/updater.go: one     *)
(* process per command (check, update, remove, start, stop).  Each         *)
(* initialises the version repository (LocalFiler), takes a copy of the    *)
(* installed agent into it, and runs the command; an update installs the   *)
(* newest version of the repository and rolls back when that fails.        *)
(*                                                                         *)
(* upc names the step the process is about to take, "idle" when there is   *)
(* no process; "ok" and "err" are the result of the command.  The process  *)
(* can be killed, and the machine restarted, between any two steps.        *)
(***************************************************************************)
EXTENDS Integers, FiniteSets

CONSTANTS Names, SemVer, Prec, NumVersionsToCache,
          MayFail,    \* may disk, network and control manager requests fail?
          Rotting,    \* names whose files in the repository may spoil
          Sound       \* versions whose service comes up once it is started

ASSUME UpdaterAssumption ==
  /\ IsFiniteSet(Names)
  /\ SemVer \subseteq Names
  /\ Sound \subseteq SemVer
  /\ Prec \in [Names -> Nat]
  /\ NumVersionsToCache \in Nat
  /\ MayFail \in BOOLEAN
  /\ Rotting \subseteq Names

VARIABLES dirs, exe, sum, versions, rpc, arg, pending,   \* LocalFiler
          entry, state, leak, spc,                       \* ServiceManager
          installed,  \* the agent's executable: {} or its version
          torn,       \* the executable is there, but only a part of it
          upc,
          cmd,
          latest,     \* what the server answered to getLatest
          from,       \* the version installed when Update began
          target,     \* the version being installed, {} if none is
          rolling     \* install is at the rollback

repoVars  == <<dirs, exe, sum, versions, rpc, arg, pending>>
svcVars   == <<entry, state, leak, spc>>
agentVars == <<installed, torn>>
runVars   == <<cmd, latest, from, target, rolling>>
vars      == <<repoVars, svcVars, agentVars, upc, runVars>>

Repo == INSTANCE LocalFiler
Svc  == INSTANCE ServiceManager

Commands == {"check", "update", "remove", "start", "stop"}

None == {}

(* Can the file at agentFilepath be executed? *)
Runnable == installed # None

Goto(label) == upc' = label

-----------------------------------------------------------------------------
(* Init *)

(* Check changes nothing, and is over as soon as it begins. *)
FirstStep == CASE cmd = "update" -> "latest" [] cmd = "remove" -> "exist"
               [] cmd = "start"  -> "startCmd" [] cmd = "stop" -> "stopCmd"
               [] cmd = "check"  -> "ok"

Begin(c) == /\ upc = "idle"
            /\ Repo!CallInit
            /\ cmd' = c
            /\ Goto("init")
            /\ UNCHANGED <<svcVars, agentVars, latest, from, target, rolling>>

(* fileRepo.Init has returned; svcMgr.Init. *)
RepoReady == /\ upc = "init"
             /\ \/ Repo!Return /\ Goto("installed")
                \/ rpc = "err" /\ Goto("err") /\ UNCHANGED repoVars
                \/ rpc = "ok" /\ MayFail /\ Goto("err") /\ UNCHANGED repoVars
             /\ UNCHANGED <<svcVars, agentVars, runVars>>

(* A torn executable cannot tell its version. *)
MaybeAddInstalledVersion ==
  /\ upc = "installed"
  /\ \/ /\ torn \/ MayFail
        /\ Goto("err")
        /\ UNCHANGED repoVars
     \/ /\ ~torn
        /\ installed \subseteq versions
        /\ Goto(FirstStep)
        /\ UNCHANGED repoVars
     \/ /\ \E v \in installed \ versions : Repo!CallAdd(v, TRUE)
        /\ Goto("addInstalled")
  /\ from' = installed
  /\ UNCHANGED <<svcVars, agentVars, cmd, latest, target, rolling>>

AddedInstalled == /\ upc = "addInstalled"
                  /\ \/ Repo!Return /\ Goto(FirstStep)
                     \/ rpc = "err" /\ Goto("err") /\ UNCHANGED repoVars
                  /\ UNCHANGED <<svcVars, agentVars, runVars>>

-----------------------------------------------------------------------------
(* What Check (dry-run) reports if the server answers lv; it changes       *)
(* nothing.                                                                *)
CheckActions(lv) ==
  {a \in {"Download", "Install", "Update"} :
     CASE a = "Download" -> ~(lv \subseteq versions)
       [] a = "Install"  -> installed = None
       [] a = "Update"   -> \E i \in installed, v \in lv \cup versions :
                              Prec[i] < Prec[v]}

-----------------------------------------------------------------------------
(* Update *)

(* ensureLatestAdded: an error status or an answer that is no version      *)
(* leaves latest empty; the release of no version cannot be downloaded.    *)
EnsureLatestAdded ==
  /\ upc = "latest"
  /\ \E lv \in {None} \cup {{v} : v \in SemVer} :
       /\ latest' = lv
       /\ \/ /\ lv = None \/ MayFail
             /\ Goto("err")
             /\ UNCHANGED repoVars
          \/ /\ lv # None /\ lv \subseteq versions
             /\ Goto("choose")
             /\ UNCHANGED repoVars
          \/ /\ \E v \in lv \ versions, srcOk \in {TRUE, ~MayFail} :
                  Repo!CallAdd(v, srcOk)
             /\ Goto("addLatest")
  /\ UNCHANGED <<svcVars, agentVars, cmd, from, target, rolling>>

(* The downloaded files are removed once they are in the repository. *)
AddedLatest == /\ upc = "addLatest"
               /\ \/ Repo!Return /\ Goto("choose")
                  \/ Repo!Return /\ MayFail /\ Goto("err")
                  \/ rpc = "err" /\ Goto("err") /\ UNCHANGED repoVars
               /\ UNCHANGED <<svcVars, agentVars, runVars>>

(* getRepoLatest: the first of the list sorted by descending precedence. *)
RepoLatest(v) == v \in versions /\ \A m \in versions : Prec[m] <= Prec[v]

(* Wrong: any version below. *)
RepoLower(v, to) == /\ v \in versions \ {to}
                    /\ Prec[v] <= Prec[to]

(* getRepoPrevious: the one before `to` in the list sorted ascending. *)
RepoPrevious(v, to) ==
  /\ v \in versions \ {to}
  /\ Prec[v] <= Prec[to]
  /\ \A m \in versions \ {to} : Prec[m] <= Prec[to] => Prec[m] <= Prec[v]

(* Wrong: installs the version that is there once more. *)
ChooseAgain ==
  /\ upc = "choose"
  /\ \E rv \in versions :
       /\ RepoLatest(rv)
       /\ \/ /\ \E v \in installed : Prec[v] > Prec[rv]
             /\ Goto("ok")
             /\ UNCHANGED target
          \/ /\ \A v \in installed : Prec[v] <= Prec[rv]
             /\ target' = {rv}
             /\ Goto("exist")
  /\ UNCHANGED <<repoVars, svcVars, agentVars, cmd, latest, from, rolling>>

(* Nothing to do, or the way into install.  The list is not empty here:    *)
(* ensureLatestAdded has just found or added a version.                    *)
Choose ==
  /\ upc = "choose"
  /\ \E rv \in versions :
       /\ RepoLatest(rv)
       /\ \/ /\ \E v \in installed : Prec[v] >= Prec[rv]
             /\ Goto("ok")
             /\ UNCHANGED target
          \/ /\ \A v \in installed : Prec[v] < Prec[rv]
             /\ target' = {rv}
             /\ Goto("exist")
          \/ /\ MayFail
             /\ Goto("err")
             /\ UNCHANGED target
  /\ UNCHANGED <<repoVars, svcVars, agentVars, cmd, latest, from, rolling>>

(* Wrong: gives up at once. *)
InstallGivesUp == Goto("err") /\ UNCHANGED <<target, rolling>>

(* Wrong: the rollback's error is not returned. *)
InstallFailsSilently ==
  \/ /\ cmd = "update" /\ ~rolling
     /\ \E to \in target, v \in versions :
          RepoPrevious(v, to) /\ target' = {v}
     /\ rolling' = TRUE
     /\ Goto("exist")
  \/ /\ rolling
     /\ Goto("ok")
     /\ UNCHANGED <<target, rolling>>

(* Wrong: keeps the version that failed beside the previous one. *)
InstallFailsKeeps ==
  /\ \E to \in target, v \in versions :
       RepoPrevious(v, to) /\ target' = target \cup {v}
  /\ rolling' = TRUE
  /\ Goto("exist")

(* An install has failed: the rollback, if there is a version below. *)
InstallFails ==
  \/ /\ cmd = "update" /\ ~rolling
     /\ \E to \in target, v \in versions :
          RepoPrevious(v, to) /\ target' = {v}
     /\ rolling' = TRUE
     /\ Goto("exist")
  \/ /\ \/ cmd # "update"
        \/ rolling
        \/ \A to \in target, v \in versions : ~RepoPrevious(v, to)
     /\ Goto("err")
     /\ UNCHANGED <<target, rolling>>

-----------------------------------------------------------------------------
(* Remove, which is also the first part of install *)

Proceed(label) == Goto(label) /\ UNCHANGED <<target, rolling>>

(* Wrong: a service that exists is deleted without being stopped. *)
EnsureNoServiceRunning ==
  /\ upc = "exist"
  /\ Proceed(IF Svc!IsExist THEN "delete" ELSE "wipe")
  /\ UNCHANGED <<repoVars, svcVars, agentVars, cmd, latest, from>>

EnsureNoService ==
  /\ upc = "exist"
  /\ \/ MayFail /\ InstallFails /\ UNCHANGED svcVars
     \/ ~Svc!IsExist /\ Proceed("wipe") /\ UNCHANGED svcVars
     \/ Svc!IsExist /\ Svc!IsStopped /\ Proceed("delete") /\ UNCHANGED svcVars
     \/ Svc!IsExist /\ ~Svc!IsStopped /\ Proceed("stopping") /\ Svc!Stop
  /\ UNCHANGED <<repoVars, agentVars, cmd, latest, from>>

StoppedService ==
  /\ upc = "stopping"
  /\ \/ Svc!Result("ok") /\ Proceed("delete")
     \/ Svc!Result("err") /\ InstallFails
  /\ UNCHANGED <<repoVars, agentVars, cmd, latest, from>>

(* Wrong: goes on after an error. *)
DeleteServiceAnyway ==
  /\ upc = "delete"
  /\ Proceed("wipe")
  /\ Svc!Delete \/ (MayFail /\ UNCHANGED svcVars)
  /\ UNCHANGED <<repoVars, agentVars, cmd, latest, from>>

DeleteService ==
  /\ upc = "delete"
  /\ \/ Svc!Delete /\ Proceed("wipe")
     \/ (MayFail \/ entry # "present") /\ InstallFails /\ UNCHANGED svcVars
  /\ UNCHANGED <<repoVars, agentVars, cmd, latest, from>>

(* The directory is emptied entry by entry; an error can leave the agent. *)
Wipe ==
  /\ upc = "wipe"
  /\ \/ /\ installed' = None /\ torn' = FALSE
        /\ Proceed(IF cmd = "remove" THEN "ok" ELSE "copy")
     \/ /\ MayFail
        /\ \/ installed' = None /\ torn' = FALSE
           \/ UNCHANGED agentVars
        /\ InstallFails
  /\ UNCHANGED <<repoVars, svcVars, cmd, latest, from>>

-----------------------------------------------------------------------------
(* The rest of install *)

(* ensureDirectory, and ensureCopy up to the creation of the destination. *)
EnsureCopy ==
  /\ upc = "copy"
  /\ \/ /\ \A v \in target : exe[v] # "none"
        /\ torn' = TRUE
        /\ Proceed("copying")
     \/ /\ MayFail \/ \E v \in target : exe[v] = "none"
        /\ InstallFails
        /\ UNCHANGED torn
  /\ UNCHANGED <<repoVars, svcVars, installed, cmd, latest, from>>

Copied ==
  /\ upc = "copying"
  /\ \/ /\ \A v \in target : exe[v] = "whole"
        /\ installed' = target /\ torn' = FALSE
        /\ Proceed("service")
     \/ /\ \E v \in target : exe[v] = "torn"
        /\ Proceed("service")
        /\ UNCHANGED agentVars
     \/ /\ MayFail
        /\ InstallFails
        /\ UNCHANGED agentVars
  /\ UNCHANGED <<repoVars, svcVars, cmd, latest, from>>

EnsureService ==
  /\ upc = "service"
  /\ \/ Svc!Create /\ Proceed("start")
     \/ Svc!IsExist /\ Proceed("start") /\ UNCHANGED svcVars
     \/ MayFail /\ InstallFails /\ UNCHANGED svcVars
  /\ UNCHANGED <<repoVars, agentVars, cmd, latest, from>>

Start == /\ upc = "start"
         /\ Svc!Start(Runnable)
         /\ Proceed("starting")
         /\ UNCHANGED <<repoVars, agentVars, cmd, latest, from>>

Started == /\ upc = "starting"
           /\ \/ Svc!Result("ok") /\ Proceed("ok")
              \/ Svc!Result("err") /\ InstallFails
           /\ UNCHANGED <<repoVars, agentVars, cmd, latest, from>>

-----------------------------------------------------------------------------
(* The commands start and stop *)

StartCommand == /\ upc = "startCmd"
                /\ Svc!Start(Runnable)
                /\ Goto("cmdWait")
                /\ UNCHANGED <<repoVars, agentVars, runVars>>

StopCommand == /\ upc = "stopCmd"
               /\ Svc!Stop
               /\ Goto("cmdWait")
               /\ UNCHANGED <<repoVars, agentVars, runVars>>

CommandDone == /\ upc = "cmdWait"
               /\ \E r \in {"ok", "err"} : Svc!Result(r) /\ Goto(r)
               /\ UNCHANGED <<repoVars, agentVars, runVars>>

-----------------------------------------------------------------------------
(* Processes end, and the environment *)

Forget == /\ Goto("idle")
          /\ cmd' = "none"
          /\ latest' = None /\ from' = None /\ target' = None
          /\ rolling' = FALSE

(* The process exits after its command, or is killed before. *)
Exit == /\ upc # "idle"
        /\ Repo!Exit
        /\ Svc!ProcessEnds
        /\ Forget
        /\ UNCHANGED agentVars

Reboot == /\ IF upc = "idle" THEN UNCHANGED repoVars ELSE Repo!Exit
          /\ Svc!Reboot(Runnable)
          /\ Forget
          /\ UNCHANGED agentVars

RepoStep == /\ Repo!Step
            /\ UNCHANGED <<svcVars, agentVars, upc, runVars>>

SvcTick == /\ Svc!StartTick \/ Svc!StopTick
           /\ UNCHANGED <<repoVars, agentVars, upc, runVars>>

(* A sound version comes up when it is started, another one may not.       *)
ServiceSteps == /\ \/ Svc!ServiceUp
                   \/ Svc!ServiceDies
                   \/ Svc!ServiceStops
                   \/ ~(installed \subseteq Sound) /\ Svc!ServiceGivesUp
                /\ UNCHANGED <<repoVars, agentVars, upc, runVars>>

Rot == /\ \E n \in Names : Repo!Spoil(n)
       /\ UNCHANGED <<svcVars, agentVars, upc, runVars>>

-----------------------------------------------------------------------------
(* A machine without the agent, or with one that an installer set up. *)
Init == /\ Repo!Init
        /\ installed \in {None} \cup {{v} : v \in SemVer}
        /\ torn = FALSE
        /\ entry = IF installed = None THEN "absent" ELSE "present"
        /\ state = IF installed = None THEN "Stopped" ELSE "Running"
        /\ leak = FALSE /\ spc = "idle"
        /\ upc = "idle"
        /\ cmd = "none"
        /\ latest = None /\ from = None /\ target = None
        /\ rolling = FALSE

(* What a process does as long as it is left to run. *)
Process == \/ RepoReady \/ MaybeAddInstalledVersion \/ AddedInstalled
           \/ EnsureLatestAdded \/ AddedLatest \/ Choose
           \/ EnsureNoService \/ StoppedService \/ DeleteService \/ Wipe
           \/ EnsureCopy \/ Copied \/ EnsureService \/ Start \/ Started
           \/ StartCommand \/ StopCommand \/ CommandDone
           \/ RepoStep \/ SvcTick

Next == \/ \E c \in Commands : Begin(c)
        \/ Process
        \/ ServiceSteps
        \/ Exit \/ Reboot \/ Rot

(* The operating system runs a started process, and restarts end. *)
Spec == Init /\ [][Next]_vars /\ WF_vars(Process)

-----------------------------------------------------------------------------
AtMostOne == {None} \cup {{v} : v \in Names}

TypeOK == /\ Repo!TypeOK
          /\ Svc!SvcTypeOK
          /\ installed \in AtMostOne
          /\ torn \in BOOLEAN
          /\ upc \in {"idle", "init", "installed", "addInstalled", "latest",
                      "addLatest", "choose", "exist", "stopping", "delete", "wipe",
                      "copy", "copying", "service", "start", "starting",
                      "startCmd", "stopCmd", "cmdWait", "ok", "err"}
          /\ cmd \in Commands \cup {"none"}
          /\ latest \in AtMostOne
          /\ from \in AtMostOne
          /\ target \in AtMostOne
          /\ rolling \in BOOLEAN

(* The service never runs without its executable: whatever fails or is     *)
(* interrupted, the agent's directory is emptied only after the service    *)
(* was seen stopped, and nothing starts it before the copy is complete.    *)
RunsOnlyInstalled == state # "Stopped" => installed # None

(* An update that returns nil after it went into install has left the      *)
(* version it settled on, all of it, with an entry in the database.        *)
UpdateInstalls == (upc = "ok" /\ cmd = "update" /\ target # None)
                    => installed = target /\ ~torn /\ entry # "absent"

(* At no moment of an update, whether it succeeds, fails, rolls back or is *)
(* killed there, is an agent below the version that the machine had: Init  *)
(* has put that version in the repository, broken or not.                  *)
NoDowngrade == \A v \in installed, f \in from : Prec[v] >= Prec[f]

(* An update of an installed agent fails inside install only after the     *)
(* rollback was tried too.                                                 *)
RollbackTried == (upc = "err" /\ target # None /\ from # None) => rolling

(* remove returns nil only when nothing of the agent is left to run.       *)
RemoveRemoves == (upc = "ok" /\ cmd = "remove")
                   => installed = None /\ ~torn /\ entry # "present" /\ state = "Stopped"

(* dry-run and update agree once the server has answered with a version:   *)
(* update installs exactly when Check reports Install or Update.           *)
CheckPredictsUpdate ==
  cmd = "update" =>
    /\ (upc = "exist" /\ ~rolling) => CheckActions(latest) \cap {"Install", "Update"} # {}
    /\ (upc = "ok" /\ target = None) => CheckActions(latest) = {}

(* However commands, kills and restarts follow each other, the executable  *)
(* is placed and removed only where no service can run: Updater implements *)
(* AgentLifecycle.                                                         *)
Lifecycle == INSTANCE AgentLifecycle
               WITH Versions <- Names, agent <- installed,
                    registered <- entry = "present", running <- state # "Stopped"
LifecycleSpec == Lifecycle!Spec

(* Every command ends, whatever fails in it. *)
CommandEnds == upc = "init" ~> upc \in {"ok", "err", "idle"}

-----------------------------------------------------------------------------
(* What README.md:32 says, "If the new version cannot start, the update    *)
(* agent fallbacks YCGuestAgent to the previous working version", taken    *)
(* apart: a version that is still coming up is not one that cannot start   *)
RollbackOnlyIfCannotStart ==
  [][(upc = "starting" /\ ~rolling /\ rolling' /\ state = "StartPending")
       => ~(target \subseteq Sound)]_vars

(* ... and the service of the version fallen back to can be started.       *)
RollbackStartable == (rolling /\ upc = "start") => entry = "present"

(* "Remove - removes guest agent if one is installed" (updater.go:802): a  *)
(* part of an executable does not stand in its way.                        *)
RemoveNotBlocked == ~(upc = "err" /\ cmd = "remove" /\ torn)
=============================================================================
