--------------------------- MODULE ServiceManager ---------------------------
(***************************************************************************)
(* The updater's client of the Windows service control manager,            *)
(* windows/internal/service/manager.go, for the one service it is used     *)
(* for, together with what the control manager and the service process do. *)
(*                                                                         *)
(* Start and Stop send the control and look at the state of the service    *)
(* once, a second later; in between the service changes state on its own.  *)
(* spc is where the running call is; "ok" and "err" are its results.  The  *)
(* other operations are one query and one request to the control manager.  *)
(***************************************************************************)

CONSTANT MayFail      \* may the control manager refuse a request by itself?

VARIABLES entry,      \* the service's entry in the database
          state,      \* the State that Query reports
          leak,       \* a handle to the entry is open in the calling process
          spc

svcVars == <<entry, state, leak, spc>>

IsExist   == entry # "absent"
IsStopped == state = "Stopped"
IsRunning == state = "Running"

SvcInit == spc = "idle" /\ leak = FALSE

-----------------------------------------------------------------------------
(* Start and Stop *)

(* The control manager starts the process of a stopped service, unless the *)
(* entry is marked for deletion or the executable cannot be run.           *)
StartService(runnable) == entry = "present" /\ IsStopped /\ runnable

Start(runnable) ==
  /\ spc = "idle"
  /\ \/ /\ IsExist /\ IsRunning
        /\ spc' = "ok"
        /\ UNCHANGED state
     \/ /\ IsExist /\ ~IsRunning /\ StartService(runnable)
        /\ state' = "StartPending"
        /\ spc' = "started"
     \/ /\ \/ ~IsExist
           \/ MayFail
           \/ ~IsRunning /\ ~StartService(runnable)
        /\ spc' = "err"
        /\ UNCHANGED state
  /\ UNCHANGED <<entry, leak>>

(* Wrong: waits for the service to run, however long that takes. *)
StartTickWaits == /\ spc = "started"
                  /\ IsRunning /\ spc' = "ok"
                  /\ UNCHANGED <<entry, state, leak>>

(* The select of Start and of Stop is not in a loop: whatever the state is *)
(* when the ticker fires first, the call is over.                          *)
StartTick == /\ spc = "started"
             /\ \/ IsRunning /\ spc' = "ok"
                \/ (~IsRunning \/ MayFail) /\ spc' = "err"
             /\ UNCHANGED <<entry, state, leak>>

(* A service accepts the stop control only while it is running. *)
Stop ==
  /\ spc = "idle"
  /\ \/ /\ IsExist /\ IsStopped
        /\ spc' = "ok"
        /\ UNCHANGED state
     \/ /\ IsExist /\ IsRunning
        /\ state' = "StopPending"
        /\ spc' = "stopped"
     \/ /\ ~IsExist \/ MayFail \/ state \in {"StartPending", "StopPending"}
        /\ spc' = "err"
        /\ UNCHANGED state
  /\ UNCHANGED <<entry, leak>>

StopTick == /\ spc = "stopped"
            /\ \/ IsStopped /\ spc' = "ok"
               \/ (~IsStopped \/ MayFail) /\ spc' = "err"
            /\ UNCHANGED <<entry, state, leak>>

(* The caller takes the result. *)
Result(r) == /\ spc = r
             /\ spc' = "idle"
             /\ UNCHANGED <<entry, state, leak>>

-----------------------------------------------------------------------------
(* Create and Delete *)

(* The handle that CreateService returns is dropped without being closed. *)
Create == /\ spc = "idle"
          /\ ~IsExist
          /\ entry' = "present"
          /\ state' = "Stopped"
          /\ leak' = TRUE
          /\ UNCHANGED spc

(* An entry marked for deletion goes away when the service has stopped and *)
(* no handle to it is open any more.                                       *)
Sweep(e, s, l) == IF e = "marked" /\ s = "Stopped" /\ ~l THEN "absent" ELSE e

Delete == /\ spc = "idle"
          /\ entry = "present"
          /\ entry' = Sweep("marked", state, leak)
          /\ UNCHANGED <<state, leak, spc>>

-----------------------------------------------------------------------------
(* The calling process ends, and with it its handles. *)
ProcessEnds == /\ leak' = FALSE
               /\ spc' = "idle"
               /\ entry' = Sweep(entry, state, FALSE)
               /\ UNCHANGED state

(* The service process: it comes up or gives up, dies, and stops. *)
ServiceGoes(from, to) == /\ state = from
                         /\ state' = to
                         /\ entry' = Sweep(entry, to, leak)
                         /\ UNCHANGED <<leak, spc>>

ServiceUp      == ServiceGoes("StartPending", "Running")
ServiceGivesUp == ServiceGoes("StartPending", "Stopped")
ServiceDies    == ServiceGoes("Running", "Stopped")
ServiceStops   == ServiceGoes("StopPending", "Stopped")

(* The machine restarts: the entry's automatic start runs the service. *)
Reboot(runnable) == /\ leak' = FALSE
                    /\ spc' = "idle"
                    /\ entry' = Sweep(entry, "Stopped", FALSE)
                    /\ state' = IF entry = "present" /\ runnable
                                  THEN "StartPending" ELSE "Stopped"

SvcTypeOK == /\ entry \in {"absent", "present", "marked"}
             /\ state \in {"Stopped", "StartPending", "Running", "StopPending"}
             /\ leak \in BOOLEAN
             /\ spc \in {"idle", "started", "stopped", "ok", "err"}
=============================================================================
