---------------------------- MODULE GuestService -----------------------------
(***************************************************************************)
(* The agent's process, */internal/guest/guest.go: it starts the heartbeat *)
(* and the watchers (MetadataWatcher), waits, and stops on a signal or, as *)
(* a Windows service, on a request of the service control manager.  On     *)
(* linux, and started from a console, asService is FALSE.                  *)
(***************************************************************************)
EXTENDS MetadataWatcher

VARIABLES spc,        \* where Run is
          asService,
          status,     \* what the service control manager was told last
          asked       \* it has sent Stop or Shutdown

serverVars == <<spc, asService, status, asked>>
vars       == <<watcherVars, serverVars>>

-----------------------------------------------------------------------------
(* start: the heartbeat, and on windows the registry key, may fail. *)
Start == /\ spc = "start"
         /\ \/ spc' = "running" /\ AddWatches
            \/ spc' = "exit" /\ UNCHANGED watcherVars
         /\ UNCHANGED <<asService, status, asked>>

(* A signal: stop, in a goroutine of its own.  Its select finds the        *)
(* context it has just cancelled done, and never waits.                    *)
Signal == /\ spc = "running"
          /\ ~cancelled
          /\ Cancel
          /\ UNCHANGED serverVars

WaitReturns == /\ spc = "running"
               /\ ~asService
               /\ cancelled
               /\ spc' = "exit"
               /\ UNCHANGED <<watcherVars, asService, status, asked>>

-----------------------------------------------------------------------------
(* handler.Execute, called by svc.Run *)

(* svc.Run may fail before it has called Execute. *)
ExecuteBegins == /\ spc = "running"
                 /\ asService
                 /\ status = "StartPending"
                 /\ \/ status' = "Running" /\ UNCHANGED spc
                    \/ spc' = "exit" /\ UNCHANGED status
                 /\ UNCHANGED <<watcherVars, asService, asked>>

(* Wrong: only the service control manager is listened to. *)
ExecuteUnsignalled == /\ spc = "running"
                      /\ status = "Running"
                      /\ asked
                      /\ status' = "StopPending"
                      /\ spc' = "stop"
                      /\ UNCHANGED <<watcherVars, asService, asked>>

ExecuteBreaks == /\ spc = "running"
                 /\ status = "Running"
                 /\ asked \/ cancelled
                 /\ status' = "StopPending"
                 /\ spc' = "stop"
                 /\ UNCHANGED <<watcherVars, asService, asked>>

(* A control code that is not known ends the service without stop. *)
UnknownCommand == /\ spc = "running"
                  /\ status = "Running"
                  /\ spc' = "exit"
                  /\ UNCHANGED <<watcherVars, asService, status, asked>>

Stop == /\ spc = "stop"
        /\ Cancel
        /\ spc' = "exit"
        /\ UNCHANGED <<asService, status, asked>>

(* Run has returned, and main with it. *)
Exit == /\ spc = "exit"
        /\ spc' = "exited"
        /\ status' = "Stopped"
        /\ Die
        /\ UNCHANGED <<asService, asked>>

(* The service control manager *)
StopRequest == /\ status = "Running"
               /\ ~asked
               /\ asked' = TRUE
               /\ UNCHANGED <<watcherVars, spc, asService, status>>

-----------------------------------------------------------------------------
Init == /\ WatcherInit
        /\ spc = "start"
        /\ asService \in BOOLEAN
        /\ status = "StartPending"
        /\ asked = FALSE

Run == Start \/ WaitReturns \/ ExecuteBegins \/ ExecuteBreaks \/ Stop \/ Exit

Watching(w) == Watch(w) /\ UNCHANGED serverVars
Locking(w)  == Lock(w) /\ UNCHANGED serverVars

Next == \/ Run \/ Signal \/ StopRequest \/ UnknownCommand
        \/ \E w \in Watches : \/ Watching(w) \/ Locking(w)
                              \/ Change(w) /\ UNCHANGED serverVars

(* Goroutines run, the server answers, a handler ends when its minute is   *)
(* over, and a mutex of package sync starves nobody; failures end.         *)
Spec == /\ Init /\ [][Next]_vars
        /\ WF_vars(Run)
        /\ \A w \in Watches : WF_vars(Watching(w)) /\ SF_vars(Locking(w))

-----------------------------------------------------------------------------
TypeOK == /\ WatcherTypeOK
          /\ spc \in {"start", "running", "stop", "exit", "exited"}
          /\ asService \in BOOLEAN
          /\ status \in {"StartPending", "Running", "StopPending", "Stopped"}
          /\ asked \in BOOLEAN

(* A change reaches its handler in the end, unless another change or the   *)
(* end of the agent comes first: neither retries, nor a lost body, nor the *)
(* other handlers' turns at the mutex withhold it for ever.                *)
ChangeHandled ==
  \A w \in Watches : \A v \in 1..MaxVersion :
    (spc = "running" /\ value[w] = v)
      ~> (value[w] # v \/ handled[w] = v \/ cancelled \/ spc # "running")

(* A stop that was asked for ends the process, even beside a handler. *)
StopEnds == (asked \/ cancelled) ~> spc = "exited"
=============================================================================
