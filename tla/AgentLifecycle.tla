---------------------------- MODULE AgentLifecycle ---------------------------
(***************************************************************************)
(* What the updater promises of the agent on its machine, whatever fails   *)
(* and whenever a command is killed or the machine restarted: the agent's  *)
(* executable comes and goes only while no service is registered for it    *)
(* and none runs, so that it is never replaced under a running service nor *)
(* one version written over another.  Updater implements this              *)
(* specification (Updater!LifecycleSpec).                                  *)
(***************************************************************************)
CONSTANT Versions

VARIABLES agent,        \* the executable: {} or its version
          registered,   \* is there a service that can be started?
          running       \* does it run, come up or stop?

(* No agent, or one that an installer has set up. *)
Init == /\ agent \in {{}} \cup {{v} : v \in Versions}
        /\ registered = (agent # {})
        /\ running = registered

Place(v) == /\ agent = {} /\ ~registered /\ ~running
            /\ agent' = {v}
            /\ UNCHANGED <<registered, running>>

Wipe == /\ agent # {} /\ ~registered /\ ~running
        /\ agent' = {}
        /\ UNCHANGED <<registered, running>>

Register == /\ ~registered /\ ~running
            /\ registered' = TRUE
            /\ UNCHANGED <<agent, running>>

Unregister == /\ registered /\ ~running
              /\ registered' = FALSE
              /\ UNCHANGED <<agent, running>>

Run == /\ registered /\ agent # {} /\ ~running
       /\ running' = TRUE
       /\ UNCHANGED <<agent, registered>>

End == /\ running
       /\ running' = FALSE
       /\ UNCHANGED <<agent, registered>>

Next == (\E v \in Versions : Place(v)) \/ Wipe \/ Register \/ Unregister \/ Run \/ End

Spec == Init /\ [][Next]_<<agent, registered, running>>
=============================================================================
