------------------------------ MODULE Delivery -------------------------------
(***************************************************************************)
(* What the agent's watchers promise about the values they watch: each     *)
(* handler is handed versions that were the value, never an older one      *)
(* after a newer one, possibly skipping some and repeating the last; and   *)
(* nothing once the agent was told to stop.                                *)
(***************************************************************************)
EXTENDS Naturals

CONSTANT Watches

VARIABLES value,     \* value[w]: the version of w's value, 0 if it has none
          handled,   \* handled[w]: the last version that w's handler was handed
          stopped

deliveryVars == <<value, handled, stopped>>

Init == /\ value = [w \in Watches |-> 0]
        /\ handled = [w \in Watches |-> 0]
        /\ stopped = FALSE

Change(w) == /\ value' = [value EXCEPT ![w] = @ + 1]
             /\ UNCHANGED <<handled, stopped>>

Deliver(w) == /\ ~stopped
              /\ \E v \in handled[w]..value[w] :
                   v # 0 /\ handled' = [handled EXCEPT ![w] = v]
              /\ UNCHANGED <<value, stopped>>

Stop == /\ stopped' = TRUE
        /\ UNCHANGED <<value, handled>>

Next == Stop \/ \E w \in Watches : Change(w) \/ Deliver(w)

Spec == Init /\ [][Next]_deliveryVars
=============================================================================
