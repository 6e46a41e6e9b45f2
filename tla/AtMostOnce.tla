----------------------------- MODULE AtMostOnce -----------------------------
(***************************************************************************)
(* What the users handler promises to whoever writes password requests     *)
(* into the instance's metadata: each post, that is each change of the     *)
(* metadata value, is executed at most once and in the order of the posts, *)
(* whatever is delivered again and wherever the agent dies; and a password *)
(* is told at most once, while it is the one set last.                     *)
(***************************************************************************)
EXTENDS Naturals, Sequences

VARIABLES posted,   \* how many posts there were
          done,     \* those that were executed, in order
          told      \* those whose password was written to the serial port

promiseVars == <<posted, done, told>>

Init == posted = 0 /\ done = <<>> /\ told = {}

Post == /\ posted' = posted + 1
        /\ UNCHANGED <<done, told>>

Execute(i) == /\ i \in 1..posted
              /\ \A k \in DOMAIN done : done[k] < i
              /\ done' = Append(done, i)
              /\ UNCHANGED <<posted, told>>

Tell(i) == /\ done # <<>> /\ i = done[Len(done)]
           /\ i \notin told
           /\ told' = told \cup {i}
           /\ UNCHANGED <<posted, done>>

Next == Post \/ \E i \in 1..posted : Execute(i) \/ Tell(i)

Spec == Init /\ [][Next]_promiseVars
=============================================================================
