----------------------------- MODULE SerialPort -----------------------------
(***************************************************************************)
(* pkg/serial, and pkg/heartbeat and the logger's sink above it.  The      *)
(* packages of the agent write JSON lines to the one port of the process,  *)
(* each through a writer of its own, and each writer has a mutex of its    *)
(* own: what keeps two lines apart is that a line is one Write of the      *)
(* port, which is exclusive below (the write lock of os.File on linux, of  *)
(* the vendored port on windows).  The reader sees the lines.              *)
(*                                                                         *)
(* A message is its body and the end of its line; the end may be missing   *)
(* when a write fails or the process dies.                                 *)
(***************************************************************************)
EXTENDS Integers

CONSTANTS Clients,    \* the goroutines that write; heartbeat's is two, one for
                      \* its message and one for what it logs
          WriterOf,   \* the writer, and so the mutex, each of them uses
          maxRetries

Heartbeat == "heartbeat"
BeatLog   == "beatlog"
Nobody    == "nobody"

ASSUME SerialPortAssumption ==
  /\ {Heartbeat, BeatLog} \subseteq Clients
  /\ Clients \cap {Nobody, "empty", "rubble"} = {}
  /\ maxRetries \in Nat

Writers == {WriterOf[c] : c \in Clients}

VARIABLES agent,     \* "opening" the port, "up", or "down"
          failures,  \* of opening the port
          pc,        \* of each client
          wl,        \* of each writer, who holds its mutex
          portLock,  \* who is in the port's Write
          tick,      \* is there a tick in the ticker's channel?
          line,      \* the line so far: "empty", one's body, or "rubble"
          broken,    \* does it begin with what a failure left?
          whole,     \* whose message was a line of its own
          excused    \* whose message was behind what a failure left

processVars == <<agent, failures, tick>>
lineVars    == <<line, broken, whole>>
vars == <<agent, failures, pc, wl, portLock, tick, line, broken, whole, excused>>

Goto(c, label) == pc' = [pc EXCEPT ![c] = label]

-----------------------------------------------------------------------------
(* Wrong: the agent starts without the port. *)
OpenPortAnyway == /\ agent = "opening"
                  /\ agent' \in {"up", "down"}
                  /\ failures' = 0
                  /\ Goto(Heartbeat, "begin")
                  /\ UNCHANGED <<wl, portLock, tick, lineVars, excused>>

(* serial.Init, once per process: one attempt and maxRetries more. *)
OpenPort == /\ agent = "opening"
            /\ \/ agent' = "up" /\ failures' = 0
               \/ failures < maxRetries /\ failures' = failures + 1 /\ UNCHANGED agent
               \/ failures = maxRetries /\ agent' = "down" /\ failures' = 0
            /\ Goto(Heartbeat, IF agent' = "up" THEN "begin" ELSE "idle")
            /\ UNCHANGED <<wl, portLock, tick, lineVars, excused>>

-----------------------------------------------------------------------------
(* WriteJSON, and the logger's sink *)

(* A client other than the heartbeat has something to write. *)
Begin(c) == /\ agent = "up"
            /\ c \notin {Heartbeat, BeatLog}
            /\ pc[c] = "idle"
            /\ Goto(c, "begin")
            /\ UNCHANGED <<processVars, wl, portLock, lineVars, excused>>

(* The writer's mutex. *)
Lock(c) == /\ pc[c] = "begin"
           /\ wl[WriterOf[c]] = Nobody
           /\ wl' = [wl EXCEPT ![WriterOf[c]] = c]
           /\ Goto(c, "locked")
           /\ UNCHANGED <<processVars, portLock, lineVars, excused>>

(* Wrong: writers exclude only themselves. *)
EnterAnyway(c) == /\ pc[c] = "locked"
                  /\ portLock' = c
                  /\ Goto(c, "write")
                  /\ excused' = IF broken THEN excused \cup {c} ELSE excused
                  /\ UNCHANGED <<processVars, wl, lineVars>>

(* The port's Write begins. *)
Enter(c) == /\ pc[c] = "locked"
            /\ portLock = Nobody
            /\ portLock' = c
            /\ Goto(c, "write")
            /\ excused' = IF broken THEN excused \cup {c} ELSE excused
            /\ UNCHANGED <<processVars, wl, lineVars>>

PutBody(c) == line' = (IF line = "empty" THEN c ELSE "rubble") /\ UNCHANGED whole

(* Write returns. *)
Leave(c, label) == /\ portLock' = Nobody
                   /\ wl' = [wl EXCEPT ![WriterOf[c]] = Nobody]
                   /\ Goto(c, label)

WriteBody(c) == /\ pc[c] = "write"
                /\ \/ /\ PutBody(c)
                      /\ Goto(c, "end")
                      /\ UNCHANGED <<wl, portLock, broken>>
                   \/ /\ Leave(c, "error")
                      /\ \/ PutBody(c) /\ broken' = TRUE
                         \/ UNCHANGED lineVars
                /\ UNCHANGED <<processVars, excused>>

WriteEnd(c) == /\ pc[c] = "end"
               /\ \/ /\ line' = "empty"
                     /\ broken' = FALSE
                     /\ whole' = IF line = c THEN whole \cup {c} ELSE whole
                     /\ Leave(c, "written")
                  \/ /\ Leave(c, "error")
                     /\ broken' = TRUE
                     /\ UNCHANGED <<line, whole>>
               /\ UNCHANGED <<processVars, excused>>

Forget(c) == /\ whole' = whole \ {c}
             /\ excused' = excused \ {c}
             /\ UNCHANGED <<line, broken>>

(* The caller goes on; only the heartbeat has a loop of its own. *)
Done(c) == /\ c \notin {Heartbeat, BeatLog}
           /\ pc[c] \in {"written", "error"}
           /\ Goto(c, "idle")
           /\ Forget(c)
           /\ UNCHANGED <<processVars, wl, portLock>>

-----------------------------------------------------------------------------
(* Ticker.do *)

(* Wrong: an error ends the loop. *)
BeatGivesUp == /\ pc[Heartbeat] \in {"written", "error"}
               /\ Goto(Heartbeat, IF pc[Heartbeat] = "error" THEN "idle" ELSE "select")
               /\ Forget(Heartbeat)
               /\ UNCHANGED <<processVars, wl, portLock>>

(* beat logs what came of its message, error or not; whether that goes to  *)
(* the port too depends on the log's settings.                             *)
Beat == /\ pc[Heartbeat] \in {"written", "error"}
        /\ \/ pc' = [pc EXCEPT ![Heartbeat] = "logging", ![BeatLog] = "begin"]
           \/ Goto(Heartbeat, "select")
        /\ Forget(Heartbeat)
        /\ UNCHANGED <<processVars, wl, portLock>>

(* beat returns; nobody looks at an error of the log. *)
BeatReturns == /\ pc[BeatLog] \in {"written", "error"}
               /\ pc' = [pc EXCEPT ![BeatLog] = "idle", ![Heartbeat] = "select"]
               /\ Forget(BeatLog)
               /\ UNCHANGED <<processVars, wl, portLock>>

Select == /\ pc[Heartbeat] = "select"
          /\ tick
          /\ tick' = FALSE
          /\ Goto(Heartbeat, "begin")
          /\ UNCHANGED <<agent, failures, wl, portLock, lineVars, excused>>

-----------------------------------------------------------------------------
(* The environment *)

(* A ticker drops the ticks its channel has no room for. *)
TickerFires == /\ agent = "up"
               /\ ~tick
               /\ tick' = TRUE
               /\ UNCHANGED <<agent, failures, pc, wl, portLock, lineVars, excused>>

(* The process ends at any place; a line may be left half written. *)
Die == /\ agent = "up"
       /\ agent' = "down"
       /\ pc' = [c \in Clients |-> "idle"]
       /\ wl' = [w \in Writers |-> Nobody]
       /\ portLock' = Nobody
       /\ tick' = FALSE
       /\ broken' = (broken \/ line # "empty")
       /\ whole' = {}
       /\ excused' = {}
       /\ UNCHANGED <<failures, line>>

(* The service manager starts the agent again. *)
Restart == /\ agent = "down"
           /\ agent' = "opening"
           /\ UNCHANGED <<failures, pc, wl, portLock, tick, lineVars, excused>>

-----------------------------------------------------------------------------
Init == /\ agent = "opening"
        /\ failures = 0
        /\ pc = [c \in Clients |-> "idle"]
        /\ wl = [w \in Writers |-> Nobody]
        /\ portLock = Nobody
        /\ tick = FALSE
        /\ line = "empty"
        /\ broken = FALSE
        /\ whole = {}
        /\ excused = {}

Step(c) == Lock(c) \/ Enter(c) \/ WriteBody(c) \/ WriteEnd(c) \/ Done(c)

Loop == Beat \/ BeatReturns \/ Select

Next == \/ OpenPort \/ Restart \/ Die
        \/ \E c \in Clients : Begin(c) \/ Step(c)
        \/ Loop \/ TickerFires

(* Goroutines run; Go's mutexes are handed to whoever has waited long; the *)
(* port takes what is written to it, or fails.                             *)
Spec == /\ Init /\ [][Next]_vars
        /\ WF_vars(Loop)
        /\ \A c \in Clients : SF_vars(Step(c))

-----------------------------------------------------------------------------
TypeOK ==
  /\ agent \in {"opening", "up", "down"}
  /\ failures \in 0..maxRetries
  /\ pc \in [Clients -> {"idle", "begin", "locked", "write", "end", "written", "error",
                         "logging", "select"}]
  /\ (\E c \in Clients : pc[c] # "idle") => agent = "up"
  /\ pc[Heartbeat] = "logging" <=> pc[BeatLog] # "idle"
  /\ wl \in [Writers -> Clients \cup {Nobody}]
  /\ portLock \in Clients \cup {Nobody}
  /\ tick \in BOOLEAN
  /\ line \in Clients \cup {"empty", "rubble"}
  /\ broken \in BOOLEAN
  /\ whole \subseteq Clients
  /\ excused \subseteq Clients

(* What was reported as written was received as a line of its own, unless  *)
(* a write that failed, or a process that died, had left a part of one.    *)
WrittenIsReceived ==
  \A c \in Clients : pc[c] = "written" => c \in whole \cup excused

(* The heartbeat takes every tick as long as the agent is up, whatever     *)
(* failed before and whoever else writes.                                  *)
HeartbeatGoesOn == tick ~> ~tick
=============================================================================
