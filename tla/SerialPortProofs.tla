-------------------------- MODULE SerialPortProofs ---------------------------
(***************************************************************************)
(* What was reported as written was received as a line, for any number of  *)
(* goroutines and writers.  The argument: who is inside the port's Write   *)
(* is alone there, and finds a line that is empty unless a failure left a  *)
(* part of one; that part, and only that, spoils the next line.            *)
(***************************************************************************)
EXTENDS SerialPort, TLAPS

Alone == \A c \in Clients : portLock = c <=> pc[c] \in {"write", "end"}

AtBegin == \A c \in Clients :
             pc[c] = "write" => line = "empty" \/ (c \in excused /\ broken)

AtEnd == \A c \in Clients : pc[c] = "end" => line = c \/ c \in excused

Between == portLock = Nobody => line = "empty" \/ broken

LInv == TypeOK /\ Alone /\ AtBegin /\ AtEnd /\ Between /\ WrittenIsReceived

LEMMA LInvInit == Init => LInv
<1> SUFFICES ASSUME Init PROVE LInv
  OBVIOUS
<1> USE SerialPortAssumption DEF Init
<1>1. 0 \in 0..maxRetries
  OBVIOUS
<1>2. /\ pc \in [Clients -> {"idle", "begin", "locked", "write", "end", "written", "error",
                            "logging", "select"}]
      /\ \A c \in Clients : pc[c] = "idle"
  OBVIOUS
<1>3. wl \in [Writers -> Clients \cup {Nobody}]
  OBVIOUS
<1>4. TypeOK
  BY <1>1, <1>2, <1>3 DEF TypeOK
<1>5. Alone /\ AtBegin /\ AtEnd /\ Between /\ WrittenIsReceived
  BY <1>2 DEF Alone, AtBegin, AtEnd, Between, WrittenIsReceived
<1>6. QED
  BY <1>4, <1>5 DEF LInv

-----------------------------------------------------------------------------
(* The steps of one client leave the others alone. *)
LEMMA TypeStep == LInv /\ [Next]_vars => TypeOK'
<1> SUFFICES ASSUME LInv, [Next]_vars PROVE TypeOK'
  OBVIOUS
<1> USE SerialPortAssumption DEF LInv, TypeOK, Goto, processVars, lineVars
<1>0. \A c \in Clients : WriterOf[c] \in Writers
  BY DEF Writers
<1>1. CASE OpenPort
  <2>1. maxRetries \in Nat /\ failures' \in 0..maxRetries
    BY <1>1 DEF OpenPort
  <2>2. agent' \in {"opening", "up", "down"} /\ Heartbeat \in Clients
    BY <1>1 DEF OpenPort
  <2>3. pc' = [pc EXCEPT ![Heartbeat] = IF agent' = "up" THEN "begin" ELSE "idle"]
    BY <1>1 DEF OpenPort
  <2>4. \A c \in Clients : pc[c] = "idle"
    BY <1>1 DEF OpenPort
  <2>5. (\E c \in Clients : pc'[c] # "idle") => agent' = "up"
    BY <2>2, <2>3, <2>4
  <2>6. pc'[Heartbeat] # "logging" /\ pc'[BeatLog] = "idle"
    BY <2>3, <2>4 DEF Heartbeat, BeatLog
  <2>7. QED
    BY <1>1, <2>1, <2>2, <2>3, <2>5, <2>6 DEF OpenPort
<1>2. ASSUME NEW c \in Clients, Begin(c) PROVE TypeOK'
  BY <1>2 DEF Begin
<1>3. ASSUME NEW c \in Clients, Lock(c) \/ Enter(c) PROVE TypeOK'
  BY <1>0, <1>3 DEF Lock, Enter
<1>4. ASSUME NEW c \in Clients, WriteBody(c) PROVE TypeOK'
  BY <1>0, <1>4 DEF WriteBody, PutBody, Leave
<1>5. ASSUME NEW c \in Clients, WriteEnd(c) PROVE TypeOK'
  BY <1>0, <1>5 DEF WriteEnd, Leave
<1>6. ASSUME NEW c \in Clients, Done(c) PROVE TypeOK'
  BY <1>6 DEF Done, Forget
<1>7. CASE Loop
  BY <1>7 DEF Loop, Beat, BeatReturns, Select, Forget, Heartbeat, BeatLog
<1>8. CASE TickerFires \/ Die \/ Restart
  BY <1>8 DEF TickerFires, Die, Restart
<1>9. CASE UNCHANGED vars
  BY <1>9 DEF vars
<1>10. QED
  BY <1>1, <1>2, <1>3, <1>4, <1>5, <1>6, <1>7, <1>8, <1>9 DEF Next, Step

-----------------------------------------------------------------------------
LEMMA LineStep ==
  LInv /\ [Next]_vars => Alone' /\ AtBegin' /\ AtEnd' /\ Between' /\ WrittenIsReceived'
<1> SUFFICES ASSUME LInv, [Next]_vars
             PROVE  Alone' /\ AtBegin' /\ AtEnd' /\ Between' /\ WrittenIsReceived'
  OBVIOUS
<1> USE SerialPortAssumption
    DEF LInv, TypeOK, Alone, AtBegin, AtEnd, Between, WrittenIsReceived, Goto,
        processVars, lineVars
<1>1. CASE OpenPort
  BY <1>1 DEF OpenPort
<1>2. ASSUME NEW c \in Clients, Begin(c) \/ Lock(c)
      PROVE  Alone' /\ AtBegin' /\ AtEnd' /\ Between' /\ WrittenIsReceived'
  BY <1>2 DEF Begin, Lock
<1>3. ASSUME NEW c \in Clients, Enter(c)
      PROVE  Alone' /\ AtBegin' /\ AtEnd' /\ Between' /\ WrittenIsReceived'
  BY <1>3 DEF Enter
<1>4. ASSUME NEW c \in Clients, WriteBody(c)
      PROVE  Alone' /\ AtBegin' /\ AtEnd' /\ Between' /\ WrittenIsReceived'
  <2>1. pc[c] = "write" /\ portLock = c
    BY <1>4 DEF WriteBody
  <2>2. \A d \in Clients \ {c} : pc'[d] = pc[d] /\ pc[d] \notin {"write", "end"}
    BY <1>4, <2>1 DEF WriteBody, Leave
  <2>3. QED
    BY <1>4, <2>1, <2>2 DEF WriteBody, PutBody, Leave
<1>5. ASSUME NEW c \in Clients, WriteEnd(c)
      PROVE  Alone' /\ AtBegin' /\ AtEnd' /\ Between' /\ WrittenIsReceived'
  <2>1. pc[c] = "end" /\ portLock = c
    BY <1>5 DEF WriteEnd
  <2>2. \A d \in Clients \ {c} : pc'[d] = pc[d] /\ pc[d] \notin {"write", "end"}
    BY <1>5, <2>1 DEF WriteEnd, Leave
  <2>3. QED
    BY <1>5, <2>1, <2>2 DEF WriteEnd, Leave
<1>6. ASSUME NEW c \in Clients, Done(c)
      PROVE  Alone' /\ AtBegin' /\ AtEnd' /\ Between' /\ WrittenIsReceived'
  BY <1>6 DEF Done, Forget
<1>7. CASE Loop
  BY <1>7 DEF Loop, Beat, BeatReturns, Select, Forget, Heartbeat, BeatLog
<1>8. CASE TickerFires \/ Die \/ Restart
  BY <1>8 DEF TickerFires, Die, Restart
<1>9. CASE UNCHANGED vars
  BY <1>9 DEF vars
<1>10. QED
  BY <1>1, <1>2, <1>3, <1>4, <1>5, <1>6, <1>7, <1>8, <1>9 DEF Next, Step

LEMMA LInvAlways == Spec => []LInv
<1>1. LInv /\ [Next]_vars => LInv'
  BY TypeStep, LineStep DEF LInv
<1>2. QED
  BY LInvInit, <1>1, PTL DEF Spec

-----------------------------------------------------------------------------
(* The variables of the writers keep their types, however many there are,  *)
(* and no goroutine runs beside a process that is down.                    *)
THEOREM SerialTypeCorrect == Spec => []TypeOK
<1>1. LInv => TypeOK
  BY DEF LInv
<1>2. QED
  BY LInvAlways, <1>1, PTL

(* A message that WriteJSON reported as written was a line of its own for  *)
(* the reader, unless a failure had left a part of a line before it.       *)
THEOREM WrittenIsReceivedCorrect == Spec => []WrittenIsReceived
<1>1. LInv => WrittenIsReceived
  BY DEF LInv
<1>2. QED
  BY LInvAlways, <1>1, PTL
=============================================================================
