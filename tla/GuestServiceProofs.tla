------------------------- MODULE GuestServiceProofs -------------------------
(***************************************************************************)
(* For any watched values, versions and failures: the watchers' handlers   *)
(* exclude each other, and implement Delivery, beside signals, stop        *)
(* requests and the end of the process.                                    *)
(***************************************************************************)
EXTENDS GuestService, TLAPS

Inside == {"handle", "handling"}
Got    == {"body", "lock", "handle", "handling"}

(* The mutex is held by the goroutine that handles, and by no other. *)
Held == \A w \in Watches : pc[w] \in Inside <=> m = {w}

(* What has been got was the value, and is no older than what was handled. *)
Ordered == \A w \in Watches :
  /\ handled[w] <= value[w]
  /\ pc[w] \in Got => data[w] \in handled[w]..value[w] /\ data[w] # 0

(* There is no goroutine before start. *)
NotStarted == spc = "start" => \A w \in Watches :
  pc[w] = "none" /\ lastETag[w] = handled[w]

(* As long as nothing fails, the tag that is sent is that of the version   *)
(* handled last, and the tag of an answer that of the version in hand.     *)
Tagged == (failures = 0 /\ ~cancelled) => \A w \in Watches :
  /\ pc[w] \in {"loop", "op", "waiting", "handling"} => lastETag[w] = handled[w]
  /\ pc[w] \in {"body", "lock", "handle"} => lastETag[w] = data[w]

GInv == TypeOK /\ Held /\ Ordered /\ NotStarted /\ Tagged

-----------------------------------------------------------------------------
LEMMA InitGInv == ASSUME Init PROVE GInv
<1> USE DEF Init, WatcherInit
<1>1. TypeOK
  <2>1. MaxVersion \in Nat /\ MaxFailures \in Nat
    BY WatcherAssumption
  <2>2. 0 \in Versions /\ failures \in 0..MaxFailures
    BY <2>1 DEF Versions
  <2>3. QED
    BY <2>2 DEF TypeOK, WatcherTypeOK
<1>2. Held
  BY DEF Held, Inside
<1>3. Ordered
  <2> SUFFICES ASSUME NEW w \in Watches
               PROVE  handled[w] <= value[w] /\ pc[w] \notin Got
    BY DEF Ordered
  <2>1. handled[w] = 0 /\ value[w] = 0
    OBVIOUS
  <2>2. pc[w] \notin Got
    BY DEF Got
  <2>3. QED
    BY <2>1, <2>2
<1>4. NotStarted
  BY DEF NotStarted
<1>5. Tagged
  BY DEF Tagged
<1>6. QED
  BY <1>1, <1>2, <1>3, <1>4, <1>5 DEF GInv

(* A step of one goroutine that leaves the mutex alone, and is not in it. *)
LEMMA StepGInv ==
  ASSUME GInv, NEW w \in Watches, UNCHANGED serverVars, spc # "start",
         \/ Loop(w) \/ Op(w) \/ Answer(w) \/ NoAnswer(w) \/ ReadBody(w)
  PROVE  GInv'
<1> USE WatcherAssumption DEF GInv, serverVars, Goto
<1>1. pc[w] \in {"loop", "op", "waiting", "body"}
  BY DEF Loop, Op, Answer, NoAnswer, ReadBody
<1>2. /\ UNCHANGED <<value, m, cancelled, handled, spc, asService, status, asked>>
      /\ \E l \in {"op", "loop", "ended", "waiting", "body", "lock"} :
           pc' = [pc EXCEPT ![w] = l]
  BY DEF Loop, Op, Answer, NoAnswer, ReadBody, OpFails
<1>3. Held'
  BY <1>1, <1>2 DEF Held, Inside, TypeOK, WatcherTypeOK
<1>4. TypeOK'
  <2>1. CASE Loop(w)
    BY <1>2, <2>1 DEF Loop, TypeOK, WatcherTypeOK, Versions
  <2>2. CASE Op(w)
    BY <1>2, <2>2 DEF Op, TypeOK, WatcherTypeOK, Versions
  <2>3. CASE Answer(w)
    BY <1>2, <2>3 DEF Answer, TypeOK, WatcherTypeOK, Versions
  <2>4. CASE NoAnswer(w)
    BY <1>2, <2>4 DEF NoAnswer, Transient, TypeOK, WatcherTypeOK, Versions
  <2>5. CASE ReadBody(w)
    BY <1>2, <2>5 DEF ReadBody, Transient, TypeOK, WatcherTypeOK, Versions
  <2>6. QED
    BY <2>1, <2>2, <2>3, <2>4, <2>5
<1>5. Ordered'
  <2>1. CASE Answer(w)
    BY <2>1 DEF Answer, Ordered, Got, TypeOK, WatcherTypeOK, Versions
  <2>2. CASE ReadBody(w)
    BY <2>2 DEF ReadBody, OpFails, Ordered, Got, TypeOK, WatcherTypeOK, Versions
  <2>3. CASE Loop(w) \/ Op(w) \/ NoAnswer(w)
    BY <2>3 DEF Loop, Op, NoAnswer, OpFails, Ordered, Got, TypeOK, WatcherTypeOK, Versions
  <2>4. QED
    BY <2>1, <2>2, <2>3
<1>6. NotStarted'
  BY <1>2 DEF NotStarted
<1>7. Tagged'
  BY DEF Tagged, Transient, Loop, Op, Answer, NoAnswer, ReadBody, OpFails, TypeOK,
         WatcherTypeOK
<1>8. QED
  BY <1>3, <1>4, <1>5, <1>6, <1>7

(* The steps that take the mutex, use it and give it back. *)
LEMMA MutexGInv ==
  ASSUME GInv, NEW w \in Watches, UNCHANGED serverVars, spc # "start",
         Lock(w) \/ Handle(w) \/ HandleReturns(w)
  PROVE  GInv'
<1> USE WatcherAssumption DEF GInv, serverVars, Goto
<1>1. CASE Lock(w)
  BY <1>1 DEF Lock, TypeOK, WatcherTypeOK, Held, Ordered, NotStarted, Tagged,
              Inside, Got, Versions
<1>2. CASE Handle(w)
  BY <1>2 DEF Handle, Unlock, TypeOK, WatcherTypeOK, Held, Ordered, NotStarted, Tagged,
              Inside, Got, Versions
<1>3. CASE HandleReturns(w)
  BY <1>3 DEF HandleReturns, Unlock, TypeOK, WatcherTypeOK, Held, Ordered, NotStarted,
              Tagged, Inside, Got, Versions
<1>4. QED
  BY <1>1, <1>2, <1>3

LEMMA RunGInv ==
  ASSUME GInv, Run \/ Signal \/ StopRequest \/ UnknownCommand PROVE GInv'
<1> USE WatcherAssumption DEF GInv, TypeOK, Held, Ordered, NotStarted, Tagged
<1>1. CASE Start
  BY <1>1 DEF Start, AddWatches, WatcherTypeOK, watcherVars, Inside, Got, Versions
<1>2. CASE Exit
  BY <1>2 DEF Exit, Die, WatcherTypeOK, Inside, Got, Versions
<1>3. CASE Stop
  BY <1>3 DEF Stop, Cancel, WatcherTypeOK
<1>4. CASE Signal
  BY <1>4 DEF Signal, Cancel, WatcherTypeOK, serverVars
<1>5. CASE WaitReturns \/ ExecuteBegins \/ ExecuteBreaks \/ UnknownCommand \/ StopRequest
  BY <1>5 DEF WaitReturns, ExecuteBegins, ExecuteBreaks, UnknownCommand, StopRequest,
              WatcherTypeOK, watcherVars
<1>6. QED
  BY <1>1, <1>2, <1>3, <1>4, <1>5 DEF Run

LEMMA ChangeGInv ==
  ASSUME GInv, NEW w \in Watches, Change(w), UNCHANGED serverVars PROVE GInv'
BY WatcherAssumption DEF GInv, Change, serverVars, TypeOK, WatcherTypeOK, Held, Ordered,
                         NotStarted, Tagged, Versions

LEMMA NextGInv == ASSUME GInv, [Next]_vars PROVE GInv'
<1>1. CASE Run \/ Signal \/ StopRequest \/ UnknownCommand
  BY <1>1, RunGInv
<1>2. ASSUME NEW w \in Watches, Watching(w) \/ Locking(w) PROVE GInv'
  <2>1. pc[w] # "none"
    BY <1>2 DEF Watching, Locking, Watch, Loop, Op, Answer, NoAnswer, ReadBody, Lock,
                Handle, HandleReturns
  <2>2. spc # "start"
    BY <2>1 DEF GInv, NotStarted
  <2>3. QED
    BY <1>2, <2>2, StepGInv, MutexGInv DEF Watching, Locking, Watch
<1>3. ASSUME NEW w \in Watches, Change(w), UNCHANGED serverVars PROVE GInv'
  BY <1>3, ChangeGInv
<1>4. CASE UNCHANGED vars
  BY <1>4 DEF vars, watcherVars, serverVars, GInv, TypeOK, WatcherTypeOK, Held, Ordered,
              NotStarted, Tagged
<1>5. QED
  BY <1>1, <1>2, <1>3, <1>4 DEF Next

(* The invariant of the watchers and of the process around them. *)
THEOREM AgentInvariant == Spec => []GInv
BY InitGInv, NextGInv, PTL DEF Spec

-----------------------------------------------------------------------------
(* The agent's variables keep their types. *)
THEOREM AgentTypeCorrect == Spec => []TypeOK
<1>1. GInv => TypeOK
  BY DEF GInv
<1>2. QED
  BY <1>1, AgentInvariant, PTL

(* No two handlers are at work at a time (syncCall): eventbus.go:73.       *)
THEOREM OneAtATimeCorrect == Spec => []OneAtATime
<1>1. GInv => OneAtATime
  BY DEF GInv, Held, Inside, OneAtATime
<1>2. QED
  BY <1>1, AgentInvariant, PTL

(* No watcher waits for a change that its handler has missed, as long as   *)
(* no answer was lost: eventbus.go:50, poller.go:90.                       *)
THEOREM QuietIsHandledCorrect == Spec => []QuietIsHandled
<1>1. GInv => QuietIsHandled
  BY DEF GInv, Tagged, QuietIsHandled
<1>2. QED
  BY <1>1, AgentInvariant, PTL

-----------------------------------------------------------------------------
LEMMA InitDelivery == ASSUME Init PROVE Promise!Init
BY DEF Init, WatcherInit, Promise!Init

(* Each step of the agent is one of Delivery or changes nothing of it. *)
LEMMA NextDelivery ==
  ASSUME GInv, [Next]_vars PROVE [Promise!Next]_Promise!deliveryVars
<1> USE DEF Promise!deliveryVars
<1>1. CASE Start \/ WaitReturns \/ ExecuteBegins \/ ExecuteBreaks \/ Exit
           \/ StopRequest \/ UnknownCommand \/ UNCHANGED vars
  BY <1>1 DEF Start, AddWatches, WaitReturns, ExecuteBegins, ExecuteBreaks, Exit, Die,
              StopRequest, UnknownCommand, vars, watcherVars
<1>2. CASE Stop \/ Signal
  BY <1>2 DEF Stop, Signal, Cancel, Promise!Next, Promise!Stop
<1>3. ASSUME NEW w \in Watches, Change(w) PROVE Promise!Next
  BY <1>3 DEF Change, Promise!Next, Promise!Change
<1>4. ASSUME NEW w \in Watches, Handle(w), ~cancelled PROVE Promise!Next
  <2>1. data[w] \in handled[w]..value[w] /\ data[w] # 0
    BY <1>4 DEF GInv, Ordered, Got, Handle
  <2>2. Promise!Deliver(w)
    BY <1>4, <2>1 DEF Handle, Promise!Deliver
  <2>3. QED
    BY <2>2 DEF Promise!Next
<1>5. ASSUME NEW w \in Watches,
             \/ Loop(w) \/ Op(w) \/ Answer(w) \/ NoAnswer(w) \/ ReadBody(w)
             \/ Lock(w) \/ HandleReturns(w) \/ (Handle(w) /\ cancelled)
      PROVE  UNCHANGED <<value, handled, cancelled>>
  BY <1>5 DEF Loop, Op, Answer, NoAnswer, ReadBody, Lock, HandleReturns, Handle
<1>6. ASSUME NEW w \in Watches, Watching(w) \/ Locking(w)
      PROVE  Promise!Next \/ UNCHANGED <<value, handled, cancelled>>
  <2>1. Watch(w) \/ Lock(w)
    BY <1>6 DEF Watching, Locking
  <2>2. CASE Handle(w) /\ ~cancelled
    BY <2>2, <1>4
  <2>3. CASE ~(Handle(w) /\ ~cancelled)
    <3>1. \/ Loop(w) \/ Op(w) \/ Answer(w) \/ NoAnswer(w) \/ ReadBody(w)
          \/ Lock(w) \/ HandleReturns(w) \/ (Handle(w) /\ cancelled)
      BY <2>1, <2>3 DEF Watch
    <3>2. QED
      BY <3>1, <1>5
  <2>4. QED
    BY <2>2, <2>3
<1>7. QED
  BY <1>1, <1>2, <1>3, <1>6 DEF Next, Run

(* Handlers see the versions in order, and none after the stop, whatever   *)
(* is retried, lost or waited for (eventbus.go:50, poller.go:41).          *)
THEOREM ImplementsDelivery == Spec => DeliverySpec
<1>1. Init => Promise!Init
  BY InitDelivery
<1>2. GInv /\ [Next]_vars => [Promise!Next]_Promise!deliveryVars
  BY NextDelivery
<1>3. QED
  BY <1>1, <1>2, AgentInvariant, PTL DEF Spec, DeliverySpec, Promise!Spec
=============================================================================
