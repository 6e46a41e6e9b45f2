--------------------------- MODULE MetadataWatcher --------------------------
(***************************************************************************)
(* The agent's watchers, pkg/meta: for each watched value a goroutine that *)
(* asks the metadata server for it (poller.go) and hands the answer to its *)
(* handler, all of them under one mutex (eventbus.go).                     *)
(*                                                                         *)
(* The server answers a request that names the tag of an old version at    *)
(* once, and one that names the current version when the value changes or  *)
(* the long poll times out; so it always answers in the end.  A value is   *)
(* known by the number of its version, which is also its tag.  Of a        *)
(* handler only its beginning and its end are seen.                        *)
(***************************************************************************)
EXTENDS Naturals

CONSTANTS Watches,
          MaxVersion, MaxFailures     \* bounds of the model

ASSUME WatcherAssumption == {MaxVersion, MaxFailures} \subseteq Nat

VARIABLES value,      \* value[w]: the version of w's value, 0 if it has none
          pc,         \* pc[w]: where w's goroutine is
          lastETag,
          data,       \* data[w]: the version that Get has returned
          m,          \* who holds the mutex: {} or one goroutine
          cancelled,  \* the watchers' context is done
          handled,    \* handled[w]: the last version the handler was handed
          failures

watcherVars == <<value, pc, lastETag, data, m, cancelled, handled, failures>>

Goto(w, label) == pc' = [pc EXCEPT ![w] = label]

-----------------------------------------------------------------------------
(* MetadataWatcher.watch, the loop *)

Loop(w) == /\ pc[w] = "loop"
           /\ data' = [data EXCEPT ![w] = 0]
           /\ Goto(w, IF cancelled THEN "ended" ELSE "op")
           /\ UNCHANGED <<value, lastETag, m, cancelled, handled, failures>>

-----------------------------------------------------------------------------
(* Poller.Get *)

(* Wrong: the watcher ends with the error. *)
OpFailsForGood(w) == pc' \in {[pc EXCEPT ![w] = l] : l \in {"op", "ended"}}

(* Wrong: the value is handled whatever Get has returned. *)
OpFailsAnyway(w) == pc' \in {[pc EXCEPT ![w] = l] : l \in {"op", "lock"}}

(* backoff.Retry tries again, or Get returns the error once the retries    *)
(* have taken a minute; a context that is done is one more error to it.    *)
OpFails(w) == pc' \in {[pc EXCEPT ![w] = l] : l \in {"op", "loop"}}

Op(w) == /\ pc[w] = "op"
         /\ \/ ~cancelled /\ Goto(w, "waiting")
            \/ cancelled /\ OpFails(w)
         /\ UNCHANGED <<value, lastETag, data, m, cancelled, handled, failures>>

Transient == failures < MaxFailures /\ failures' = failures + 1

(* The tag is stored before the body is read. *)
Answer(w) ==
  /\ pc[w] = "waiting"
  /\ value[w] # 0
  /\ lastETag' = [lastETag EXCEPT ![w] = value[w]]
  /\ data' = [data EXCEPT ![w] = value[w]]
  /\ Goto(w, "body")
  /\ UNCHANGED <<value, m, cancelled, handled, failures>>

(* No answer, or another status than 200. *)
NoAnswer(w) ==
  /\ pc[w] = "waiting"
  /\ \/ (cancelled \/ value[w] = 0) /\ UNCHANGED failures
     \/ Transient
  /\ OpFails(w)
  /\ UNCHANGED <<value, lastETag, data, m, cancelled, handled>>

(* io.ReadAll *)
ReadBody(w) ==
  /\ pc[w] = "body"
  /\ \/ Goto(w, "lock") /\ UNCHANGED <<data, failures>>
     \/ /\ (cancelled /\ UNCHANGED failures) \/ Transient
        /\ OpFails(w)
        /\ data' = [data EXCEPT ![w] = 0]
  /\ UNCHANGED <<value, lastETag, m, cancelled, handled>>

-----------------------------------------------------------------------------
(* syncCall *)

(* Wrong: no mutex. *)
LockAnyway(w) == /\ pc[w] = "lock"
                 /\ m' = m \cup {w}
                 /\ Goto(w, "handle")
                 /\ UNCHANGED <<value, lastETag, data, cancelled, handled, failures>>

(* Wrong: the value is dropped when another handler is at work. *)
LockOrSkip(w) == /\ pc[w] = "lock"
                 /\ m' = IF m = {} THEN {w} ELSE m
                 /\ Goto(w, IF m = {} THEN "handle" ELSE "loop")
                 /\ UNCHANGED <<value, lastETag, data, cancelled, handled, failures>>

Lock(w) == /\ pc[w] = "lock"
           /\ m = {}
           /\ m' = {w}
           /\ Goto(w, "handle")
           /\ UNCHANGED <<value, lastETag, data, cancelled, handled, failures>>

Unlock(w) == m' = m \ {w} /\ Goto(w, "loop")

(* Each handler looks at its context first. *)
Handle(w) == /\ pc[w] = "handle"
             /\ \/ /\ ~cancelled
                   /\ handled' = [handled EXCEPT ![w] = data[w]]
                   /\ Goto(w, "handling")
                   /\ UNCHANGED m
                \/ /\ cancelled
                   /\ Unlock(w)
                   /\ UNCHANGED handled
             /\ UNCHANGED <<value, lastETag, data, cancelled, failures>>

HandleReturns(w) == /\ pc[w] = "handling"
                    /\ Unlock(w)
                    /\ UNCHANGED <<value, lastETag, data, cancelled, handled, failures>>

-----------------------------------------------------------------------------
(* The metadata server *)
Change(w) == /\ value[w] < MaxVersion
             /\ value' = [value EXCEPT ![w] = @ + 1]
             /\ UNCHANGED <<pc, lastETag, data, m, cancelled, handled, failures>>

(* What a goroutine does next, but for its turn at the mutex. *)
Watch(w) == \/ Loop(w) \/ Op(w) \/ Answer(w) \/ NoAnswer(w) \/ ReadBody(w)
            \/ Handle(w) \/ HandleReturns(w)

WatcherInit == /\ value = [w \in Watches |-> 0]
               /\ pc = [w \in Watches |-> "none"]
               /\ lastETag = [w \in Watches |-> 0]
               /\ data = [w \in Watches |-> 0]
               /\ m = {}
               /\ cancelled = FALSE
               /\ handled = [w \in Watches |-> 0]
               /\ failures = 0

(* AddWatch, for every value *)
AddWatches == /\ pc' = [w \in Watches |-> "loop"]
              /\ UNCHANGED <<value, lastETag, data, m, cancelled, handled, failures>>

(* The process is gone, and its goroutines with it. *)
Die == /\ pc' = [w \in Watches |-> "none"]
       /\ m' = {}
       /\ UNCHANGED <<value, lastETag, data, cancelled, handled, failures>>

Cancel == /\ cancelled' = TRUE
          /\ UNCHANGED <<value, pc, lastETag, data, m, handled, failures>>

-----------------------------------------------------------------------------
Versions == 0..MaxVersion

WatcherTypeOK ==
  /\ value \in [Watches -> Versions]
  /\ pc \in [Watches -> {"none", "loop", "op", "waiting", "body", "lock", "handle",
                         "handling", "ended"}]
  /\ lastETag \in [Watches -> Versions]
  /\ data \in [Watches -> Versions]
  /\ m \in {{}} \cup {{w} : w \in Watches}
  /\ cancelled \in BOOLEAN
  /\ handled \in [Watches -> Versions]
  /\ failures \in 0..MaxFailures

(* The handlers are called one at a time (syncCall): they share the serial *)
(* port, the accounts and the working files, and have no locks themselves. *)
OneAtATime == \A v, w \in Watches :
  pc[v] \in {"handle", "handling"} /\ pc[w] \in {"handle", "handling"} => v = w

(* A goroutine that waits for the next change knows of no change that its  *)
(* handler has not been handed, unless a body was lost after its tag was   *)
(* stored: no wake-up is missed.                                           *)
QuietIsHandled == \A w \in Watches :
  (pc[w] = "waiting" /\ lastETag[w] = value[w] /\ failures = 0 /\ ~cancelled)
    => handled[w] = value[w]

(* Handlers see the versions in order, and nothing after the context is    *)
(* done, whatever is retried, lost or waited for.                          *)
Promise == INSTANCE Delivery WITH stopped <- cancelled
DeliverySpec == Promise!Spec
=============================================================================
