--------------------------- MODULE SecretsHandler ---------------------------
(***************************************************************************)
(* The three handlers of the linux agent that write secrets to files:      *)
(* handlers/kmssecrets, lockboxsecrets and managedcertificates.  The value *)
(* of the instance's metadata maps files to secrets; each secret is        *)
(* fetched and its file replaced in place, and the outcome is written to   *)
(* the serial port.  The hash of the value that was answered last is kept  *)
(* in memory only.  The handlers differ in what they do with a value that  *)
(* does not parse; kind tells them apart.                                  *)
(*                                                                         *)
(* The agent may die at any step.  The machine may restart with it, and    *)
(* what was written and never synced may be lost.                          *)
(***************************************************************************)
EXTENDS Integers, Sequences

CONSTANTS Values,      \* the values the metadata may have
          Malformed,   \* those that do not parse
          Files,
          Secrets,     \* what is in the files, in whole
          Wanted,      \* of each value: the files it names and their secrets
          MaxPosts, MaxCrashes,   \* bounds of the model
          MayFail      \* may calls fail?

Named(v) == DOMAIN Wanted[v]

ASSUME SecretsAssumption ==
  /\ Malformed \subseteq Values
  /\ \A v \in Values : Named(v) \subseteq Files /\ Wanted[v] \in [Named(v) -> Secrets]
  /\ {MaxPosts, MaxCrashes} \subseteq Nat
  /\ MayFail \in BOOLEAN

None == "none"    \* no such file, no such promise
Torn == "torn"    \* a part of a secret

ASSUME TornIsNoSecret == None \notin Secrets /\ Torn \notin Secrets

VARIABLES kind,      \* the handler
          posts,     \* the values posted so far; the last one is current
          hpc,       \* the step the handler is about to take
          cur,       \* the post it has in hand, 0 if none
          todo,      \* the files its loop has not come to
          at,        \* the file it is at: {} or that one
          last,      \* lastProcessedSha: {} or the value it is of
          disk,      \* what is in the files
          answers,   \* the responses on the serial port
          promised,  \* what the last response that vouched for a file, and was
                     \* not overtaken by a rewrite or a restart, said of it
          crashes

vars == <<kind, posts, hpc, cur, todo, at, last, disk, answers, promised, crashes>>

processVars == <<kind, posts, cur, last, answers, crashes>>

Value == posts[cur]

Goto(label) == hpc' = label /\ UNCHANGED processVars

(* Out of the loop. *)
Leave == todo' = {} /\ at' = {}

Fail == Goto("fail") /\ Leave

-----------------------------------------------------------------------------
(* Handle, process *)
Get == /\ hpc = "poll"
       /\ posts # <<>>
       /\ cur' = Len(posts)
       /\ hpc' = "received"
       /\ UNCHANGED <<kind, posts, todo, at, last, disk, answers, promised, crashes>>

(* Wrong: the post stays in hand. *)
ReturnKeeps == hpc' = "poll" /\ Leave /\ UNCHANGED cur

Return == hpc' = "poll" /\ cur' = 0 /\ Leave

ReturnSilently == Return /\ UNCHANGED <<kind, posts, last, answers, crashes>>

(* The lockbox handler gives no response to what does not parse.  The      *)
(* handler's context ends only when the agent does.                        *)
Parse ==
  /\ hpc = "received"
  /\ \/ last = {Value} /\ ReturnSilently
     \/ last # {Value} /\ Value \in Malformed /\ kind = "lockbox" /\ ReturnSilently
     \/ last # {Value} /\ Value \in Malformed /\ kind # "lockbox" /\ Fail
     \/ /\ last # {Value}
        /\ Value \notin Malformed
        /\ Goto("loop")
        /\ todo' = Named(Value)
        /\ UNCHANGED at
  /\ UNCHANGED <<disk, promised>>

(* The loop takes the files in any order. *)
Fetch ==
  /\ hpc = "loop"
  /\ \/ \E f \in todo : /\ Goto("open")
                        /\ todo' = todo \ {f}
                        /\ at' = {f}
     \/ todo # {} /\ MayFail /\ Fail
     \/ todo = {} /\ Goto("succeed") /\ Leave
  /\ UNCHANGED <<disk, promised>>

-----------------------------------------------------------------------------
(* persistance.WriteFile: the file is truncated, then written; what there  *)
(* was is gone.                                                            *)
OpenFile ==
  /\ hpc = "open"
  /\ \/ /\ disk' = [f \in Files |-> IF f \in at THEN Torn ELSE disk[f]]
        /\ promised' = [f \in Files |-> IF f \in at THEN None ELSE promised[f]]
        /\ Goto("copy")
        /\ UNCHANGED <<todo, at>>
     \/ MayFail /\ Fail /\ UNCHANGED <<disk, promised>>

Written == [f \in Files |-> IF f \in at THEN Wanted[Value][f] ELSE disk[f]]

(* Wrong: the error of the copy is logged and not returned. *)
CopyAnyway ==
  /\ hpc = "copy"
  /\ disk' = Written \/ (MayFail /\ UNCHANGED disk)
  /\ Goto("loop")
  /\ at' = {}
  /\ UNCHANGED <<todo, promised>>

(* Copy and Close. *)
Copy ==
  /\ hpc = "copy"
  /\ \/ disk' = Written /\ Goto("loop") /\ at' = {} /\ UNCHANGED todo
     \/ MayFail /\ Fail /\ (disk' = Written \/ UNCHANGED disk)
  /\ UNCHANGED promised

-----------------------------------------------------------------------------
(* The outcome; it is lost, and the value not remembered, if the serial    *)
(* port fails.                                                             *)
Response == [post : 1..MaxPosts, ok : BOOLEAN]

Promising == [f \in Files |-> IF f \in Named(Value) THEN Wanted[Value][f] ELSE promised[f]]

(* Wrong: the value is remembered, written or not. *)
RespondRemembers ==
  /\ hpc \in {"succeed", "fail"}
  /\ Return
  /\ last' = {Value}
  /\ \/ /\ answers' = answers \cup {[post |-> cur, ok |-> hpc = "succeed"]}
        /\ promised' = IF hpc = "succeed" THEN Promising ELSE promised
     \/ MayFail /\ UNCHANGED <<answers, promised>>
  /\ UNCHANGED <<kind, posts, disk, crashes>>

Respond ==
  /\ hpc \in {"succeed", "fail"}
  /\ Return
  /\ \/ /\ answers' = answers \cup {[post |-> cur, ok |-> hpc = "succeed"]}
        /\ promised' = IF hpc = "succeed" THEN Promising ELSE promised
        /\ last' = {Value}
     \/ MayFail /\ UNCHANGED <<answers, promised, last>>
  /\ UNCHANGED <<kind, posts, disk, crashes>>

-----------------------------------------------------------------------------
(* The environment *)
Post(v) == /\ Len(posts) < MaxPosts
           /\ posts # <<>> => posts[Len(posts)] # v
           /\ posts' = Append(posts, v)
           /\ UNCHANGED <<kind, hpc, cur, todo, at, last, disk, answers, promised, crashes>>

(* The agent dies, or the machine, and some files with it; systemd starts  *)
(* the agent again.                                                        *)
Crash == /\ crashes < MaxCrashes
         /\ crashes' = crashes + 1
         /\ Return
         /\ last' = {}
         /\ \E lost \in SUBSET Files :
              /\ disk' = [f \in Files |-> IF f \in lost /\ disk[f] # None THEN Torn
                                                                         ELSE disk[f]]
              /\ promised' = [f \in Files |-> IF f \in lost THEN None ELSE promised[f]]
         /\ UNCHANGED <<kind, posts, answers>>

-----------------------------------------------------------------------------
Init == /\ kind \in {"kms", "lockbox", "certificates"}
        /\ posts = <<>>
        /\ hpc = "poll"
        /\ cur = 0
        /\ todo = {}
        /\ at = {}
        /\ last = {}
        /\ disk = [f \in Files |-> None]
        /\ answers = {}
        /\ promised = [f \in Files |-> None]
        /\ crashes = 0

Handler == Get \/ Parse \/ Fetch \/ OpenFile \/ Copy \/ Respond

Next == Handler \/ Crash \/ \E v \in Values : Post(v)

(* The watcher's loop runs as long as the agent does. *)
Spec == Init /\ [][Next]_vars /\ WF_vars(Handler)

-----------------------------------------------------------------------------
TypeOK ==
  /\ kind \in {"kms", "lockbox", "certificates"}
  /\ posts \in Seq(Values) /\ Len(posts) <= MaxPosts
  /\ hpc \in {"poll", "received", "loop", "open", "copy", "succeed", "fail"}
  /\ cur \in 0..Len(posts)
  /\ (hpc = "poll") <=> (cur = 0)
  /\ todo \subseteq Files /\ (hpc \notin {"loop", "open", "copy"} => todo = {})
  /\ at \in {{}} \cup {{f} : f \in Files}
  /\ last \in {{}} \cup {{v} : v \in Values}
  /\ disk \in [Files -> Secrets \cup {None, Torn}]
  /\ answers \subseteq Response
  /\ promised \in [Files -> Secrets \cup {None}]
  /\ crashes \in 0..MaxCrashes

(* What a response said of a file holds until the file is written again,   *)
(* or lost in a restart of the machine.                                    *)
PromisesKept == \A f \in Files : promised[f] # None => disk[f] = promised[f]

(* A call has failed, or a response was lost. *)
Fault == \/ hpc \in {"loop", "open", "copy"} /\ hpc' = "fail"
         \/ hpc \in {"succeed", "fail"} /\ hpc' = "poll" /\ last' # {Value}

(* If failures end, a value that is not the one remembered is settled, for *)
(* good, unless it is replaced: its secrets are in the files, however      *)
(* often they were torn, or an error was answered.  The lockbox handler    *)
(* says nothing of what does not parse.                                    *)
ErrorAnswered(v) == \E a \in answers : posts[a.post] = v /\ ~a.ok

InFiles(v) == \A f \in Named(v) : disk[f] = Wanted[v][f]

Settled(v) == \/ last = {v} /\ (InFiles(v) \/ ErrorAnswered(v))
              \/ v \in Malformed /\ kind = "lockbox"

ValueSettled ==
  <>[][~Fault]_vars =>
    \A n \in 1..MaxPosts :
      Len(posts) = n /\ last # {posts[n]} ~> [](Len(posts) # n \/ Settled(posts[n]))

-----------------------------------------------------------------------------
(* "Handle passes KMS encoded secrets mapping on files to 'process'        *)
(* function" (kmssecrets/handler.go:43): a value is passed over only when  *)
(* there is nothing to do for it.                                          *)
SkippedIsInFiles ==
  hpc = "received" /\ last = {Value} => InFiles(Value) \/ ErrorAnswered(Value)
=============================================================================
