---------------------------- MODULE UserHandler -----------------------------
(***************************************************************************)
(* The users handler of the agent, */internal/handlers/users: a request in *)
(* the instance's metadata asks for a new password of a local user; the    *)
(* agent polls the value, executes a request that differs from the last    *)
(* one it recorded, and writes the encrypted password to the serial port.  *)
(* The linux and the windows agent differ in how the record is kept and in *)
(* the order of the account's changes; platform chooses between them.      *)
(*                                                                         *)
(* The poller hands the current value over again when its long poll times  *)
(* out and after each restart, so every execution begins with a delivery   *)
(* that may be a repeated one.  Calls of the operating system are steps of *)
(* their own: the agent may die, and time pass, between any two.           *)
(***************************************************************************)
EXTENDS Integers, Sequences

CONSTANTS Requests,    \* the payloads that may be posted
          UserOf,      \* the user a request names
          Expires,     \* the request's field of that name
          Garbled,     \* those that are not valid requests
          Timeframe,   \* requestTimeframe
          MaxTime, MaxPosts, MaxExecs, MaxCrashes,   \* bounds of the model
          MayFail,     \* may calls of the operating system fail?
          MayMisread   \* may the record fail to open, on linux?

ASSUME UserHandlerAssumption ==
  /\ Expires \in [Requests -> Int]
  /\ Garbled \subseteq Requests
  /\ {Timeframe, MaxTime, MaxPosts, MaxExecs, MaxCrashes} \subseteq Nat
  /\ MayFail \in BOOLEAN
  /\ MayMisread \in BOOLEAN

VARIABLES platform,  \* "linux" or "windows", for good
          posts,     \* what was posted so far; the last one is the value
          now,
          hpc,       \* the step the handler is about to take
          cur,       \* the post it has in hand, 0 if none
          stored,    \* the recorded hash: {} or that of one request
          execs,     \* the posts executed, in order; a password is known
                     \* by the execution that generated it
          makers,    \* the executions that created an account
          accounts, admins,
          pwd,       \* the user's password, 0 if the agent has set none
          answers,   \* the responses on the serial port
          crashes

recordVars  == <<posts, now, stored, crashes>>
accountVars == <<accounts, admins, pwd>>
vars == <<platform, posts, now, hpc, cur, stored, execs, makers, accounts, admins, pwd,
          answers, crashes>>

Users == {UserOf[r] : r \in Requests}

Request == posts[cur]
User    == UserOf[Request]
This    == Len(execs)      \* the execution under way

Goto(label) == hpc' = label

OnLinux   == platform = "linux"
OnWindows == platform = "windows"

-----------------------------------------------------------------------------
(* The poller's answer *)
Get == /\ hpc = "poll"
       /\ posts # <<>>
       /\ cur' = Len(posts)
       /\ Goto("received")
       /\ UNCHANGED <<recordVars, execs, makers, accountVars, answers>>

(* Wrong: the post stays in hand. *)
DropKeeps == Goto("poll") /\ UNCHANGED cur

(* Back to the poller without a response. *)
Drop == Goto("poll") /\ cur' = 0

Fail == Goto("fail") /\ UNCHANGED cur

Proceed(label) == Goto(label) /\ UNCHANGED cur

-----------------------------------------------------------------------------
(* processRequest *)

(* Wrong: an empty record is taken for that of any request. *)
RepeatedOrNone == stored \subseteq {Request}

(* ValidateRequestHash: only the last request that was recorded counts.  A *)
(* record that cannot be opened is taken for a missing one on linux.       *)
Repeated == stored = {Request}
Passes   == ~Repeated \/ (OnLinux /\ MayMisread)

CheckHash ==
  /\ hpc = "received"
  /\ \/ Repeated /\ Request \notin Garbled /\ Drop
     \/ Passes /\ Request \notin Garbled /\ Proceed("store")
     \/ (MayFail \/ Request \in Garbled) /\ Fail
     \/ MayFail /\ Drop
  /\ UNCHANGED <<recordVars, execs, makers, accountVars, answers>>

(* os.WriteFile truncates the file, then writes it; a part of a hash is as *)
(* good as none.                                                           *)
TruncateHash == /\ OnLinux
                /\ hpc = "store"
                /\ \/ stored' = {} /\ Proceed("storing")
                   \/ MayFail /\ Fail /\ UNCHANGED stored
                /\ UNCHANGED <<posts, now, crashes, execs, makers, accountVars, answers>>

(* Wrong: the file stays empty. *)
WriteHashNever == /\ hpc = "storing"
                  /\ Proceed("expires")
                  /\ UNCHANGED <<recordVars, execs, makers, accountVars, answers>>

WriteHash == /\ hpc = "storing"
             /\ \/ stored' = {Request} /\ Proceed("expires")
                \/ MayFail /\ stored' \in {{}, {Request}} /\ Fail
             /\ UNCHANGED <<posts, now, crashes, execs, makers, accountVars, answers>>

(* The registry takes the value as a whole; closing the key may fail too. *)
WriteStringProperty ==
  /\ OnWindows
  /\ hpc = "store"
  /\ \/ stored' = {Request} /\ Proceed("expires")
     \/ MayFail /\ stored' \in {stored, {Request}} /\ Fail
  /\ UNCHANGED <<posts, now, crashes, execs, makers, accountVars, answers>>

ValidTimestamp(r) == /\ now - Expires[r] <= Timeframe
                     /\ Expires[r] - now <= Timeframe

CheckTimestamp == /\ hpc = "expires"
                  /\ \/ ValidTimestamp(Request) /\ Proceed("generate")
                     \/ ~ValidTimestamp(Request) /\ Fail
                  /\ UNCHANGED <<recordVars, execs, makers, accountVars, answers>>

-----------------------------------------------------------------------------
(* changeOrCreateUser *)

Generate == /\ hpc = "generate"
            /\ \/ /\ Len(execs) < MaxExecs
                  /\ execs' = Append(execs, cur)
                  /\ Proceed("lookup")
               \/ MayFail /\ Fail /\ UNCHANGED execs
            /\ UNCHANGED <<recordVars, makers, accountVars, answers>>

(* A lookup that fails is one that found nobody. *)
LookupLinux == /\ OnLinux
               /\ hpc = "lookup"
               /\ \/ User \in accounts /\ Proceed("set")
                  \/ (User \notin accounts \/ MayFail) /\ Proceed("create")
               /\ UNCHANGED <<recordVars, execs, makers, accountVars, answers>>

(* NetUserGetInfo tells a missing user from an error. *)
LocalUserExist == User \in accounts

LookupWindows == /\ OnWindows
                 /\ hpc = "lookup"
                 /\ \/ LocalUserExist /\ Proceed("set")
                    \/ ~LocalUserExist /\ Proceed("create")
                    \/ MayFail /\ Fail
                 /\ UNCHANGED <<recordVars, execs, makers, accountVars, answers>>

(* After a change: the next step; or an error, which on linux may be the   *)
(* time limit of a command that has done its work.                         *)
Changed(label) == \/ Proceed(label)
                  \/ MayFail /\ OnLinux /\ Fail

NotChanged == MayFail /\ Fail /\ UNCHANGED accountVars

(* NetUserSetInfo, or usermod. *)
PasswordSet == pwd' = [pwd EXCEPT ![User] = This]

(* Wrong: the error is logged and not returned. *)
SetPasswordAnyway ==
  /\ hpc \in {"set", "setNew"}
  /\ Proceed(IF hpc = "set" THEN "succeed" ELSE "admin")
  /\ \/ PasswordSet
     \/ MayFail /\ UNCHANGED pwd
  /\ UNCHANGED <<recordVars, execs, makers, accounts, admins, answers>>

(* SetPassword, of a user who existed or, on linux, of a new one. *)
SetPassword ==
  /\ hpc \in {"set", "setNew"}
  /\ \/ /\ PasswordSet
        /\ Changed(IF hpc = "set" THEN "succeed" ELSE "admin")
        /\ UNCHANGED <<accounts, admins>>
     \/ NotChanged
  /\ UNCHANGED <<recordVars, execs, makers, answers>>

(* useradd: an account without a password. *)
CreateUserLinux ==
  /\ OnLinux
  /\ hpc = "create"
  /\ \/ /\ User \notin accounts
        /\ accounts' = accounts \cup {User}
        /\ makers' = makers \cup {This}
        /\ Changed("setNew")
        /\ UNCHANGED <<admins, pwd>>
     \/ User \in accounts /\ Fail /\ UNCHANGED <<accountVars, makers>>
     \/ NotChanged /\ UNCHANGED makers
  /\ UNCHANGED <<recordVars, execs, answers>>

(* NetUserAdd: the account with its password. *)
LocalUserCreate == /\ User \notin accounts
                   /\ accounts' = accounts \cup {User}
                   /\ PasswordSet
                   /\ UNCHANGED admins

CreateUserWindows ==
  /\ OnWindows
  /\ hpc = "create"
  /\ \/ /\ LocalUserCreate
        /\ makers' = makers \cup {This}
        /\ Proceed("admin")
     \/ NotChanged /\ UNCHANGED makers
  /\ UNCHANGED <<recordVars, execs, answers>>

(* NetLocalGroupAddMembers, or usermod. *)
MadeAdministrator == admins' = admins \cup {User}

AddToAdministrators ==
  /\ hpc = "admin"
  /\ \/ /\ MadeAdministrator
        /\ Changed("succeed")
        /\ UNCHANGED <<accounts, pwd>>
     \/ NotChanged
  /\ UNCHANGED <<recordVars, execs, makers, answers>>

-----------------------------------------------------------------------------
(* The response; exec is 0 in that of an error.  It is lost if the serial  *)
(* port fails or the message has no envelope.                              *)
Response == [post : 1..MaxPosts, exec : 0..MaxExecs]

Respond == /\ hpc \in {"succeed", "fail"}
           /\ \/ answers' = answers \cup
                   {[post |-> cur, exec |-> IF hpc = "succeed" THEN This ELSE 0]}
              \/ MayFail /\ UNCHANGED answers
           /\ Drop
           /\ UNCHANGED <<recordVars, execs, makers, accountVars>>

-----------------------------------------------------------------------------
(* The environment *)

Post(r) == /\ Len(posts) < MaxPosts
           /\ posts # <<>> => posts[Len(posts)] # r
           /\ posts' = Append(posts, r)
           /\ UNCHANGED <<now, hpc, cur, stored, execs, makers, accountVars, answers, crashes>>

Tick == /\ now < MaxTime
        /\ now' = now + 1
        /\ UNCHANGED <<posts, hpc, cur, stored, execs, makers, accountVars, answers, crashes>>

(* The agent dies; the service manager starts it again. *)
Crash == /\ hpc # "poll"
         /\ crashes < MaxCrashes
         /\ crashes' = crashes + 1
         /\ Drop
         /\ UNCHANGED <<posts, now, stored, execs, makers, accountVars, answers>>

-----------------------------------------------------------------------------
Init == /\ platform \in {"linux", "windows"}
        /\ posts = <<>>
        /\ now = 0
        /\ hpc = "poll"
        /\ cur = 0
        /\ stored = {}
        /\ execs = <<>>
        /\ makers = {}
        /\ accounts \in SUBSET Users
        /\ admins = {}
        /\ pwd = [u \in Users |-> 0]
        /\ answers = {}
        /\ crashes = 0

Handler == /\ \/ Get \/ CheckHash
              \/ TruncateHash \/ WriteHash \/ WriteStringProperty
              \/ CheckTimestamp \/ Generate
              \/ LookupLinux \/ LookupWindows \/ SetPassword
              \/ CreateUserLinux \/ CreateUserWindows \/ AddToAdministrators
              \/ Respond
           /\ UNCHANGED platform

Environment == /\ (\E r \in Requests : Post(r)) \/ Tick \/ Crash
               /\ UNCHANGED platform

Next == Handler \/ Environment

(* The watcher's loop runs as long as the agent does, and crashes end. *)
Spec == Init /\ [][Next]_vars /\ WF_vars(Handler)

-----------------------------------------------------------------------------
TypeOK ==
  /\ platform \in {"linux", "windows"}
  /\ posts \in Seq(Requests) /\ Len(posts) <= MaxPosts
  /\ now \in 0..MaxTime
  /\ hpc \in {"poll", "received", "store", "storing", "expires", "generate", "lookup",
              "set", "create", "setNew", "admin", "succeed", "fail"}
  /\ cur \in 0..Len(posts)
  /\ (hpc = "poll") <=> (cur = 0)
  /\ stored \in {{}} \cup {{r} : r \in Requests}
  /\ execs \in Seq(1..Len(posts)) /\ Len(execs) <= MaxExecs
  /\ makers \subseteq 1..Len(execs)
  /\ accounts \subseteq Users
  /\ admins \subseteq accounts
  /\ pwd \in [Users -> 0..Len(execs)]
  /\ answers \subseteq Response
  /\ crashes \in 0..MaxCrashes

ExecUser(k) == UserOf[posts[execs[k]]]

Successes == {a \in answers : a.exec # 0}

(* A response with a password stays true: the account exists, it is an     *)
(* administrator's if that execution created it, and the password is the   *)
(* user's until a later execution for the same user, across failures and   *)
(* restarts.                                                               *)
AnswersTrue ==
  \A a \in Successes :
    LET u == ExecUser(a.exec) IN
      /\ u \in accounts
      /\ a.exec \in makers => u \in admins
      /\ \/ pwd[u] = a.exec
         \/ \E k \in (a.exec + 1)..Len(execs) : ExecUser(k) = u

(* Posts are executed at most once, in order, and told as AtMostOnce says. *)
Promise == INSTANCE AtMostOnce WITH
             posted <- Len(posts),
             done   <- execs,
             told   <- {a.post : a \in Successes}
PromiseSpec == Promise!Spec

(* A call of the operating system has failed, or the response was lost. *)
Fault == \/ hpc = "received" /\ hpc' = "poll" /\ (Request \in Garbled \/ ~Repeated)
         \/ hpc = "received" /\ hpc' = "fail" /\ Request \notin Garbled
         \/ hpc \notin {"received", "expires", "fail"} /\ hpc' = "fail"
         \/ hpc \in {"succeed", "fail"} /\ hpc' = "poll" /\ answers' = answers

(* If failures end, a post is answered, or recorded as dealt with, unless  *)
(* another replaces it; however often the agent was restarted before.      *)
Answered(i) == \E a \in answers : a.post = i
PostTakenUp ==
  <>[][~Fault]_vars =>
    \A i \in 1..MaxPosts :
      Len(posts) = i ~> Len(posts) # i \/ Answered(i) \/ stored = {posts[i]}
=============================================================================
