------------------------------ MODULE SshKeys -------------------------------
(***************************************************************************)
(* The ssh keys handler of the linux agent, handlers/sshkeys, with the     *)
(* user manager's AddSshKey: the value of the instance's metadata is a     *)
(* list of users and keys; each key is added to its user's authorized_keys *)
(* and the outcome is written to the serial port.  The hash of the value   *)
(* that was answered last is kept in memory only.                          *)
(*                                                                         *)
(* Calls of the operating system are steps of their own, but for the       *)
(* opening, reading and closing of a file, which are one.  The agent may   *)
(* die between any two, and other programs make and edit the files         *)
(* meanwhile.  A file is the set of its whole lines: pieces of lines are   *)
(* no keys.                                                                *)
(***************************************************************************)
EXTENDS Integers, Sequences

CONSTANTS Values,      \* the values the metadata may have
          Entries,     \* the users and keys of each, in order
          Malformed,   \* those that do not parse
          BadNames,    \* names that no account may have
          Restricted,  \* users of the system
          OwnKeys,     \* lines that other programs write
          MaxPosts, MaxCrashes, MaxEdits,   \* bounds of the model
          MayFail,     \* may calls of the operating system fail?
          MayMisread   \* may the scanner stop before the end of the file?

Pairs == UNION {{Entries[v][i] : i \in 1..Len(Entries[v])} : v \in Values}
Users == {p[1] : p \in Pairs}
Lines == {p[2] : p \in Pairs} \cup OwnKeys

ASSUME SshKeysAssumption ==
  /\ \A v \in Values : Entries[v] \in Seq(Users \X Lines)
  /\ Malformed \subseteq Values
  /\ {MaxPosts, MaxCrashes, MaxEdits} \subseteq Nat
  /\ MayFail \in BOOLEAN
  /\ MayMisread \in BOOLEAN

VARIABLES posts,     \* the values posted so far; the last one is current
          hpc,       \* the step the handler is about to take
          cur,       \* the post it has in hand, 0 if none
          i,         \* the entry it is at
          seen,      \* what it has read of that user's authorized_keys, if it
                     \* is to write it
          moved,     \* has another program edited that file since it was last
                     \* looked at?
          last,      \* lastProcessedSha: {} or the value it is of
          accounts,
          dir, file, \* owner of .ssh and of authorized_keys, "none" without
          keys,      \* the lines of authorized_keys
          answers,   \* the responses on the serial port
          gone,      \* lines that an edit took, or that were lost because an
                     \* edit came between a look at the file and the change
          cut,       \* lines that were lost because the scan ended before them
          edits, crashes

processVars == <<posts, cur, last, answers, crashes>>
sightVars   == <<seen, moved>>
fileVars    == <<keys, gone, cut, edits>>
homeVars    == <<accounts, dir, file, fileVars>>
vars == <<posts, hpc, cur, i, seen, moved, last, accounts, dir, file, keys, answers,
          gone, cut, edits, crashes>>

Value == posts[cur]

(* Wrong: the loop keeps its first user. *)
UserOfFirst == Entries[Value][1][1]

User  == Entries[Value][i][1]
Key   == Entries[Value][i][2]

Goto(label) == hpc' = label /\ UNCHANGED processVars
Fail        == Goto("fail")

Forget == seen' = {} /\ moved' = FALSE

AtNext(n) == IF n <= Len(Entries[Value]) THEN "validate" ELSE "succeed"

-----------------------------------------------------------------------------
(* Handle, processRequest *)
Get == /\ hpc = "poll"
       /\ posts # <<>>
       /\ cur' = Len(posts)
       /\ hpc' = "received"
       /\ UNCHANGED <<posts, i, sightVars, last, answers, crashes, homeVars>>

(* Wrong: the post stays in hand. *)
ReturnKeeps == hpc' = "poll" /\ i' = 1 /\ Forget /\ UNCHANGED cur

(* Handle returns, or its process ends. *)
Return == hpc' = "poll" /\ cur' = 0 /\ i' = 1 /\ Forget

Skip == /\ last = {Value}
        /\ Return
        /\ UNCHANGED <<posts, last, answers, crashes>>

(* Wrong: no response to what does not parse. *)
ParseSilently ==
  /\ hpc = "received"
  /\ \/ Skip
     \/ /\ last # {Value} /\ Value \in Malformed
        /\ Return
        /\ UNCHANGED <<posts, last, answers, crashes>>
     \/ /\ last # {Value} /\ Value \notin Malformed
        /\ Goto(AtNext(1))
        /\ UNCHANGED <<i, sightVars>>
  /\ UNCHANGED homeVars

(* The handler's context ends only when the agent does. *)
Parse ==
  /\ hpc = "received"
  /\ \/ Skip
     \/ /\ last # {Value}
        /\ \/ (Value \in Malformed \/ MayFail) /\ Fail
           \/ Value \notin Malformed /\ Goto(AtNext(1))
        /\ UNCHANGED <<i, sightVars>>
  /\ UNCHANGED homeVars

(* A lookup that fails is taken for that of a new user. *)
ValidateUser ==
  /\ hpc = "validate"
  /\ \/ User \in BadNames \cup Restricted /\ Fail
     \/ /\ User \notin BadNames
        /\ User \notin Restricted \/ MayFail
        /\ Goto("exist")
  /\ UNCHANGED <<i, sightVars, homeVars>>

Exist ==
  /\ hpc = "exist"
  /\ \/ User \in accounts /\ Goto("lookup")
     \/ (User \notin accounts \/ MayFail) /\ Goto("create")
  /\ UNCHANGED <<i, sightVars, homeVars>>

(* A command that is killed by its time limit may have done its work. *)
CreateUser ==
  /\ hpc = "create"
  /\ \/ /\ User \notin accounts
        /\ accounts' = accounts \cup {User}
        /\ Goto("lookup") \/ (MayFail /\ Fail)
     \/ (User \in accounts \/ MayFail) /\ Fail /\ UNCHANGED accounts
  /\ UNCHANGED <<i, sightVars, dir, file, fileVars>>

(* A nil pointer ends the process: the error of a lookup, or of a Stat, is *)
(* not looked at.                                                          *)
Panic == /\ MayFail
         /\ Return
         /\ last' = {}
         /\ UNCHANGED <<posts, answers, crashes, homeVars>>

LookupUser ==
  /\ hpc = "lookup"
  /\ \/ /\ User \in accounts
        /\ Goto("dir")
        /\ UNCHANGED <<i, sightVars, homeVars>>
     \/ Panic

-----------------------------------------------------------------------------
(* AddSshKey *)

StatSshFolder ==
  /\ hpc = "dir"
  /\ \/ /\ \/ dir[User] = "none" /\ Goto("mkdir")
           \/ dir[User] # "none" /\ (Goto("file") \/ (MayFail /\ Fail))
        /\ UNCHANGED <<i, sightVars, homeVars>>
     \/ Panic

MakeSshFolder ==
  /\ hpc = "mkdir"
  /\ \/ /\ dir[User] = "none"
        /\ dir' = [dir EXCEPT ![User] = "root"]
        /\ Goto("file")
     \/ (dir[User] # "none" \/ MayFail) /\ Fail /\ UNCHANGED dir
  /\ UNCHANGED <<i, sightVars, accounts, file, fileVars>>

(* Any error but that of a missing file is let pass. *)
StatKeysFile ==
  /\ hpc = "file"
  /\ \/ file[User] = "none" /\ Goto("createFile")
     \/ (file[User] # "none" \/ MayFail) /\ Goto("read")
  /\ UNCHANGED <<i, sightVars, homeVars>>

(* The lines of User's file become those of new. *)
Rewrite(new) ==
  LET lost == {User} \X (keys[User] \ new) IN
  /\ keys' = [keys EXCEPT ![User] = new]
  /\ gone' = (IF moved THEN gone \cup lost ELSE gone) \ ({User} \X new)
  /\ cut'  = (IF moved THEN cut ELSE cut \cup lost) \ ({User} \X new)

(* A file that is there by now is emptied, and keeps its owner. *)
CreateKeysFile ==
  /\ hpc = "createFile"
  /\ \/ /\ file' = [file EXCEPT ![User] = IF @ = "none" THEN "root" ELSE @]
        /\ Rewrite({})
        /\ Goto("read")
     \/ MayFail /\ Fail /\ UNCHANGED <<file, keys, gone, cut>>
  /\ Forget
  /\ UNCHANGED <<i, accounts, dir, edits>>

(* An error of the scanner, and a line too long for it, end the loop like  *)
(* the end of the file.                                                    *)
ReadKeys ==
  /\ hpc = "read"
  /\ \/ /\ file[User] # "none"
        /\ \E lines \in SUBSET keys[User] :
             /\ lines = keys[User] \/ MayMisread
             /\ \/ Key \in lines /\ Goto("chownDir") /\ UNCHANGED seen
                \/ Key \notin lines /\ Goto("open") /\ seen' = lines
     \/ (file[User] = "none" \/ MayFail) /\ Fail /\ UNCHANGED seen
  /\ UNCHANGED <<i, moved, homeVars>>

(* Wrong: the file is truncated. *)
OpenTruncates ==
  /\ hpc = "open"
  /\ Rewrite({})
  /\ Goto("write")
  /\ UNCHANGED <<i, sightVars, accounts, dir, file, edits>>

OpenKeys ==
  /\ hpc = "open"
  /\ \/ Goto("write") /\ UNCHANGED sightVars
     \/ MayFail /\ Fail /\ Forget
  /\ UNCHANGED <<i, homeVars>>

(* What was read and the new key, written over the file from its start: a  *)
(* part of what the file holds beyond that stays.  A write that fails may  *)
(* have written a part; what that writes over the lines that were read is  *)
(* those lines, unless the file has changed.                               *)
WriteKeys ==
  /\ hpc = "write"
  /\ \/ /\ \E rest \in SUBSET (keys[User] \ seen) : Rewrite(seen \cup {Key} \cup rest)
        /\ Goto("chownDir")
     \/ /\ MayFail
        /\ \E some \in SUBSET (keys[User] \cup seen \cup {Key}) :
             /\ moved \/ keys[User] \cap seen \subseteq some
             /\ Rewrite(some)
        /\ Fail
  /\ Forget
  /\ UNCHANGED <<i, accounts, dir, file, edits>>

ChownDir ==
  /\ hpc = "chownDir"
  /\ \/ dir' = [dir EXCEPT ![User] = "user"] /\ Goto("chownFile")
     \/ MayFail /\ Fail /\ UNCHANGED dir
  /\ UNCHANGED <<i, sightVars, accounts, file, fileVars>>

(* Wrong: the file stays root's. *)
ChownFileNever ==
  /\ hpc = "chownFile"
  /\ i' = i + 1
  /\ Goto(AtNext(i + 1))
  /\ UNCHANGED <<sightVars, homeVars>>

ChownFile ==
  /\ hpc = "chownFile"
  /\ \/ /\ file' = [file EXCEPT ![User] = "user"]
        /\ i' = i + 1
        /\ Goto(AtNext(i + 1))
     \/ MayFail /\ Fail /\ UNCHANGED <<i, file>>
  /\ UNCHANGED <<sightVars, accounts, dir, fileVars>>

-----------------------------------------------------------------------------
(* The outcome; it is lost, and the value not remembered, if the serial    *)
(* port fails.                                                             *)
Response == [post : 1..MaxPosts, ok : BOOLEAN]

(* Wrong: the value is remembered, written or not. *)
RespondRemembers ==
  /\ hpc \in {"succeed", "fail"}
  /\ Return
  /\ last' = {Value}
  /\ \/ answers' = answers \cup {[post |-> cur, ok |-> hpc = "succeed"]}
     \/ MayFail /\ UNCHANGED answers
  /\ UNCHANGED <<posts, crashes, homeVars>>

Respond ==
  /\ hpc \in {"succeed", "fail"}
  /\ Return
  /\ \/ /\ answers' = answers \cup {[post |-> cur, ok |-> hpc = "succeed"]}
        /\ last' = {Value}
     \/ MayFail /\ UNCHANGED <<answers, last>>
  /\ UNCHANGED <<posts, crashes, homeVars>>

-----------------------------------------------------------------------------
(* The environment *)
Post(v) == /\ Len(posts) < MaxPosts
           /\ posts # <<>> => posts[Len(posts)] # v
           /\ posts' = Append(posts, v)
           /\ UNCHANGED <<hpc, cur, i, sightVars, last, answers, crashes, homeVars>>

(* Another program adds a line to a user's file, which it makes if it is   *)
(* missing, or takes one from it.                                          *)
Edit(u) ==
  /\ u \in accounts
  /\ edits < MaxEdits
  /\ edits' = edits + 1
  /\ \/ \E k \in OwnKeys :
          /\ keys' = [keys EXCEPT ![u] = @ \cup {k}]
          /\ dir'  = [dir  EXCEPT ![u] = IF @ = "none" THEN "user" ELSE @]
          /\ file' = [file EXCEPT ![u] = IF @ = "none" THEN "user" ELSE @]
          /\ gone' = gone \ {<<u, k>>}
          /\ cut'  = cut \ {<<u, k>>}
     \/ \E k \in keys[u] :
          /\ keys' = [keys EXCEPT ![u] = @ \ {k}]
          /\ gone' = gone \cup {<<u, k>>}
          /\ UNCHANGED <<dir, file, cut>>
  /\ moved' = (moved \/ (hpc \in {"createFile", "open", "write"} /\ u = User))
  /\ UNCHANGED <<processVars, hpc, i, seen, accounts>>

(* The agent dies; systemd starts it again. *)
Crash == /\ hpc # "poll"
         /\ crashes < MaxCrashes
         /\ crashes' = crashes + 1
         /\ Return
         /\ last' = {}
         /\ UNCHANGED <<posts, answers, homeVars>>

-----------------------------------------------------------------------------
(* Accounts that exist may have a file of their own. *)
Init == /\ posts = <<>>
        /\ hpc = "poll"
        /\ cur = 0
        /\ i = 1
        /\ seen = {}
        /\ moved = FALSE
        /\ last = {}
        /\ accounts \in SUBSET (Users \ BadNames)
        /\ Users \cap Restricted \subseteq accounts
        /\ file \in [Users -> {"none", "user"}]
        /\ \A u \in Users : file[u] = "user" => u \in accounts
        /\ dir = file
        /\ keys = [u \in Users |-> IF file[u] = "user" THEN OwnKeys ELSE {}]
        /\ answers = {}
        /\ gone = {}
        /\ cut = {}
        /\ edits = 0
        /\ crashes = 0

Handler == \/ Get \/ Parse \/ ValidateUser \/ Exist \/ CreateUser \/ LookupUser
           \/ StatSshFolder \/ MakeSshFolder \/ StatKeysFile \/ CreateKeysFile
           \/ ReadKeys \/ OpenKeys \/ WriteKeys \/ ChownDir \/ ChownFile
           \/ Respond

Environment == \/ \E v \in Values : Post(v)
               \/ \E u \in Users : Edit(u)
               \/ Crash

Next == Handler \/ Environment

(* The watcher's loop runs as long as the agent does. *)
Spec == Init /\ [][Next]_vars /\ WF_vars(Handler)

-----------------------------------------------------------------------------
Owners == {"none", "root", "user"}

TypeOK ==
  /\ posts \in Seq(Values) /\ Len(posts) <= MaxPosts
  /\ hpc \in {"poll", "received", "validate", "exist", "create", "lookup", "dir", "mkdir",
              "file", "createFile", "read", "open", "write", "chownDir", "chownFile",
              "succeed", "fail"}
  /\ cur \in 0..Len(posts)
  /\ (hpc = "poll") <=> (cur = 0)
  /\ i \in Nat \ {0} /\ (hpc \in {"poll", "received"} => i = 1)
  /\ hpc \notin {"poll", "received", "succeed", "fail"} => i <= Len(Entries[Value])
  /\ seen \subseteq Lines /\ (hpc \notin {"open", "write"} => seen = {})
  /\ moved \in BOOLEAN /\ (hpc \notin {"createFile", "open", "write"} => ~moved)
  /\ last \in {{}} \cup {{v} : v \in Values}
  /\ accounts \subseteq Users
  /\ dir \in [Users -> Owners]
  /\ file \in [Users -> Owners]
  /\ keys \in [Users -> SUBSET Lines]
  /\ answers \subseteq Response
  /\ gone \subseteq Users \X Lines
  /\ cut \subseteq Users \X Lines
  /\ edits \in 0..MaxEdits
  /\ crashes \in 0..MaxCrashes

(* A line of a file is lost only to another program's edit, when that      *)
(* program edits the file between the handler's look at it and the call    *)
(* that creates or writes it, or when the scan that the write is built on  *)
(* ended before that line.  No failed call, no crash and no work on        *)
(* another entry loses one.                                                *)
NoneLost ==
  \A u \in Users : \A k \in keys[u] \ keys'[u] :
    \/ edits' # edits
    \/ hpc \in {"createFile", "write"} /\ u = User /\ moved
    \/ hpc = "write" /\ u = User /\ k \notin seen

LinesKept == [][NoneLost]_vars

(* A key that was told to be installed is, in a file and a directory that  *)
(* are its user's, across failures and restarts, until another program     *)
(* takes it or edits the file while the handler rewrites it (gone), or the *)
(* handler's own scan of that file ends before it and the write built on   *)
(* that loses it (cut).                                                    *)
Installed(u, k) == /\ k \in keys[u] \/ <<u, k>> \in gone \cup cut
                   /\ u \in accounts
                   /\ dir[u] = "user" /\ file[u] = "user"

Told(a) == {Entries[posts[a.post]][n] : n \in 1..Len(Entries[posts[a.post]])}

SuccessTrue == \A a \in answers : a.ok => \A p \in Told(a) : Installed(p[1], p[2])

(* A file gains only lines of other programs, and keys posted for its user. *)
Asked == UNION {{Entries[posts[n]][m] : m \in 1..Len(Entries[posts[n]])} :
                  n \in 1..Len(posts)}
OnlyAsked == \A u \in Users : {u} \X (keys[u] \ OwnKeys) \subseteq Asked

(* A value that is skipped from now on has been answered. *)
RememberedAnswered == \A v \in last : \E a \in answers : posts[a.post] = v

(* A call has failed, or a response was lost. *)
Fault == \/ hpc = "received" /\ hpc' = "fail" /\ Value \notin Malformed
         \/ hpc \in {"lookup", "dir"} /\ hpc' = "poll"
         \/ hpc \notin {"received", "validate", "fail"} /\ hpc' = "fail"
         \/ hpc \in {"succeed", "fail"} /\ hpc' = "poll" /\ last' # {Value}

(* If failures end, every value that is not replaced is answered, however  *)
(* often the process has panicked or was killed before.                    *)
ValueAnswered ==
  <>[][~Fault]_vars =>
    \A n \in 1..MaxPosts :
      Len(posts) = n ~> Len(posts) # n \/ last = {posts[n]}
=============================================================================
