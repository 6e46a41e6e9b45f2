------------------------- MODULE UserHandlerProofs --------------------------
(***************************************************************************)
(* What holds of the users handler on both platforms, for every set of     *)
(* requests, any number of posts, executions and restarts, whatever fails: *)
(* the types, and that the passwords it has told are true.  As long as the *)
(* record can be opened, it also executes a post at most once, in order.   *)
(***************************************************************************)
EXTENDS UserHandler, SequenceTheorems, TLAPS

USE DEF PasswordSet, MadeAdministrator

(* An execution is under way, or about to be answered. *)
Working == {"lookup", "set", "create", "setNew", "admin", "succeed"}

(* It is that of the post in hand, and has not been answered. *)
Executing == hpc \in Working =>
               /\ execs # <<>>
               /\ execs[This] = cur
               /\ \A a \in answers : a.exec # This

(* What was told is an execution's, and of its post. *)
Told == \A a \in Successes : a.exec \in 1..Len(execs) /\ a.post = execs[a.exec]

(* What the account looks like at each step of changeOrCreateUser. *)
Account ==
  /\ hpc \in {"lookup", "create", "set"} => This \notin makers
  /\ hpc \in {"set", "setNew", "admin", "succeed"} => User \in accounts
  /\ hpc \in {"admin", "succeed"} => pwd[User] = This
  /\ hpc = "succeed" /\ This \in makers => User \in admins

WInv == TypeOK /\ Executing /\ Told /\ Account

-----------------------------------------------------------------------------
(* Only these two steps change what was posted and what was executed. *)
LEMMA Appended ==
  ASSUME TypeOK, [Next]_vars
  PROVE  \/ posts' = posts /\ execs' = execs
         \/ \E r \in Requests : posts' = Append(posts, r) /\ execs' = execs
         \/ cur # 0 /\ posts' = posts /\ execs' = Append(execs, cur)
<1> USE DEF recordVars, accountVars
<1>1. CASE \E r \in Requests : Post(r)
  BY <1>1 DEF Post
<1>2. CASE Generate
  BY <1>2 DEF Generate, TypeOK
<1>3. CASE Get \/ CheckHash \/ TruncateHash \/ WriteHash \/ WriteStringProperty
  BY <1>3 DEF Get, CheckHash, TruncateHash, WriteHash, WriteStringProperty
<1>4. CASE CheckTimestamp \/ LookupLinux \/ LookupWindows \/ SetPassword
  BY <1>4 DEF CheckTimestamp, LookupLinux, LookupWindows, SetPassword
<1>5. CASE CreateUserLinux \/ CreateUserWindows \/ AddToAdministrators \/ Respond
  BY <1>5 DEF CreateUserLinux, CreateUserWindows, AddToAdministrators, Respond
<1>6. CASE Tick \/ Crash \/ UNCHANGED vars
  BY <1>6 DEF Tick, Crash, vars
<1>7. QED
  BY <1>1, <1>2, <1>3, <1>4, <1>5, <1>6 DEF Next, Handler, Environment

(* What every step keeps: posts and executions are only appended to. *)
LEMMA Prefix ==
  ASSUME TypeOK, [Next]_vars
  PROVE  /\ Len(posts) <= Len(posts') /\ Len(execs) <= Len(execs')
         /\ \A i \in 1..Len(posts) : posts'[i] = posts[i]
         /\ \A k \in 1..Len(execs) : execs'[k] = execs[k]
<1>1. posts \in Seq(Requests) /\ execs \in Seq(1..Len(posts)) /\ cur \in 0..Len(posts)
  BY DEF TypeOK
<1>2. Len(posts) \in Nat /\ Len(execs) \in Nat
  BY <1>1, LenProperties
<1>3. ASSUME NEW r \in Requests, posts' = Append(posts, r), execs' = execs
      PROVE  Len(posts') = Len(posts) + 1 /\ \A i \in 1..Len(posts) : posts'[i] = posts[i]
  BY <1>1, <1>3, AppendProperties
<1>4. ASSUME cur # 0, posts' = posts, execs' = Append(execs, cur)
      PROVE  Len(execs') = Len(execs) + 1 /\ \A k \in 1..Len(execs) : execs'[k] = execs[k]
  <2>1. cur \in 1..Len(posts)
    BY <1>1, <1>2, <1>4
  <2>2. QED
    BY <1>1, <1>4, <2>1, AppendProperties
<1>5. QED
  BY <1>2, <1>3, <1>4, Appended

(* The user of an execution is always the same. *)
LEMMA SameUser ==
  ASSUME TypeOK, [Next]_vars, NEW k \in 1..Len(execs)
  PROVE  ExecUser(k)' = ExecUser(k)
<1>1. execs[k] \in 1..Len(posts)
  BY ElementOfSeq DEF TypeOK
<1>2. execs'[k] = execs[k] /\ posts'[execs[k]] = posts[execs[k]]
  BY <1>1, Prefix
<1>3. QED
  BY <1>2 DEF ExecUser

(* The post in hand names a user. *)
LEMMA InHand ==
  ASSUME TypeOK, hpc # "poll"
  PROVE  /\ cur \in 1..Len(posts) /\ Request \in Requests /\ User \in Users
         /\ This \in Nat
<1>1. posts \in Seq(Requests) /\ cur \in 0..Len(posts) /\ cur # 0
  BY DEF TypeOK
<1>2. Len(posts) \in Nat
  BY <1>1, LenProperties
<1>3. cur \in 1..Len(posts)
  BY <1>1, <1>2
<1>4. Request \in Requests
  BY <1>1, <1>3, ElementOfSeq DEF Request
<1>5. This \in Nat
  BY LenProperties DEF TypeOK, This
<1>6. QED
  BY <1>3, <1>4, <1>5 DEF User, Users

-----------------------------------------------------------------------------
(* The types, one step per action. *)
LEMMA TypeStep == WInv /\ [Next]_vars => TypeOK'
<1> SUFFICES ASSUME WInv, [Next]_vars PROVE TypeOK'
  OBVIOUS
<1>a. TypeOK /\ Account
  BY DEF WInv
<1>b. Len(posts) \in Nat /\ Len(execs) \in Nat
  BY <1>a, LenProperties DEF TypeOK
<1>c. /\ MaxTime \in Nat /\ MaxPosts \in Nat
      /\ MaxExecs \in Nat /\ MaxCrashes \in Nat
  BY UserHandlerAssumption
<1> USE DEF recordVars, accountVars, Drop, Fail, Proceed, Goto
<1>p. platform' \in {"linux", "windows"}
  BY <1>a DEF TypeOK, Next, Handler, Environment, vars
<1>1. CASE Get
  <2>1. Len(posts) # 0
    BY <1>a, <1>1, EmptySeq DEF Get, TypeOK
  <2>2. QED
    BY <1>a, <1>p, <1>b, <1>1, <2>1 DEF Get, TypeOK
<1>2. CASE CheckHash \/ CheckTimestamp \/ LookupLinux \/ LookupWindows
  <2>1. hpc # "poll" /\ hpc' \in {"poll", "store", "fail", "generate", "set", "create"}
    BY <1>2 DEF CheckHash, CheckTimestamp, LookupLinux, LookupWindows
  <2>2. IF hpc' = "poll" THEN cur' = 0 ELSE cur' = cur
    BY <1>2 DEF CheckHash, CheckTimestamp, LookupLinux, LookupWindows
  <2>3. UNCHANGED <<recordVars, execs, makers, accountVars, answers>>
    BY <1>2 DEF CheckHash, CheckTimestamp, LookupLinux, LookupWindows
  <2>4. QED
    BY <1>a, <1>p, <1>b, <2>1, <2>2, <2>3 DEF TypeOK
<1>3. CASE TruncateHash \/ WriteHash \/ WriteStringProperty
  BY <1>a, <1>p, <1>3, InHand DEF TruncateHash, WriteHash, WriteStringProperty, TypeOK
<1>4. CASE Generate
  <2>1. CASE execs' = Append(execs, cur) /\ Len(execs) < MaxExecs /\ Proceed("lookup")
    <3>1. execs \in Seq(1..Len(posts)) /\ cur \in 1..Len(posts)
      BY <1>a, <1>4, InHand DEF Generate, TypeOK
    <3>2. execs' \in Seq(1..Len(posts)) /\ Len(execs') = Len(execs) + 1
      BY <2>1, <3>1, AppendProperties
    <3>3. Len(execs') <= MaxExecs
      BY <1>b, <1>c, <2>1, <3>2
    <3>4. makers \subseteq 1..Len(execs') /\ pwd \in [Users -> 0..Len(execs')]
      BY <1>a, <1>b, <3>2 DEF TypeOK
    <3>5. QED
      BY <1>a, <1>p, <1>4, <2>1, <3>2, <3>3, <3>4 DEF Generate, TypeOK
  <2>2. CASE execs' = execs /\ Fail
    BY <1>a, <1>p, <1>4, <2>2 DEF Generate, TypeOK
  <2>3. QED
    BY <1>4, <2>1, <2>2 DEF Generate
<1>5. CASE SetPassword
  BY <1>a, <1>p, <1>b, <1>5, InHand DEF SetPassword, Changed, NotChanged, TypeOK, This
<1>6. CASE CreateUserLinux \/ CreateUserWindows
  <2>1. User \in Users /\ This \in 0..Len(execs)
    BY <1>a, <1>b, <1>6, InHand DEF CreateUserLinux, CreateUserWindows, This
  <2>2. This \in 1..Len(execs)
    <3>1. execs # <<>>
      BY <1>6 DEF WInv, Executing, Working, CreateUserLinux, CreateUserWindows
    <3>2. QED
      BY <1>a, <1>p, <1>b, <3>1, EmptySeq DEF TypeOK, This
  <2>3. /\ makers' \in {makers, makers \cup {This}}
        /\ accounts' \in {accounts, accounts \cup {User}}
        /\ pwd' \in {pwd, [pwd EXCEPT ![User] = This]}
    BY <1>6 DEF CreateUserLinux, CreateUserWindows, LocalUserCreate, Changed, NotChanged
  <2>4. hpc' \in {"setNew", "admin", "fail"} /\ cur' = cur /\ hpc # "poll"
    BY <1>6 DEF CreateUserLinux, CreateUserWindows, LocalUserCreate, Changed, NotChanged
  <2>5. UNCHANGED <<recordVars, execs, admins, answers>>
    BY <1>6 DEF CreateUserLinux, CreateUserWindows, LocalUserCreate, Changed, NotChanged
  <2>6. makers' \subseteq 1..Len(execs) /\ accounts' \subseteq Users
    BY <1>a, <2>1, <2>2, <2>3 DEF TypeOK
  <2>7. pwd' \in [Users -> 0..Len(execs)] /\ admins \subseteq accounts'
    BY <1>a, <2>1, <2>3 DEF TypeOK
  <2>8. QED
    BY <1>a, <1>p, <2>4, <2>5, <2>6, <2>7 DEF TypeOK
<1>7. CASE AddToAdministrators
  BY <1>a, <1>p, <1>7, InHand DEF AddToAdministrators, Changed, NotChanged, TypeOK, Account
<1>8. CASE Respond
  <2>1. cur \in 1..MaxPosts /\ This \in 0..MaxExecs
    BY <1>a, <1>b, <1>c, <1>8, InHand DEF Respond, TypeOK, This
  <2>2. answers' \subseteq Response
    BY <1>a, <1>c, <1>8, <2>1 DEF Respond, TypeOK, Response
  <2>3. QED
    BY <1>a, <1>p, <1>b, <1>8, <2>2 DEF Respond, TypeOK
<1>9. ASSUME NEW r \in Requests, Post(r) PROVE TypeOK'
  <2>1. posts' \in Seq(Requests) /\ Len(posts') = Len(posts) + 1
    BY <1>a, <1>9, AppendProperties DEF Post, TypeOK
  <2>2. execs \in Seq(1..Len(posts'))
    <3>1. 1..Len(posts) \subseteq 1..Len(posts')
      BY <1>b, <2>1
    <3>2. QED
      BY <1>a, <3>1, SeqMonotonic DEF TypeOK
  <2>3. Len(posts') <= MaxPosts /\ cur \in 0..Len(posts')
    BY <1>a, <1>b, <1>c, <1>9, <2>1 DEF Post, TypeOK
  <2>4. QED
    BY <1>a, <1>p, <1>9, <2>1, <2>2, <2>3 DEF Post, TypeOK
<1>10. CASE Tick \/ Crash
  <2>1. CASE Tick
    BY <1>a, <1>p, <1>c, <2>1 DEF Tick, TypeOK
  <2>2. CASE Crash
    BY <1>a, <1>p, <1>b, <1>c, <2>2 DEF Crash, TypeOK
  <2>3. QED
    BY <1>10, <2>1, <2>2
<1>11. CASE UNCHANGED vars
  BY <1>a, <1>p, <1>11 DEF vars, TypeOK
<1>12. QED
  BY <1>1, <1>2, <1>3, <1>4, <1>5, <1>6, <1>7, <1>8, <1>9, <1>10, <1>11
     DEF Next, Handler, Environment

-----------------------------------------------------------------------------
(* What was told and what is under way stay apart. *)
LEMMA ExecutingStep == WInv /\ [Next]_vars => Executing' /\ Told'
<1> SUFFICES ASSUME WInv, [Next]_vars PROVE Executing' /\ Told'
  OBVIOUS
<1>a. TypeOK /\ Executing /\ Told
  BY DEF WInv
<1>b. Len(posts) \in Nat /\ Len(execs) \in Nat
  BY <1>a, LenProperties DEF TypeOK
<1> USE DEF Drop, Fail, Proceed, Goto, Working, accountVars, recordVars
<1>1. ASSUME answers' = answers PROVE Told'
  <2>1. \A a \in Successes : a.exec \in 1..Len(execs') /\ execs'[a.exec] = execs[a.exec]
    <3>1. Len(execs') \in Nat
      BY TypeStep, LenProperties DEF TypeOK
    <3>2. Len(execs) <= Len(execs') /\ \A k \in 1..Len(execs) : execs'[k] = execs[k]
      BY <1>a, Prefix
    <3>3. QED
      BY <1>a, <1>b, <3>1, <3>2 DEF Told
  <2>2. Successes' = Successes
    BY <1>1 DEF Successes
  <2>3. QED
    BY <1>a, <2>1, <2>2 DEF Told
<1>2. ASSUME execs' = execs, answers' = answers,
             hpc' \in Working => hpc \in Working /\ cur' = cur
      PROVE  Executing'
  BY <1>a, <1>2 DEF Executing, This
<1>3. CASE Generate
  <2>1. answers' = answers
    BY <1>3 DEF Generate
  <2>2. CASE execs' = Append(execs, cur) /\ cur' = cur
    <3>1. execs \in Seq(1..Len(posts)) /\ cur \in 1..Len(posts)
      BY <1>a, <1>3, InHand DEF Generate, TypeOK
    <3>2. /\ execs' # <<>> /\ Len(execs') = Len(execs) + 1
          /\ execs'[Len(execs) + 1] = cur
      BY <2>2, <3>1, AppendProperties
    <3>3. \A a \in answers : a.exec # Len(execs) + 1
      BY <1>a, <1>b DEF Told, Successes
    <3>4. QED
      BY <1>1, <2>1, <2>2, <3>2, <3>3 DEF Executing, This
  <2>3. CASE execs' = execs /\ Fail
    BY <1>1, <2>1, <2>3 DEF Executing
  <2>4. QED
    BY <1>1, <1>3, <2>1, <2>2, <2>3 DEF Generate
<1>4. CASE Respond
  <2>1. hpc' = "poll" /\ execs' = execs
    BY <1>4 DEF Respond
  <2>2. CASE answers' = answers
    BY <1>1, <2>1, <2>2 DEF Executing
  <2>3. CASE hpc = "succeed" /\ answers' = answers \cup {[post |-> cur, exec |-> This]}
    <3>1. This \in 1..Len(execs) /\ cur = execs[This]
      BY <1>a, <1>b, <2>3, EmptySeq DEF Executing, This, TypeOK
    <3>2. QED
      BY <1>a, <2>1, <2>3, <3>1 DEF Executing, Told, Successes
  <2>4. CASE hpc = "fail" /\ answers' = answers \cup {[post |-> cur, exec |-> 0]}
    BY <1>a, <2>1, <2>4 DEF Executing, Told, Successes
  <2>5. QED
    BY <1>4, <2>2, <2>3, <2>4 DEF Respond
<1>5. CASE Get \/ CheckHash \/ TruncateHash \/ WriteHash \/ WriteStringProperty
           \/ CheckTimestamp
  BY <1>1, <1>5 DEF Get, CheckHash, TruncateHash, WriteHash, WriteStringProperty,
     CheckTimestamp, Executing
<1>6. CASE LookupLinux \/ LookupWindows \/ SetPassword
  BY <1>1, <1>2, <1>6 DEF LookupLinux, LookupWindows, SetPassword, Changed, NotChanged
<1>7. CASE CreateUserLinux \/ CreateUserWindows \/ AddToAdministrators
  BY <1>1, <1>2, <1>7 DEF CreateUserLinux, CreateUserWindows, AddToAdministrators,
     Changed, NotChanged
<1>8. CASE (\E r \in Requests : Post(r)) \/ Tick \/ Crash \/ UNCHANGED vars
  BY <1>1, <1>2, <1>8 DEF Post, Tick, Crash, vars
<1>9. QED
  BY <1>3, <1>4, <1>5, <1>6, <1>7, <1>8 DEF Next, Handler, Environment

(* The account at each step of an execution. *)
LEMMA AccountStep == WInv /\ [Next]_vars => Account'
<1> SUFFICES ASSUME WInv, [Next]_vars PROVE Account'
  OBVIOUS
<1>a. TypeOK /\ Executing /\ Account
  BY DEF WInv
<1>b. Len(posts) \in Nat /\ Len(execs) \in Nat
  BY <1>a, LenProperties DEF TypeOK
<1>c. pwd \in [Users -> 0..Len(execs)]
  BY <1>a DEF TypeOK
<1>d. ASSUME hpc # "poll", cur' = cur PROVE User' = User
  <2>1. posts'[cur] = posts[cur]
    BY <1>a, <1>d, InHand, Prefix
  <2>2. QED
    BY <1>d, <2>1 DEF User, Request
<1> USE DEF Drop, Fail, Proceed, Goto, accountVars, recordVars
<1>1. CASE Get \/ CheckHash \/ TruncateHash \/ WriteHash \/ WriteStringProperty
           \/ CheckTimestamp
  BY <1>1 DEF Get, CheckHash, TruncateHash, WriteHash, WriteStringProperty,
     CheckTimestamp, Account
<1>2. CASE Generate
  <2>1. CASE execs' = Append(execs, cur) /\ hpc' = "lookup"
    <3>1. Len(execs') = Len(execs) + 1
      BY <1>a, <1>2, <2>1, InHand, AppendProperties DEF Generate, TypeOK
    <3>2. Len(execs) + 1 \notin makers
      BY <1>a, <1>b DEF TypeOK
    <3>3. QED
      BY <1>2, <2>1, <3>1, <3>2 DEF Generate, Account, This
  <2>2. CASE hpc' = "fail"
    BY <2>2 DEF Account
  <2>3. QED
    BY <1>2, <2>1, <2>2 DEF Generate
<1>3. CASE LookupLinux \/ LookupWindows
  BY <1>a, <1>d, <1>3 DEF LookupLinux, LookupWindows, LocalUserExist, Account, This
<1>4. CASE SetPassword
  <2>1. CASE hpc' = "fail"
    BY <2>1 DEF Account
  <2>2. CASE pwd' = [pwd EXCEPT ![User] = This] /\ hpc' # "fail"
    <3>1. pwd'[User] = This
      BY <1>a, <1>c, <1>4, <2>2, InHand DEF SetPassword
    <3>2. QED
      BY <1>a, <1>d, <1>4, <2>2, <3>1 DEF SetPassword, Changed, NotChanged, Account, This
  <2>3. QED
    BY <1>4, <2>1, <2>2 DEF SetPassword, Changed, NotChanged
<1>5. CASE CreateUserLinux
  BY <1>a, <1>d, <1>5 DEF CreateUserLinux, Changed, NotChanged, Account, This
<1>6. CASE CreateUserWindows
  <2>1. CASE hpc' = "fail"
    BY <2>1 DEF Account
  <2>2. CASE pwd' = [pwd EXCEPT ![User] = This] /\ hpc' # "fail"
    <3>1. pwd'[User] = This
      BY <1>a, <1>c, <1>6, <2>2, InHand DEF CreateUserWindows, LocalUserCreate
    <3>2. QED
      BY <1>a, <1>d, <1>6, <2>2, <3>1
         DEF CreateUserWindows, LocalUserCreate, NotChanged, Account, This
  <2>3. QED
    BY <1>6, <2>1, <2>2 DEF CreateUserWindows, LocalUserCreate, NotChanged
<1>7. CASE AddToAdministrators
  BY <1>a, <1>d, <1>7 DEF AddToAdministrators, Changed, NotChanged, Account, This
<1>8. CASE Respond \/ Crash
  BY <1>8 DEF Respond, Crash, Account
<1>9. CASE (\E r \in Requests : Post(r)) \/ Tick \/ UNCHANGED vars
  <2>1. UNCHANGED <<hpc, cur, execs, makers, accounts, admins, pwd>>
    BY <1>9 DEF Post, Tick, vars
  <2>2. hpc # "poll" => User' = User
    BY <1>d, <2>1
  <2>3. QED
    BY <1>a, <2>1, <2>2 DEF Account, This
<1>10. QED
  BY <1>1, <1>2, <1>3, <1>4, <1>5, <1>6, <1>7, <1>8, <1>9 DEF Next, Handler, Environment

LEMMA WInvInit == Init => WInv
<1> SUFFICES ASSUME Init PROVE WInv
  OBVIOUS
<1>1. /\ MaxTime \in Nat /\ MaxPosts \in Nat
      /\ MaxExecs \in Nat /\ MaxCrashes \in Nat
  BY UserHandlerAssumption
<1>2. <<>> \in Seq(Requests) /\ <<>> \in Seq(1..0) /\ Len(<<>>) = 0
  BY EmptySeq
<1>3. TypeOK
  BY <1>1, <1>2 DEF Init, TypeOK
<1>4. QED
  BY <1>3 DEF WInv, Init, Executing, Told, Account, Working, Successes

LEMMA WInvCorrect == Spec => []WInv
<1>1. WInv /\ [Next]_vars => WInv'
  BY TypeStep, ExecutingStep, AccountStep DEF WInv
<1>2. QED
  BY WInvInit, <1>1, PTL DEF Spec

(* The types hold in every state. *)
THEOREM UserTypeCorrect == Spec => []TypeOK
<1>1. WInv => TypeOK
  BY DEF WInv
<1>2. QED
  BY <1>1, WInvCorrect, PTL

-----------------------------------------------------------------------------
(* Accounts and administrators only come, and only the execution under way *)
(* changes a password or makes an account.                                 *)
LEMMA Grows ==
  ASSUME WInv, [Next]_vars
  PROVE  /\ accounts \subseteq accounts' /\ admins \subseteq admins'
         /\ \/ UNCHANGED <<makers, pwd>>
            \/ /\ hpc \in Working
               /\ makers' \subseteq makers \cup {This}
               /\ \A u \in Users \ {User} : pwd'[u] = pwd[u]
               /\ pwd'[User] \in {pwd[User], This}
<1>c. TypeOK /\ pwd \in [Users -> 0..Len(execs)]
  BY DEF WInv, TypeOK
<1> USE DEF accountVars, recordVars, Working
<1>1. CASE SetPassword \/ CreateUserLinux \/ CreateUserWindows
  <2>1. hpc \in Working /\ User \in Users
    BY <1>c, <1>1, InHand DEF SetPassword, CreateUserLinux, CreateUserWindows, LocalUserCreate
  <2>2. /\ accounts \subseteq accounts' /\ admins' = admins
        /\ makers' \in {makers, makers \cup {This}}
        /\ pwd' \in {pwd, [pwd EXCEPT ![User] = This]}
    BY <1>1 DEF SetPassword, CreateUserLinux, CreateUserWindows, LocalUserCreate, Changed,
       NotChanged
  <2>3. QED
    BY <1>c, <2>1, <2>2
<1>2. CASE AddToAdministrators \/ Generate \/ LookupLinux \/ LookupWindows \/ Respond
  BY <1>2 DEF AddToAdministrators, Changed, NotChanged, Generate, LookupLinux,
     LookupWindows, Respond
<1>3. CASE Get \/ CheckHash \/ TruncateHash \/ WriteHash \/ WriteStringProperty
           \/ CheckTimestamp
  BY <1>3 DEF Get, CheckHash, TruncateHash, WriteHash, WriteStringProperty,
     CheckTimestamp
<1>4. CASE (\E r \in Requests : Post(r)) \/ Tick \/ Crash \/ UNCHANGED vars
  BY <1>4 DEF Post, Tick, Crash, vars
<1>5. QED
  BY <1>1, <1>2, <1>3, <1>4 DEF Next, Handler, Environment

(* What AnswersTrue says of one answer. *)
TrueAnswer(a) ==
  LET u == ExecUser(a.exec) IN
    /\ u \in accounts
    /\ a.exec \in makers => u \in admins
    /\ \/ pwd[u] = a.exec
       \/ \E k \in (a.exec + 1)..Len(execs) : ExecUser(k) = u

(* The execution under way is for the user of the post in hand. *)
LEMMA ThisUser ==
  ASSUME WInv, hpc \in Working
  PROVE  This \in 1..Len(execs) /\ ExecUser(This) = User
<1>1. execs # <<>> /\ execs[This] = cur
  BY DEF WInv, Executing
<1>2. This \in 1..Len(execs)
  BY <1>1, EmptySeq DEF WInv, TypeOK, This
<1>3. QED
  BY <1>1, <1>2 DEF ExecUser, User, Request

(* An answer stays true, since only a later execution for its user changes *)
(* the password, and none takes an account or an administrator away.       *)
LEMMA AnswerStays ==
  ASSUME WInv, [Next]_vars, NEW a \in Successes, TrueAnswer(a)
  PROVE  TrueAnswer(a)'
<1> DEFINE u == ExecUser(a.exec)
<1>a. TypeOK /\ a.exec \in 1..Len(execs) /\ Len(execs) \in Nat
  BY LenProperties DEF WInv, Told, TypeOK
<1>b. u' = u
  BY <1>a, SameUser
<1>c. hpc \in Working => a.exec # This
  BY DEF WInv, Executing, Successes
<1>d. u \in Users
  <2>1. execs[a.exec] \in 1..Len(posts)
    BY <1>a, ElementOfSeq DEF TypeOK
  <2>2. posts[execs[a.exec]] \in Requests
    BY <1>a, <2>1, ElementOfSeq DEF TypeOK
  <2>3. QED
    BY <2>2 DEF ExecUser, Users
<1>e. Len(execs') \in Nat /\ Len(execs) <= Len(execs')
  BY <1>a, Prefix, TypeStep, LenProperties DEF TypeOK
<1>1. u \in accounts' /\ (a.exec \in makers' => u \in admins')
  BY <1>a, <1>c, Grows DEF TrueAnswer
<1>2. ASSUME NEW k \in (a.exec + 1)..Len(execs), ExecUser(k) = u
      PROVE  \E j \in (a.exec + 1)..Len(execs') : ExecUser(j)' = u
  <2>1. k \in 1..Len(execs) /\ k \in (a.exec + 1)..Len(execs')
    BY <1>a, <1>e
  <2>2. ExecUser(k)' = u
    BY <1>a, <1>2, <2>1, SameUser
  <2>3. QED
    BY <2>1, <2>2
<1>3. pwd'[u] = a.exec \/ \E j \in (a.exec + 1)..Len(execs') : ExecUser(j)' = u
  <2>1. CASE pwd'[u] = pwd[u]
    BY <1>2, <2>1 DEF TrueAnswer
  <2>2. CASE pwd'[u] # pwd[u]
    <3>1. hpc \in Working /\ u = User
      BY <1>d, <2>2, Grows
    <3>2. This \in (a.exec + 1)..Len(execs) /\ ExecUser(This) = u
      BY <1>a, <1>c, <3>1, ThisUser DEF This
    <3>3. QED
      BY <1>2, <3>2
  <2>3. QED
    BY <2>1, <2>2
<1>4. QED
  BY <1>b, <1>1, <1>3 DEF TrueAnswer

LEMMA AnswersStep == WInv /\ AnswersTrue /\ [Next]_vars => AnswersTrue'
<1> SUFFICES ASSUME WInv, AnswersTrue, [Next]_vars PROVE AnswersTrue'
  OBVIOUS
<1>1. \A a \in Successes : TrueAnswer(a)'
  BY AnswerStays DEF AnswersTrue, TrueAnswer
<1>2. CASE hpc = "succeed" /\ Respond
  <2>1. UNCHANGED <<posts, execs, makers, accounts, admins, pwd>>
    BY <1>2 DEF Respond, recordVars, accountVars
  <2>2. This \in 1..Len(execs) /\ ExecUser(This) = User
    BY <1>2, ThisUser DEF Working
  <2>3. ASSUME NEW a, a.exec = This PROVE TrueAnswer(a)'
    <3>1. /\ User \in accounts /\ pwd[User] = This
          /\ This \in makers => User \in admins
      BY <1>2 DEF WInv, Account
    <3>2. TrueAnswer(a)
      BY <2>2, <2>3, <3>1 DEF TrueAnswer
    <3>3. QED
      BY <2>1, <3>2 DEF TrueAnswer, ExecUser
  <2>4. \A a \in Successes' : a \in Successes \/ a.exec = This
    BY <1>2 DEF Respond, Successes
  <2>5. QED
    BY <1>1, <2>3, <2>4 DEF AnswersTrue, TrueAnswer
<1>3. CASE ~(hpc = "succeed" /\ Respond)
  <2>1. Successes' \subseteq Successes
    <3>1. CASE Respond
      BY <1>3, <3>1 DEF Respond, Successes
    <3>2. CASE answers' = answers
      BY <3>2 DEF Successes
    <3>3. CASE Get \/ CheckHash \/ TruncateHash \/ WriteHash \/ WriteStringProperty
               \/ CheckTimestamp \/ Generate \/ LookupLinux \/ LookupWindows
      BY <3>2, <3>3 DEF Get, CheckHash, TruncateHash, WriteHash,
         WriteStringProperty, CheckTimestamp, Generate, LookupLinux, LookupWindows
    <3>4. CASE SetPassword \/ CreateUserLinux \/ CreateUserWindows \/ AddToAdministrators
      BY <3>2, <3>4 DEF SetPassword, CreateUserLinux, CreateUserWindows, LocalUserCreate,
         AddToAdministrators
    <3>5. CASE (\E r \in Requests : Post(r)) \/ Tick \/ Crash \/ UNCHANGED vars
      BY <3>2, <3>5 DEF Post, Tick, Crash, vars
    <3>6. QED
      BY <3>1, <3>3, <3>4, <3>5 DEF Next, Handler, Environment
  <2>2. QED
    BY <1>1, <2>1 DEF AnswersTrue, TrueAnswer
<1>4. QED
  BY <1>2, <1>3

(* A password that was told is its user's until a later execution for that *)
(* user, and the account is there (users_handler.go:224-260), whatever     *)
(* fails, and wherever the agent dies.                                     *)
THEOREM AnswersTrueCorrect == Spec => []AnswersTrue
<1>1. Init => AnswersTrue
  BY DEF Init, AnswersTrue, Successes
<1>2. QED
  BY <1>1, AnswersStep, WInvCorrect, PTL DEF Spec

-----------------------------------------------------------------------------
(* Posts are executed in their order, and none after the one in hand. *)
InOrder == /\ \A j, k \in 1..Len(execs) : j < k => execs[j] < execs[k]
           /\ cur # 0 => \A k \in 1..Len(execs) : execs[k] <= cur

(* When the post that is the value was executed, it is the recorded one;   *)
(* and so is the post in hand when its record is looked up, and after it   *)
(* was written.                                                            *)
Recorded ==
  /\ \A k \in 1..Len(execs) : execs[k] = Len(posts) => stored = {posts[Len(posts)]}
  /\ hpc = "received" => \A k \in 1..Len(execs) : execs[k] = cur => stored = {Request}
  /\ hpc \in {"expires", "generate"} => stored = {Request}

(* A post that has passed the check was not executed before. *)
Fresh == hpc \in {"store", "storing", "expires", "generate"} =>
           \A k \in 1..Len(execs) : execs[k] < cur

PInv == InOrder /\ Recorded /\ Fresh

(* One step per group of actions: what is posted and executed, what is     *)
(* checked, what is recorded, and the rest.                                *)
LEMMA PInvStep ==
  ASSUME ~MayMisread, WInv, PInv, [Next]_vars
  PROVE  PInv'
<1>a. TypeOK /\ posts \in Seq(Requests) /\ execs \in Seq(1..Len(posts))
  BY DEF WInv, TypeOK
<1>b. Len(posts) \in Nat /\ Len(execs) \in Nat
  BY <1>a, LenProperties
<1>c. \A k \in 1..Len(execs) : execs[k] \in 1..Len(posts)
  BY <1>a, ElementOfSeq
<1> USE DEF PInv, InOrder, Recorded, Fresh, Drop, Fail, Proceed, Goto, recordVars, accountVars
<1>1. CASE Get
  BY <1>a, <1>b, <1>c, <1>1 DEF Get, Request
<1>2. CASE CheckHash
  <2>1. hpc' = "store" => \A k \in 1..Len(execs) : execs[k] < cur
    BY <1>a, <1>b, <1>c, <1>2, InHand DEF CheckHash, Passes, Repeated
  <2>2. /\ UNCHANGED <<posts, execs, stored>> /\ cur' \in {0, cur}
        /\ hpc' = "store" => cur' = cur
    BY <1>2 DEF CheckHash
  <2>3. hpc' \in {"poll", "store", "fail"}
    BY <1>2 DEF CheckHash
  <2>4. InOrder' /\ Fresh'
    BY <2>1, <2>2, <2>3
  <2>5. Recorded'
    BY <2>2, <2>3
  <2>6. QED
    BY <2>4, <2>5
<1>3. CASE TruncateHash \/ WriteHash \/ WriteStringProperty
  <2>1. /\ UNCHANGED <<posts, execs, cur>> /\ hpc \in {"store", "storing"}
        /\ hpc' \in {"storing", "expires", "fail"}
        /\ hpc' = "expires" => stored' = {Request}
    BY <1>3 DEF TruncateHash, WriteHash, WriteStringProperty
  <2>2. \A k \in 1..Len(execs) : execs[k] < cur /\ execs[k] # Len(posts)
    BY <1>a, <1>b, <1>c, <2>1, InHand
  <2>3. QED
    BY <2>1, <2>2 DEF Request
<1>4. CASE CheckTimestamp
  BY <1>4 DEF CheckTimestamp, Request
<1>5. CASE Generate
  <2>1. CASE execs' = Append(execs, cur) /\ Proceed("lookup")
    <3>1. cur \in 1..Len(posts)
      BY <1>a, <1>5, InHand DEF Generate
    <3>2. /\ Len(execs') = Len(execs) + 1 /\ execs'[Len(execs) + 1] = cur
          /\ \A k \in 1..Len(execs) : execs'[k] = execs[k]
      BY <1>a, <2>1, <3>1, AppendProperties
    <3>3. \A k \in 1..Len(execs) : execs[k] < cur
      BY <1>5 DEF Generate
    <3>4. stored = {posts[cur]} /\ UNCHANGED <<posts, stored, cur>>
      BY <1>5, <2>1 DEF Generate, Request
    <3>5. InOrder'
      BY <1>b, <1>c, <3>1, <3>2, <3>3, <3>4
    <3>6. Recorded' /\ Fresh'
      BY <1>b, <1>c, <2>1, <3>1, <3>2, <3>3, <3>4
    <3>7. QED
      BY <3>5, <3>6
  <2>2. CASE execs' = execs /\ Fail
    BY <1>5, <2>2 DEF Generate
  <2>3. QED
    BY <1>5, <2>1, <2>2 DEF Generate
<1>6. ASSUME NEW r \in Requests, Post(r) PROVE PInv'
  <2>1. Len(posts') = Len(posts) + 1 /\ \A i \in 1..Len(posts) : posts'[i] = posts[i]
    BY <1>a, <1>6, AppendProperties DEF Post
  <2>2. hpc # "poll" => Request' = Request
    BY <1>a, <1>6, <2>1, InHand DEF Post, Request
  <2>3. UNCHANGED <<hpc, cur, execs, stored>>
    BY <1>6 DEF Post
  <2>4. QED
    BY <1>b, <1>c, <2>1, <2>2, <2>3
<1>7. ASSUME UNCHANGED <<posts, execs, stored>>,
             \/ hpc' = "poll" /\ cur' = 0
             \/ cur' = cur /\ hpc' \in Working \cup {"fail"}
             \/ UNCHANGED <<hpc, cur>>
      PROVE  PInv'
  BY <1>7 DEF Working, Request
<1>8. CASE LookupLinux \/ LookupWindows \/ SetPassword \/ Respond
  BY <1>7, <1>8 DEF LookupLinux, LookupWindows, SetPassword, Changed, NotChanged,
     Respond, Working
<1>9. CASE CreateUserLinux \/ CreateUserWindows \/ AddToAdministrators
  BY <1>7, <1>9 DEF CreateUserLinux, CreateUserWindows, LocalUserCreate,
     AddToAdministrators, Changed, NotChanged, Working
<1>10. CASE Tick \/ Crash \/ UNCHANGED vars
  BY <1>7, <1>10 DEF Tick, Crash, vars
<1>11. QED
  BY <1>1, <1>2, <1>3, <1>4, <1>5, <1>6, <1>8, <1>9, <1>10 DEF Next, Handler, Environment

-----------------------------------------------------------------------------
(* A step of the handler is one of AtMostOnce, or none of its business. *)
LEMMA PromiseStep ==
  ASSUME ~MayMisread, WInv, PInv, [Next]_vars
  PROVE  [Promise!Next]_<<Len(posts), execs, {a.post : a \in Successes}>>
<1>a. TypeOK /\ posts \in Seq(Requests) /\ execs \in Seq(1..Len(posts))
  BY DEF WInv, TypeOK
<1>b. Len(posts) \in Nat /\ Len(execs) \in Nat
  BY <1>a, LenProperties
<1> USE DEF Drop, Fail, Proceed, Goto, recordVars, accountVars
<1>1. CASE Generate
  <2>1. answers' = answers /\ posts' = posts
    BY <1>1 DEF Generate
  <2>2. Successes' = Successes
    BY <2>1 DEF Successes
  <2>3. CASE execs' = Append(execs, cur)
    <3>1. PICK i \in 1..Len(posts) : i = cur
      BY <1>a, <1>1, InHand DEF Generate
    <3>2. \A k \in DOMAIN execs : execs[k] < i
      BY <1>a, <1>1, <3>1, LenProperties DEF PInv, Fresh, Generate
    <3>3. Promise!Execute(i)
      BY <2>1, <2>2, <2>3, <3>1, <3>2 DEF Promise!Execute
    <3>4. QED
      BY <3>1, <3>3 DEF Promise!Next
  <2>4. CASE execs' = execs
    BY <2>1, <2>2, <2>4
  <2>5. QED
    BY <1>1, <2>3, <2>4 DEF Generate
<1>2. ASSUME NEW r \in Requests, Post(r)
      PROVE  Promise!Next
  <2>1. Len(posts') = Len(posts) + 1
    BY <1>a, <1>2, AppendProperties DEF Post
  <2>2. execs' = execs /\ Successes' = Successes
    BY <1>2 DEF Post, Successes
  <2>3. QED
    BY <2>1, <2>2 DEF Promise!Next, Promise!Post
<1>3. CASE Respond
  <2>1. UNCHANGED <<posts, execs>>
    BY <1>3 DEF Respond
  <2>2. CASE hpc = "succeed" /\ answers' = answers \cup {[post |-> cur, exec |-> This]}
    <3>1. /\ This \in 1..Len(execs) /\ execs[This] = cur /\ execs # <<>>
          /\ \A a \in answers : a.exec # This
      BY <2>2, ThisUser DEF WInv, Executing, Working
    <3>2. Successes' = Successes \cup {[post |-> cur, exec |-> This]}
      BY <1>b, <2>2, <3>1 DEF Successes
    <3>3. {a.post : a \in Successes'} = {a.post : a \in Successes} \cup {cur}
      <4> DEFINE new == [post |-> cur, exec |-> This]
      <4>1. new.post = cur /\ Successes' = Successes \cup {new}
        BY <3>2
      <4> HIDE DEF new
      <4>2. QED
        BY <4>1
    <3>4. \A a \in Successes : a.post # cur
      <4>1. SUFFICES ASSUME NEW a \in Successes PROVE a.post # cur
        OBVIOUS
      <4>2. a.exec \in 1..Len(execs) /\ a.exec # Len(execs) /\ a.post = execs[a.exec]
        BY <3>1 DEF WInv, Told, Successes, This
      <4>3. execs[a.exec] < execs[Len(execs)]
        BY <1>b, <4>2 DEF PInv, InOrder
      <4>4. execs[a.exec] \in Nat
        BY <1>a, <1>b, <4>2, ElementOfSeq
      <4>5. QED
        BY <3>1, <4>2, <4>3, <4>4 DEF This
    <3>5. PICK i \in 1..Len(posts) : i = cur
      BY <1>a, <2>2, InHand
    <3>6. Promise!Tell(i)
      BY <2>1, <3>1, <3>3, <3>4, <3>5 DEF Promise!Tell, This
    <3>7. QED
      BY <3>5, <3>6 DEF Promise!Next
  <2>3. CASE hpc = "fail" /\ answers' = answers \cup {[post |-> cur, exec |-> 0]}
    <3>1. Successes' = Successes
      BY <2>3 DEF Successes
    <3>2. QED
      BY <2>1, <3>1
  <2>4. CASE answers' = answers
    BY <2>1, <2>4 DEF Successes
  <2>5. QED
    BY <1>3, <2>2, <2>3, <2>4 DEF Respond
<1>4. ASSUME UNCHANGED <<posts, execs, answers>>
      PROVE  UNCHANGED <<Len(posts), execs, {a.post : a \in Successes}>>
  BY <1>4 DEF Successes
<1>5. CASE Get \/ CheckHash \/ TruncateHash \/ WriteHash \/ WriteStringProperty
           \/ CheckTimestamp \/ LookupLinux \/ LookupWindows
  BY <1>4, <1>5 DEF Get, CheckHash, TruncateHash, WriteHash, WriteStringProperty,
     CheckTimestamp, LookupLinux, LookupWindows
<1>6. CASE SetPassword \/ CreateUserLinux \/ CreateUserWindows \/ AddToAdministrators
  BY <1>4, <1>6 DEF SetPassword, CreateUserLinux, CreateUserWindows, AddToAdministrators
<1>7. CASE Tick \/ Crash \/ UNCHANGED vars
  BY <1>4, <1>7 DEF Tick, Crash, vars
<1>8. QED
  BY <1>1, <1>2, <1>3, <1>5, <1>6, <1>7 DEF Next, Handler, Environment

(* As long as the record can be opened, each post is executed at most      *)
(* once, in the order of the posts, and its password told at most once,    *)
(* while it is the one set last (users_handler.go:134-222): the handlers   *)
(* of both platforms implement AtMostOnce.                                 *)
THEOREM ImplementsPromise ==
  ASSUME ~MayMisread
  PROVE  Spec => PromiseSpec
<1>1. Init => PInv
  BY DEF Init, PInv, InOrder, Recorded, Fresh
<1>2. Init => Promise!Init
  BY DEF Init, Promise!Init, Successes
<1>3. WInv /\ PInv /\ [Next]_vars => PInv'
  BY PInvStep
<1>4. WInv /\ PInv /\ [Next]_vars => [Promise!Next]_<<Len(posts), execs, {a.post : a \in Successes}>>
  BY PromiseStep
<1>5. WInv /\ PInv /\ [Next]_vars => [Promise!Next]_Promise!promiseVars
  BY <1>4 DEF Promise!promiseVars
<1>6. QED
  BY <1>1, <1>2, <1>3, <1>5, WInvCorrect, PTL DEF Spec, PromiseSpec, Promise!Spec
=============================================================================
