---------------------------- MODULE SshKeysProofs ----------------------------
(***************************************************************************)
(* The ssh keys handler, for any values, users and keys, any number of     *)
(* posts, edits and restarts, whatever fails.  The argument: what a file   *)
(* has, or is known to have lost, it goes on having; the loop has          *)
(* installed every entry it has behind it; what it is about to write was   *)
(* either read from the user's file or asked for; and what it saw of that  *)
(* file is still so, unless another program has moved it meanwhile.        *)
(***************************************************************************)
EXTENDS SshKeys, SequenceTheorems, TLAPS

(* The steps at one entry, from the first to the last. *)
AtEntry == {"validate", "exist", "create", "lookup", "dir", "mkdir", "file",
            "createFile", "read", "open", "write", "chownDir", "chownFile"}

HaveAccount == {"dir", "mkdir", "file", "createFile", "read", "open", "write",
                "chownDir", "chownFile"}

Has(u, k) == k \in keys[u] \/ <<u, k>> \in gone \cup cut

(* How far it is with its entry. *)
Halfway == /\ hpc \in HaveAccount => User \in accounts
           /\ hpc \in {"chownDir", "chownFile"} => Has(User, Key)
           /\ hpc = "chownFile" => dir[User] = "user"

Earlier == hpc \in AtEntry \cup {"succeed"} =>
             \A n \in 1..Len(Entries[Value]) :
               n < i \/ hpc = "succeed" =>
                 Installed(Entries[Value][n][1], Entries[Value][n][2])

AnswersPosted == \A a \in answers : a.post \in 1..Len(posts)

(* What it has read was asked for, or is another program's. *)
SeenAsked == hpc \in {"open", "write"} =>
               \A k \in seen \ OwnKeys : <<User, k>> \in Asked

(* A missing file holds nothing; what it is about to create is missing, if *)
(* no other program has made it, and what it is about to write is there.   *)
FileFound ==
  /\ \A u \in Users : file[u] = "none" => keys[u] = {}
  /\ hpc = "createFile" => moved \/ keys[User] = {}
  /\ hpc \in {"open", "write"} => file[User] # "none"

HInv == /\ TypeOK /\ Halfway /\ Earlier /\ AnswersPosted /\ SeenAsked /\ FileFound
        /\ SuccessTrue /\ OnlyAsked /\ RememberedAnswered

-----------------------------------------------------------------------------
LEMMA Numbers ==
  ASSUME TypeOK
  PROVE  /\ MaxPosts \in Nat /\ MaxCrashes \in Nat /\ MaxEdits \in Nat
         /\ posts \in Seq(Values) /\ Len(posts) \in Nat
         /\ i \in Nat /\ i # 0
  BY SshKeysAssumption, LenProperties DEF TypeOK

(* The value in hand is a sequence of users and keys. *)
LEMMA InHand ==
  ASSUME TypeOK, cur # 0
  PROVE  /\ cur \in 1..Len(posts) /\ cur \in 1..MaxPosts
         /\ Value \in Values
         /\ Entries[Value] \in Seq(Users \X Lines)
         /\ Len(Entries[Value]) \in Nat
<1>1. cur \in 1..Len(posts) /\ cur \in 1..MaxPosts
  BY Numbers DEF TypeOK
<1>2. Value \in Values
  BY <1>1, Numbers, ElementOfSeq DEF Value
<1>3. QED
  BY <1>1, <1>2, SshKeysAssumption, LenProperties

LEMMA AtUser ==
  ASSUME TypeOK, hpc \in AtEntry
  PROVE  /\ cur # 0
         /\ i \in 1..Len(Entries[Value])
         /\ User \in Users /\ Key \in Lines
         /\ Entries[Value][i] = <<User, Key>>
<1>1. cur # 0 /\ i <= Len(Entries[Value])
  BY DEF TypeOK, AtEntry
<1>2. i \in 1..Len(Entries[Value])
  BY <1>1, InHand, Numbers
<1>3. Entries[Value][i] \in Users \X Lines
  BY <1>1, <1>2, InHand, ElementOfSeq
<1>4. QED
  BY <1>1, <1>2, <1>3 DEF User, Key

(* Only a post changes what was posted; the others keep it. *)
LEMMA Posted ==
  ASSUME TypeOK, [Next]_vars
  PROVE  \/ UNCHANGED posts
         \/ \E v \in Values : Post(v)
<1> USE DEF Goto, Fail, Return, Skip, Panic, processVars, sightVars, fileVars,
            homeVars
<1>1. CASE Get \/ Parse \/ ValidateUser \/ Exist \/ CreateUser \/ LookupUser
  BY <1>1 DEF Get, Parse, ValidateUser, Exist, CreateUser, LookupUser
<1>2. CASE StatSshFolder \/ MakeSshFolder \/ StatKeysFile \/ CreateKeysFile
           \/ ReadKeys \/ OpenKeys
  BY <1>2 DEF StatSshFolder, MakeSshFolder, StatKeysFile, CreateKeysFile, ReadKeys,
       OpenKeys
<1>3. CASE WriteKeys \/ ChownDir \/ ChownFile \/ Respond
  BY <1>3 DEF WriteKeys, ChownDir, ChownFile, Respond
<1>4. CASE Crash \/ (\E u \in Users : Edit(u)) \/ UNCHANGED vars
  BY <1>4 DEF Crash, Edit, vars
<1>5. QED
  BY <1>1, <1>2, <1>3, <1>4 DEF Next, Handler, Environment

LEMMA Prefix ==
  ASSUME TypeOK, [Next]_vars
  PROVE  /\ posts' \in Seq(Values) /\ Len(posts') \in Nat
         /\ Len(posts) <= Len(posts')
         /\ \A n \in 1..Len(posts) : posts'[n] = posts[n]
<1>1. CASE UNCHANGED posts
  BY <1>1, Numbers
<1>2. ASSUME NEW v \in Values, Post(v)
      PROVE  posts' \in Seq(Values) /\ Len(posts') = Len(posts) + 1
             /\ \A n \in 1..Len(posts) : posts'[n] = posts[n]
  BY <1>2, Numbers, AppendProperties DEF Post
<1>3. QED
  BY <1>1, <1>2, Posted, Numbers

LEMMA SameValue ==
  ASSUME TypeOK, [Next]_vars, cur # 0, cur' = cur
  PROVE  Value' = Value
  BY InHand, Prefix DEF Value

(* What was asked for stays asked for. *)
LEMMA AskedGrows ==
  ASSUME TypeOK, [Next]_vars
  PROVE  Asked \subseteq Asked'
<1>1. SUFFICES ASSUME NEW p \in Asked PROVE p \in Asked'
  OBVIOUS
<1>2. PICK n \in 1..Len(posts) :
        p \in {Entries[posts[n]][m] : m \in 1..Len(Entries[posts[n]])}
  BY DEF Asked
<1>3. n \in 1..Len(posts') /\ posts'[n] = posts[n]
  BY Numbers, Prefix
<1>4. QED
  BY <1>2, <1>3 DEF Asked

(* The key in hand was asked for. *)
LEMMA KeyAsked ==
  ASSUME TypeOK, hpc \in AtEntry
  PROVE  <<User, Key>> \in Asked
<1>1. cur \in 1..Len(posts) /\ i \in 1..Len(Entries[posts[cur]])
      /\ Entries[posts[cur]][i] = <<User, Key>>
  BY AtUser, InHand DEF Value
<1>2. <<User, Key>> \in {Entries[posts[cur]][m] : m \in 1..Len(Entries[posts[cur]])}
  BY <1>1
<1>3. QED
  BY <1>1, <1>2 DEF Asked

-----------------------------------------------------------------------------
LEMMA HInvInit == Init => HInv
<1> SUFFICES ASSUME Init PROVE HInv
  OBVIOUS
<1>1. posts \in Seq(Values) /\ Len(posts) = 0 /\ answers = {} /\ last = {}
  BY EmptySeq DEF Init
<1>2. /\ file \in [Users -> Owners] /\ dir \in [Users -> Owners]
      /\ accounts \subseteq Users
  BY DEF Init, Owners
<1>3. keys \in [Users -> SUBSET Lines] /\ \A u \in Users : keys[u] \subseteq OwnKeys
  BY DEF Init, Lines
<1>4. TypeOK
  <2>1. MaxPosts \in Nat /\ MaxCrashes \in Nat /\ MaxEdits \in Nat
    BY SshKeysAssumption
  <2>2. /\ hpc = "poll" /\ cur = 0 /\ i = 1 /\ seen = {} /\ moved \in BOOLEAN
        /\ ~moved /\ gone = {} /\ cut = {} /\ edits = 0 /\ crashes = 0
    BY DEF Init
  <2>3. QED
    BY <1>1, <1>2, <1>3, <2>1, <2>2 DEF TypeOK
<1>5. Halfway /\ Earlier /\ AnswersPosted /\ SeenAsked /\ FileFound
  BY <1>1 DEF Init, Halfway, HaveAccount, Earlier, AtEntry, AnswersPosted, SeenAsked,
       FileFound
<1>6. SuccessTrue /\ OnlyAsked /\ RememberedAnswered
  BY <1>1, <1>3 DEF SuccessTrue, OnlyAsked, RememberedAnswered
<1>7. QED
  BY <1>4, <1>5, <1>6 DEF HInv

-----------------------------------------------------------------------------
LEMMA RewriteTyped ==
  ASSUME TypeOK, User \in Users, NEW new \in SUBSET Lines, Rewrite(new)
  PROVE  /\ keys' \in [Users -> SUBSET Lines]
         /\ gone' \subseteq Users \X Lines /\ cut' \subseteq Users \X Lines
<1>1. keys' \in [Users -> SUBSET Lines] /\ keys[User] \subseteq Lines
  BY DEF Rewrite, TypeOK
<1>2. {User} \X (keys[User] \ new) \subseteq Users \X Lines
  BY <1>1
<1>3. QED
  BY <1>1, <1>2 DEF Rewrite, TypeOK

LEMMA TypeStep == TypeOK /\ [Next]_vars => TypeOK'
<1> SUFFICES ASSUME TypeOK, [Next]_vars PROVE TypeOK'
  OBVIOUS
<1>n. /\ MaxPosts \in Nat /\ MaxCrashes \in Nat /\ MaxEdits \in Nat
      /\ Len(posts) \in Nat /\ i \in Nat /\ i # 0
  BY Numbers
<1>e. cur # 0 => Len(Entries[Value]) \in Nat
  BY InHand
<1>s. cur # 0 /\ cur' = cur => Value' = Value
  BY SameValue
<1>u. hpc \in AtEntry => User \in Users /\ Key \in Lines /\ i <= Len(Entries[Value]) /\ cur # 0
  BY AtUser, InHand, <1>n
<1>f. moved' = FALSE => moved' \in BOOLEAN /\ ~moved'
  BY Zenon
<1> USE DEF Goto, Fail, Return, Forget, Skip, processVars, sightVars, fileVars, homeVars,
            AtNext
<1>1. CASE Get
  <2>1. Len(posts) # 0
    BY <1>1, Numbers, EmptySeq DEF Get
  <2>2. QED
    BY <1>1, <1>n, <2>1 DEF Get, TypeOK
<1>2. CASE Parse
  <2>1. cur # 0 /\ i' \in {i, 1} /\ (hpc' = "validate" => i' = i)
    BY <1>2 DEF Parse, TypeOK
  <2>2. UNCHANGED <<posts, last, answers, crashes, homeVars>>
    BY <1>2 DEF Parse
  <2>3. /\ hpc' \in {"poll", "fail", "validate", "succeed"} /\ cur' \in {0, cur}
        /\ (hpc' = "poll") <=> (cur' = 0)
    BY <1>2, <2>1 DEF Parse
  <2>4. seen' = {} /\ moved' \in BOOLEAN /\ ~moved'
    BY <1>2, <1>f DEF Parse, TypeOK
  <2>5. hpc' = "validate" => cur' = cur /\ 1 <= Len(Entries[Value])
    BY <1>2 DEF Parse
  <2>6. i = 1
    BY <1>2 DEF Parse, TypeOK
  <2>7. QED
    BY <1>n, <1>e, <1>s, <2>1, <2>2, <2>3, <2>4, <2>5, <2>6 DEF TypeOK
<1>3. CASE ValidateUser \/ Exist
  BY <1>3, <1>n, <1>s DEF ValidateUser, Exist, TypeOK
<1>4. CASE CreateUser
  BY <1>4, <1>n, <1>s, <1>u DEF CreateUser, TypeOK, AtEntry
<1>5. CASE LookupUser
  BY <1>5, <1>f, <1>n, <1>s DEF LookupUser, Panic, TypeOK
<1>6. CASE StatSshFolder \/ MakeSshFolder
  BY <1>6, <1>f, <1>n, <1>s DEF StatSshFolder, MakeSshFolder, Panic, TypeOK, Owners
<1>7. CASE StatKeysFile
  BY <1>7, <1>n, <1>s DEF StatKeysFile, TypeOK
<1>c. CASE CreateKeysFile
  <2>1. User \in Users
    BY <1>c, <1>u DEF CreateKeysFile, AtEntry
  <2>2. /\ keys' \in [Users -> SUBSET Lines]
        /\ gone' \subseteq Users \X Lines /\ cut' \subseteq Users \X Lines
    BY <1>c, <2>1, RewriteTyped DEF CreateKeysFile, TypeOK
  <2>3. file' \in [Users -> Owners]
    BY <1>c, <2>1 DEF CreateKeysFile, TypeOK, Owners
  <2>4. hpc = "createFile" /\ hpc' \in {"read", "fail"} /\ seen' = {} /\ moved' = FALSE
        /\ UNCHANGED <<i, accounts, dir, edits, posts, cur, last, answers, crashes>>
    BY <1>c DEF CreateKeysFile
  <2>5. QED
    BY <1>n, <1>s, <2>2, <2>3, <2>4 DEF TypeOK
<1>8. CASE ReadKeys
  BY <1>8, <1>n, <1>s, <1>u DEF ReadKeys, TypeOK, AtEntry
<1>9. CASE OpenKeys
  BY <1>9, <1>n, <1>s DEF OpenKeys, TypeOK
<1>10. CASE WriteKeys
  <2>1. PICK new \in SUBSET Lines : Rewrite(new)
    <3>1. User \in Users /\ Key \in Lines /\ seen \subseteq Lines /\ keys[User] \subseteq Lines
      BY <1>10, <1>u DEF WriteKeys, TypeOK, AtEntry
    <3>2. ASSUME NEW rest \in SUBSET (keys[User] \ seen), Rewrite(seen \cup {Key} \cup rest)
          PROVE  seen \cup {Key} \cup rest \in SUBSET Lines
      BY <3>1
    <3>3. ASSUME NEW some \in SUBSET (keys[User] \cup seen \cup {Key}), Rewrite(some)
          PROVE  some \in SUBSET Lines
      BY <3>1
    <3>4. \/ \E rest \in SUBSET (keys[User] \ seen) : Rewrite(seen \cup {Key} \cup rest)
          \/ \E some \in SUBSET (keys[User] \cup seen \cup {Key}) : Rewrite(some)
      BY <1>10 DEF WriteKeys
    <3>5. QED
      BY <3>2, <3>3, <3>4
  <2>2. /\ keys' \in [Users -> SUBSET Lines]
        /\ gone' \subseteq Users \X Lines /\ cut' \subseteq Users \X Lines
    BY <1>10, <1>u, <2>1, RewriteTyped DEF WriteKeys, AtEntry
  <2>3. hpc = "write" /\ hpc' \in {"chownDir", "fail"} /\ seen' = {} /\ moved' = FALSE
        /\ UNCHANGED <<i, accounts, dir, file, edits, posts, cur, last, answers, crashes>>
    BY <1>10 DEF WriteKeys
  <2>4. QED
    BY <1>n, <1>s, <2>2, <2>3 DEF TypeOK
<1>11. CASE ChownDir
  BY <1>11, <1>n, <1>s DEF ChownDir, TypeOK, Owners
<1>12. CASE ChownFile
  BY <1>12, <1>n, <1>s, <1>e DEF ChownFile, TypeOK, Owners
<1>13. CASE Respond
  <2>1. cur # 0
    BY <1>13 DEF Respond, TypeOK
  <2>2. last' \in {{}} \cup {{v} : v \in Values}
    BY <1>13, <2>1, InHand DEF Respond, TypeOK
  <2>3. answers' \subseteq Response
    <3>1. [post |-> cur, ok |-> hpc = "succeed"] \in Response
      BY <2>1, InHand DEF Response
    <3>2. QED
      BY <1>13, <3>1 DEF Respond, TypeOK
  <2>4. QED
    BY <1>13, <1>f, <1>n, <2>2, <2>3 DEF Respond, TypeOK
<1>14. CASE \E v \in Values : Post(v)
  <2>1. PICK v \in Values : Post(v)
    BY <1>14
  <2>2. posts' \in Seq(Values) /\ Len(posts') = Len(posts) + 1
    BY <2>1, AppendProperties DEF Post, TypeOK
  <2>3. QED
    BY <1>n, <1>s, <2>1, <2>2 DEF Post, TypeOK, Response
<1>15. CASE \E u \in Users : Edit(u)
  <2>1. PICK u \in Users : Edit(u)
    BY <1>15
  <2>2. edits' \in 0..MaxEdits
    BY <2>1, <1>n DEF Edit, TypeOK
  <2>3. /\ keys' \in [Users -> SUBSET Lines]
        /\ gone' \subseteq Users \X Lines /\ cut' \subseteq Users \X Lines
    BY <2>1 DEF Edit, TypeOK, Lines
  <2>4. dir' \in [Users -> Owners] /\ file' \in [Users -> Owners]
    BY <2>1 DEF Edit, TypeOK, Owners
  <2>5. moved' \in BOOLEAN /\ (hpc \notin {"createFile", "open", "write"} => ~moved')
    BY <2>1 DEF Edit, TypeOK
  <2>6. UNCHANGED <<posts, hpc, cur, i, seen, last, answers, crashes, accounts>>
    BY <2>1 DEF Edit
  <2>7. QED
    BY <1>s, <2>2, <2>3, <2>4, <2>5, <2>6 DEF TypeOK, Response
<1>16. CASE Crash
  BY <1>16, <1>f, <1>n DEF Crash, TypeOK
<1>17. CASE UNCHANGED vars
  BY <1>17, <1>s DEF vars, TypeOK, Response
<1>18. QED
  BY <1>1, <1>2, <1>3, <1>4, <1>5, <1>6, <1>7, <1>8, <1>9, <1>10, <1>11, <1>12, <1>13,
     <1>14, <1>15, <1>16, <1>17, <1>c DEF Next, Handler, Environment

LEMMA StillTyped ==
  ASSUME TypeOK, [Next]_vars
  PROVE  TypeOK'
  BY TypeStep

-----------------------------------------------------------------------------
(* What a write makes of the file: no line that was read is lost unless    *)
(* the file was edited meanwhile, and nothing comes in but the key and     *)
(* what was read.                                                          *)
LEMMA Rewritten ==
  ASSUME TypeOK, WriteKeys
  PROVE  \E new \in SUBSET Lines :
           /\ Rewrite(new)
           /\ moved \/ keys[User] \cap seen \subseteq new
           /\ new \subseteq keys[User] \cup seen \cup {Key}
           /\ hpc' = "chownDir" => Key \in new
<1>1. User \in Users /\ Key \in Lines /\ seen \subseteq Lines /\ keys[User] \subseteq Lines
  BY AtUser DEF WriteKeys, AtEntry, TypeOK
<1>2. CASE \E rest \in SUBSET (keys[User] \ seen) : Rewrite(seen \cup {Key} \cup rest)
  <2>1. PICK rest \in SUBSET (keys[User] \ seen) : Rewrite(seen \cup {Key} \cup rest)
    BY <1>2
  <2>2. seen \cup {Key} \cup rest \in SUBSET Lines
    BY <1>1
  <2>3. QED
    BY <2>1, <2>2
<1>3. CASE /\ \E some \in SUBSET (keys[User] \cup seen \cup {Key}) :
                (moved \/ keys[User] \cap seen \subseteq some) /\ Rewrite(some)
           /\ hpc' = "fail"
  <2>1. PICK some \in SUBSET (keys[User] \cup seen \cup {Key}) :
               (moved \/ keys[User] \cap seen \subseteq some) /\ Rewrite(some)
    BY <1>3
  <2>2. some \in SUBSET Lines
    BY <1>1
  <2>3. QED
    BY <1>3, <2>1, <2>2
<1>4. QED
  BY <1>2, <1>3 DEF WriteKeys, Fail, Goto

(* The steps that leave the files and the accounts alone. *)
LEMMA HomeKept ==
  ASSUME [Next]_vars
  PROVE  \/ UNCHANGED homeVars
         \/ CreateUser \/ MakeSshFolder \/ CreateKeysFile
         \/ WriteKeys \/ ChownDir \/ ChownFile
         \/ \E u \in Users : Edit(u)
<1>1. CASE Get \/ Parse \/ ValidateUser \/ Exist \/ LookupUser \/ StatSshFolder
           \/ StatKeysFile \/ ReadKeys \/ OpenKeys
  BY <1>1 DEF Get, Parse, ValidateUser, Exist, LookupUser, Panic, StatSshFolder,
       StatKeysFile, ReadKeys, OpenKeys
<1>2. CASE Respond \/ Crash \/ (\E v \in Values : Post(v)) \/ UNCHANGED vars
  BY <1>2 DEF Respond, Crash, Post, vars, homeVars, fileVars
<1>3. QED
  BY <1>1, <1>2 DEF Next, Handler, Environment

(* What a file had before it was rewritten it has, or has known losses. *)
LEMMA HasRewritten ==
  ASSUME TypeOK, User \in Users, NEW new \in SUBSET Lines, Rewrite(new),
         NEW u \in Users, NEW k \in Lines, Has(u, k)
  PROVE  Has(u, k)'
<1>1. keys' = [keys EXCEPT ![User] = new] /\ keys \in [Users -> SUBSET Lines]
  BY DEF Rewrite, TypeOK
<1>2. CASE u # User
  BY <1>1, <1>2 DEF Has, Rewrite
<1>3. CASE u = User /\ k \in new
  BY <1>1, <1>3 DEF Has
<1>4. CASE u = User /\ k \notin new /\ k \in keys[User]
  <2>1. <<u, k>> \in {User} \X (keys[User] \ new)
    BY <1>4
  <2>2. <<u, k>> \in gone' \cup cut'
    BY <1>4, <2>1 DEF Rewrite
  <2>3. QED
    BY <2>2 DEF Has
<1>5. CASE u = User /\ k \notin new /\ <<u, k>> \in gone \cup cut
  BY <1>5 DEF Has, Rewrite
<1>6. QED
  BY <1>2, <1>3, <1>4, <1>5 DEF Has

(* What is installed stays so. *)
LEMMA HasKept ==
  ASSUME TypeOK, [Next]_vars, NEW u \in Users, NEW k \in Lines, Has(u, k)
  PROVE  Has(u, k)'
<1> USE DEF homeVars, fileVars
<1>1. CASE UNCHANGED homeVars
  BY <1>1 DEF Has
<1>2. CASE CreateUser \/ MakeSshFolder \/ ChownDir \/ ChownFile
  <2>1. UNCHANGED <<keys, gone, cut>>
    BY <1>2 DEF CreateUser, MakeSshFolder, ChownDir, ChownFile
  <2>2. QED
    BY <2>1 DEF Has
<1>3. CASE CreateKeysFile
  <2>1. User \in Users
    BY <1>3, AtUser DEF CreateKeysFile, AtEntry
  <2>2. CASE Rewrite({})
    BY <2>1, <2>2, HasRewritten
  <2>3. CASE UNCHANGED <<keys, gone, cut>>
    BY <2>3 DEF Has
  <2>4. QED
    BY <1>3, <2>2, <2>3 DEF CreateKeysFile
<1>4. CASE WriteKeys
  <2>1. User \in Users
    BY <1>4, AtUser DEF WriteKeys, AtEntry
  <2>2. QED
    BY <1>4, <2>1, Rewritten, HasRewritten
<1>5. CASE \E w \in Users : Edit(w)
  <2>1. PICK w \in Users : Edit(w)
    BY <1>5
  <2>2. QED
    BY <2>1 DEF Edit, Has, TypeOK
<1>6. QED
  BY <1>1, <1>2, <1>3, <1>4, <1>5, HomeKept

LEMMA OwnersKept ==
  ASSUME TypeOK, [Next]_vars, NEW u \in Users
  PROVE  /\ u \in accounts => u \in accounts'
         /\ dir[u] = "user" => dir'[u] = "user"
         /\ file[u] = "user" => file'[u] = "user"
<1> USE DEF homeVars, fileVars
<1>1. CASE UNCHANGED homeVars
  BY <1>1
<1>2. CASE CreateUser
  BY <1>2 DEF CreateUser
<1>3. CASE MakeSshFolder
  BY <1>3 DEF MakeSshFolder, TypeOK
<1>4. CASE CreateKeysFile
  BY <1>4 DEF CreateKeysFile, TypeOK
<1>5. CASE ChownDir
  BY <1>5 DEF ChownDir, TypeOK
<1>6. CASE ChownFile
  BY <1>6 DEF ChownFile, TypeOK
<1>7. CASE WriteKeys \/ \E w \in Users : Edit(w)
  BY <1>7 DEF WriteKeys, Edit, TypeOK
<1>8. QED
  BY <1>1, <1>2, <1>3, <1>4, <1>5, <1>6, <1>7, HomeKept

LEMMA InstalledKept ==
  ASSUME TypeOK, [Next]_vars, NEW u \in Users, NEW k \in Lines, Installed(u, k)
  PROVE  Installed(u, k)'
  BY HasKept, OwnersKept DEF Installed, Has

-----------------------------------------------------------------------------
(* A step at an entry that stays at it. *)
LEMMA EarlierKept ==
  ASSUME TypeOK, Earlier, [Next]_vars, cur # 0, cur' = cur, i' = i,
         hpc \in AtEntry \cup {"succeed"}, hpc' = "succeed" => hpc = "succeed"
  PROVE  Earlier'
<1>1. Value' = Value
  BY SameValue
<1>2. ASSUME NEW n \in 1..Len(Entries[Value]), n < i \/ hpc = "succeed"
      PROVE  Installed(Entries[Value][n][1], Entries[Value][n][2])'
  <2>1. Entries[Value][n] \in Users \X Lines
    BY InHand, ElementOfSeq
  <2>2. PICK u \in Users, k \in Lines : Entries[Value][n] = <<u, k>>
    BY <2>1
  <2>3. Installed(u, k)
    BY <1>2, <2>2 DEF Earlier
  <2>4. Installed(u, k)'
    BY <2>3, InstalledKept
  <2>5. Entries[Value'][n] = <<u, k>>
    BY <1>1, <2>2
  <2>6. QED
    BY <2>4, <2>5, <1>1 DEF Installed
<1>3. QED
  BY <1>1, <1>2 DEF Earlier

LEMMA EarlierStep == TypeOK /\ Halfway /\ Earlier /\ [Next]_vars => Earlier'
<1> SUFFICES ASSUME TypeOK, Halfway, Earlier, [Next]_vars PROVE Earlier'
  OBVIOUS
<1> USE DEF Goto, Fail, Return, processVars, sightVars, fileVars,
            homeVars, AtNext
<1>1. CASE Get \/ Respond \/ Crash
  BY <1>1 DEF Get, Respond, Crash, Earlier, AtEntry
<1>2. CASE Parse
  <2>1. /\ hpc' \notin AtEntry \cup {"succeed"} \/ (cur' = cur /\ cur # 0 /\ i' = 1)
        /\ hpc' = "succeed" => ~ (1 <= Len(Entries[Value]))
    BY <1>2 DEF Parse, Skip, AtEntry, TypeOK
  <2>2. CASE hpc' \in AtEntry \cup {"succeed"}
    <3>1. Value' = Value /\ Len(Entries[Value]) \in Nat
      BY <2>1, <2>2, SameValue, InHand
    <3>2. QED
      BY <2>1, <2>2, <3>1 DEF Earlier
  <2>3. QED
    BY <2>2 DEF Earlier
<1>3. CASE \/ ValidateUser \/ Exist \/ CreateUser \/ LookupUser
           \/ StatSshFolder \/ MakeSshFolder \/ StatKeysFile \/ CreateKeysFile
           \/ ReadKeys \/ OpenKeys \/ WriteKeys \/ ChownDir
  <2>1. hpc \in AtEntry
    BY <1>3 DEF ValidateUser, Exist, CreateUser, LookupUser, StatSshFolder, MakeSshFolder,
         StatKeysFile, CreateKeysFile, ReadKeys, OpenKeys, WriteKeys, ChownDir, AtEntry
  <2>2. CASE hpc' \notin AtEntry \cup {"succeed"}
    BY <2>2 DEF Earlier
  <2>3. CASE hpc' \in AtEntry \cup {"succeed"}
    <3>1. cur' = cur /\ i' = i /\ hpc' # "succeed"
      BY <1>3, <2>3 DEF ValidateUser, Exist, CreateUser, LookupUser, Panic, AtEntry,
           StatSshFolder, MakeSshFolder, StatKeysFile, CreateKeysFile, ReadKeys, OpenKeys,
           WriteKeys, ChownDir
    <3>2. cur # 0
      BY <2>1, AtUser
    <3>3. QED
      BY <2>1, <3>1, <3>2, EarlierKept
  <2>4. QED
    BY <2>2, <2>3
<1>4. CASE ChownFile
  <2>1. hpc = "chownFile" /\ hpc \in AtEntry /\ cur # 0
    BY <1>4, AtUser DEF ChownFile, AtEntry
  <2>2. CASE hpc' = "fail"
    BY <2>2 DEF Earlier, AtEntry
  <2>3. CASE hpc' # "fail"
    <3>1. /\ i' = i + 1 /\ cur' = cur /\ file' = [file EXCEPT ![User] = "user"]
          /\ UNCHANGED <<accounts, dir, keys, gone, cut>>
          /\ hpc' = "succeed" => ~ (i + 1 <= Len(Entries[Value]))
      BY <1>4, <2>3 DEF ChownFile
    <3>2. /\ Value' = Value /\ Len(Entries[Value]) \in Nat /\ i \in 1..Len(Entries[Value])
          /\ User \in Users /\ Key \in Lines /\ Entries[Value][i] = <<User, Key>>
      BY <2>1, <3>1, SameValue, InHand, AtUser
    <3>3. ASSUME NEW n \in 1..Len(Entries[Value]), n < i + 1
          PROVE  Installed(Entries[Value][n][1], Entries[Value][n][2])'
      <4>1. PICK u \in Users, k \in Lines : Entries[Value][n] = <<u, k>>
        BY <2>1, InHand, ElementOfSeq
      <4>2. Installed(u, k)'
        <5>1. CASE n < i
          BY <2>1, <4>1, <5>1, InstalledKept DEF Earlier
        <5>2. CASE n = i
          <6>1. u = User /\ k = Key
            BY <3>2, <4>1, <5>2
          <6>2. u \in accounts' /\ (k \in keys'[u] \/ <<u, k>> \in gone' \cup cut')
                /\ dir'[u] = "user" /\ file'[u] = "user"
            BY <2>1, <3>1, <3>2, <6>1 DEF Halfway, HaveAccount, Has, TypeOK
          <6>3. QED
            BY <6>2 DEF Installed
        <5>3. QED
          BY <3>2, <3>3, <5>1, <5>2, Numbers
      <4>3. QED
        BY <3>2, <4>1, <4>2 DEF Installed
    <3>4. QED
      BY <3>1, <3>2, <3>3, Numbers DEF Earlier
  <2>4. QED
    BY <2>2, <2>3
<1>5. CASE (\E v \in Values : Post(v)) \/ (\E u \in Users : Edit(u)) \/ UNCHANGED vars
  <2>1. UNCHANGED <<hpc, cur, i>>
    BY <1>5 DEF Post, Edit, vars
  <2>2. CASE hpc \in AtEntry \cup {"succeed"}
    BY <2>1, <2>2, EarlierKept DEF TypeOK, AtEntry
  <2>3. QED
    BY <2>1, <2>2 DEF Earlier
<1>6. QED
  BY <1>1, <1>2, <1>3, <1>4, <1>5 DEF Next, Handler, Environment

(* What has been done for the entry at hand. *)
LEMMA HalfwayStep == TypeOK /\ Halfway /\ [Next]_vars => Halfway'
<1> SUFFICES ASSUME TypeOK, Halfway, [Next]_vars PROVE Halfway'
  OBVIOUS
<1> USE DEF Goto, Fail, Return, processVars, sightVars, fileVars,
            homeVars, AtNext
<1>s. ASSUME hpc \in AtEntry, cur' = cur, i' = i
      PROVE  /\ User' = User /\ Key' = Key /\ User \in Users /\ Key \in Lines
             /\ User \in accounts => User \in accounts'
             /\ Has(User, Key) => Has(User, Key)'
             /\ dir[User] = "user" => dir'[User] = "user"
  <2>1. User \in Users /\ Key \in Lines /\ Value' = Value
    BY <1>s, AtUser, SameValue
  <2>2. User' = User /\ Key' = Key
    BY <1>s, <2>1 DEF User, Key
  <2>3. \A u \in Users, k \in Lines :
          Has(u, k) => k \in keys'[u] \/ <<u, k>> \in gone' \cup cut'
    BY HasKept DEF Has
  <2>4. Has(User, Key) => Has(User, Key)'
    BY <2>1, <2>2, <2>3 DEF Has
  <2>5. QED
    BY <2>1, <2>2, <2>4, OwnersKept
<1>1. CASE hpc' \notin HaveAccount
  BY <1>1 DEF Halfway, HaveAccount
<1>2. CASE Get \/ Parse \/ Respond \/ Crash \/ ValidateUser \/ Exist \/ CreateUser
           \/ ChownFile
  BY <1>1, <1>2 DEF Get, Parse, Skip, Respond, Crash, ValidateUser, Exist, CreateUser,
       ChownFile, HaveAccount
<1>3. CASE LookupUser
  <2>1. CASE hpc' = "dir"
    BY <1>3, <1>s, <2>1 DEF LookupUser, Panic, AtEntry, Halfway
  <2>2. QED
    BY <1>1, <1>3, <2>1 DEF LookupUser, Panic, HaveAccount
<1>4. CASE StatSshFolder \/ MakeSshFolder \/ StatKeysFile \/ CreateKeysFile
           \/ ReadKeys \/ OpenKeys
  <2>1. CASE hpc' \in {"mkdir", "file", "createFile", "read", "open", "write", "chownDir"}
    <3>1. /\ cur' = cur /\ i' = i /\ hpc \in AtEntry /\ hpc \in HaveAccount
          /\ hpc' = "chownDir" => Key \in keys[User]
      BY <1>4, <2>1 DEF StatSshFolder, MakeSshFolder, Panic, StatKeysFile,
           CreateKeysFile, ReadKeys, OpenKeys, AtEntry, HaveAccount, TypeOK
    <3>2. hpc' = "chownDir" => Has(User, Key)
      BY <3>1 DEF Has
    <3>3. QED
      BY <1>s, <2>1, <3>1, <3>2 DEF Halfway
  <2>2. QED
    BY <1>1, <1>4, <2>1
       DEF StatSshFolder, MakeSshFolder, Panic, StatKeysFile, CreateKeysFile, ReadKeys,
           OpenKeys, HaveAccount
<1>5. CASE WriteKeys
  <2>1. CASE hpc' = "chownDir"
    <3>1. cur' = cur /\ i' = i /\ hpc \in AtEntry /\ hpc \in HaveAccount
      BY <1>5, <2>1 DEF WriteKeys, AtEntry, HaveAccount
    <3>2. User' = User /\ Key' = Key /\ User \in Users /\ User \in accounts'
      BY <1>s, <3>1 DEF Halfway
    <3>3. PICK new \in SUBSET Lines : Rewrite(new) /\ Key \in new
      BY <1>5, <2>1, Rewritten
    <3>4. Key \in keys'[User]
      BY <3>2, <3>3 DEF Rewrite, TypeOK
    <3>5. Has(User, Key)'
      BY <3>2, <3>4 DEF Has
    <3>6. QED
      BY <2>1, <3>2, <3>5 DEF Halfway
  <2>2. QED
    BY <1>1, <1>5, <2>1 DEF WriteKeys, HaveAccount
<1>6. CASE ChownDir
  <2>1. CASE hpc' = "chownFile"
    <3>1. cur' = cur /\ i' = i /\ hpc = "chownDir" /\ dir' = [dir EXCEPT ![User] = "user"]
      BY <1>6, <2>1 DEF ChownDir
    <3>2. QED
      BY <1>s, <2>1, <3>1 DEF Halfway, HaveAccount, AtEntry, TypeOK
  <2>2. QED
    BY <1>1, <1>6, <2>1 DEF ChownDir, HaveAccount
<1>7. CASE (\E v \in Values : Post(v)) \/ (\E u \in Users : Edit(u)) \/ UNCHANGED vars
  <2>1. UNCHANGED <<hpc, cur, i>>
    BY <1>7 DEF Post, Edit, vars
  <2>2. CASE hpc \in HaveAccount
    BY <1>s, <2>1, <2>2 DEF Halfway, HaveAccount, AtEntry
  <2>3. QED
    BY <1>1, <2>1, <2>2
<1>8. QED
  BY <1>2, <1>3, <1>4, <1>5, <1>6, <1>7 DEF Next, Handler, Environment

-----------------------------------------------------------------------------
(* Only Respond answers. *)
LEMMA Answered ==
  ASSUME [Next]_vars
  PROVE  (UNCHANGED answers /\ last' \in {last, {}}) \/ Respond
<1> USE DEF Goto, Fail, Return, Skip, Panic, processVars, sightVars
<1>1. CASE Get \/ Parse \/ ValidateUser \/ Exist \/ CreateUser \/ LookupUser
  BY <1>1 DEF Get, Parse, ValidateUser, Exist, CreateUser, LookupUser
<1>2. CASE StatSshFolder \/ MakeSshFolder \/ StatKeysFile \/ CreateKeysFile
           \/ ReadKeys \/ OpenKeys
  BY <1>2 DEF StatSshFolder, MakeSshFolder, StatKeysFile, CreateKeysFile, ReadKeys,
       OpenKeys
<1>3. CASE WriteKeys \/ ChownDir \/ ChownFile
  BY <1>3 DEF WriteKeys, ChownDir, ChownFile
<1>4. CASE Crash \/ (\E v \in Values : Post(v)) \/ (\E u \in Users : Edit(u))
           \/ UNCHANGED vars
  BY <1>4 DEF Crash, Post, Edit, vars
<1>5. QED
  BY <1>1, <1>2, <1>3, <1>4 DEF Next, Handler, Environment

AnswersInv == AnswersPosted /\ SuccessTrue /\ RememberedAnswered

LEMMA AnswersStep == HInv /\ [Next]_vars => AnswersInv'
<1> SUFFICES ASSUME HInv, [Next]_vars PROVE AnswersInv'
  OBVIOUS
<1>a. TypeOK /\ Earlier /\ AnswersInv
  BY DEF HInv, AnswersInv
<1>n. /\ Len(posts) \in Nat /\ Len(posts') \in Nat /\ Len(posts) <= Len(posts')
      /\ \A n \in 1..Len(posts) : posts'[n] = posts[n] /\ posts[n] \in Values
  BY <1>a, Prefix, Numbers, ElementOfSeq
<1>1. CASE Respond
  <2>1. /\ hpc \in {"succeed", "fail"} /\ cur # 0 /\ cur \in 1..Len(posts)
        /\ UNCHANGED <<posts, accounts, dir, file, keys, gone, cut>>
    BY <1>1, <1>a, InHand DEF Respond, TypeOK, homeVars, fileVars
  <2>2. \/ /\ answers' = answers \cup {[post |-> cur, ok |-> hpc = "succeed"]}
           /\ last' = {Value}
        \/ UNCHANGED <<answers, last>>
    BY <1>1 DEF Respond
  <2>3. AnswersPosted'
    BY <1>a, <2>1, <2>2 DEF AnswersInv, AnswersPosted
  <2>4. SuccessTrue'
    <3>1. ASSUME NEW a \in answers', a.ok, NEW p \in Told(a)
          PROVE  Installed(p[1], p[2])
      <4>1. CASE a \in answers
        BY <1>a, <3>1, <4>1 DEF AnswersInv, SuccessTrue
      <4>2. CASE a = [post |-> cur, ok |-> hpc = "succeed"]
        <5>1. hpc = "succeed" /\ p \in {Entries[Value][n] : n \in 1..Len(Entries[Value])}
          BY <3>1, <4>2 DEF Told, Value
        <5>2. QED
          BY <1>a, <5>1 DEF Earlier
      <4>3. QED
        BY <2>2, <3>1, <4>1, <4>2
    <3>2. QED
      BY <2>1, <3>1 DEF SuccessTrue, Installed, Told
  <2>5. RememberedAnswered'
    <3>1. CASE UNCHANGED <<answers, last>>
      BY <1>a, <2>1, <3>1 DEF AnswersInv, RememberedAnswered
    <3>2. CASE /\ answers' = answers \cup {[post |-> cur, ok |-> hpc = "succeed"]}
               /\ last' = {Value}
      <4>1. [post |-> cur, ok |-> hpc = "succeed"] \in answers' /\ posts'[cur] = Value
        BY <2>1, <3>2 DEF Value
      <4>2. \E a \in answers' : posts'[a.post] = Value
        BY <4>1
      <4>3. QED
        BY <3>2, <4>2 DEF RememberedAnswered
    <3>3. QED
      BY <2>2, <3>1, <3>2
  <2>6. QED
    BY <2>3, <2>4, <2>5 DEF AnswersInv
<1>2. CASE UNCHANGED answers /\ last' \in {last, {}}
  <2>1. \A a \in answers : a.post \in 1..Len(posts) /\ posts'[a.post] = posts[a.post]
                           /\ posts[a.post] \in Values
    BY <1>a, <1>n DEF AnswersInv, AnswersPosted
  <2>2. AnswersPosted' /\ RememberedAnswered'
    BY <1>2, <1>a, <1>n, <2>1 DEF AnswersInv, AnswersPosted, RememberedAnswered
  <2>3. SuccessTrue'
    <3>1. ASSUME NEW a \in answers, a.ok, NEW n \in 1..Len(Entries[posts[a.post]])
          PROVE  Installed(Entries[posts[a.post]][n][1], Entries[posts[a.post]][n][2])
                 /\ Entries[posts[a.post]][n] \in Users \X Lines
      BY <1>a, <2>1, <3>1, SshKeysAssumption, ElementOfSeq
         DEF AnswersInv, SuccessTrue, Told
    <3>2. ASSUME NEW u \in Users, NEW k \in Lines, Installed(u, k) PROVE Installed(u, k)'
      BY <1>a, <3>2, InstalledKept
    <3>3. ASSUME NEW a \in answers', a.ok, NEW p \in Told(a)'
          PROVE  Installed(p[1], p[2])'
      <4>1. PICK n \in 1..Len(Entries[posts[a.post]]) : p = Entries[posts[a.post]][n]
        BY <1>2, <2>1, <3>3 DEF Told
      <4>2. PICK u \in Users, k \in Lines : p = <<u, k>>
        BY <1>2, <3>1, <3>3, <4>1
      <4>3. Installed(u, k)
        <5>1. Installed(Entries[posts[a.post]][n][1], Entries[posts[a.post]][n][2])
          BY <1>2, <3>1, <3>3, <4>1
        <5>2. Entries[posts[a.post]][n][1] = u /\ Entries[posts[a.post]][n][2] = k
          BY <4>1, <4>2
        <5>3. QED
          BY <5>1, <5>2 DEF Installed
      <4>4. Installed(u, k)'
        BY <3>2, <4>3
      <4>5. QED
        BY <4>2, <4>4 DEF Installed
    <3>4. QED
      BY <3>3 DEF SuccessTrue
  <2>4. QED
    BY <2>2, <2>3 DEF AnswersInv
<1>3. QED
  BY <1>1, <1>2, Answered

-----------------------------------------------------------------------------
LEMMA AskedStep == HInv /\ [Next]_vars => OnlyAsked' /\ SeenAsked'
<1> SUFFICES ASSUME HInv, [Next]_vars PROVE OnlyAsked' /\ SeenAsked'
  OBVIOUS
<1>a. TypeOK /\ OnlyAsked /\ SeenAsked
  BY DEF HInv
<1>g. Asked \subseteq Asked'
  BY <1>a, AskedGrows
<1> USE DEF Goto, Fail, Return, Skip, Panic, processVars, sightVars, fileVars,
            homeVars
<1>1. \A u \in Users : \A k \in keys'[u] \ OwnKeys : k \in keys[u] \/ <<u, k>> \in Asked
  <2>1. CASE WriteKeys
    <3>1. PICK new \in SUBSET Lines :
                 Rewrite(new) /\ new \subseteq keys[User] \cup seen \cup {Key}
      BY <1>a, <2>1, Rewritten
    <3>2. <<User, Key>> \in Asked /\ \A k \in seen \ OwnKeys : <<User, k>> \in Asked
      BY <1>a, <2>1, KeyAsked DEF WriteKeys, AtEntry, SeenAsked
    <3>3. keys' = [keys EXCEPT ![User] = new] /\ keys \in [Users -> SUBSET Lines]
      BY <1>a, <3>1 DEF Rewrite, TypeOK
    <3>4. ASSUME NEW u \in Users, NEW k \in keys'[u] \ OwnKeys, k \notin keys[u]
          PROVE  <<u, k>> \in Asked
      <4>1. u = User /\ k \in new
        BY <3>3, <3>4
      <4>2. k = Key \/ k \in seen \ OwnKeys
        BY <3>1, <3>4, <4>1
      <4>3. QED
        BY <3>2, <4>1, <4>2
    <3>5. QED
      BY <3>4
  <2>2. CASE \E w \in Users : Edit(w)
    <3>1. PICK w \in Users : Edit(w)
      BY <2>2
    <3>2. \/ \E k \in OwnKeys : keys' = [keys EXCEPT ![w] = @ \cup {k}]
          \/ \E k \in keys[w] : keys' = [keys EXCEPT ![w] = @ \ {k}]
      BY <3>1 DEF Edit
    <3>3. QED
      BY <1>a, <3>2 DEF TypeOK
  <2>3. CASE CreateKeysFile
    BY <1>a, <2>3 DEF CreateKeysFile, Rewrite, TypeOK
  <2>4. CASE UNCHANGED keys
    BY <2>4
  <2>5. QED
    BY <2>1, <2>2, <2>3, <2>4, HomeKept
       DEF CreateUser, MakeSshFolder, ChownDir, ChownFile
<1>2. OnlyAsked'
  BY <1>a, <1>g, <1>1 DEF OnlyAsked
<1>3. ASSUME ReadKeys, hpc' = "open" PROVE SeenAsked'
  <2>1. User' = User /\ User \in Users /\ seen' \subseteq keys[User]
    BY <1>3, <1>a, AtUser, SameValue DEF ReadKeys, User, AtEntry
  <2>2. QED
    BY <1>a, <1>3, <1>g, <2>1 DEF OnlyAsked, SeenAsked
<1>4. ASSUME hpc \in {"open", "write"}, hpc' \in {"open", "write"},
             UNCHANGED <<cur, i, seen>>
      PROVE  SeenAsked'
  <2>1. User' = User
    BY <1>4, <1>a, AtUser, SameValue DEF User, AtEntry
  <2>2. QED
    BY <1>4, <1>a, <1>g, <2>1 DEF SeenAsked
<1>5. ASSUME hpc' \notin {"open", "write"} PROVE SeenAsked'
  BY <1>5 DEF SeenAsked
<1>6. hpc' \notin {"open", "write"} \/ (ReadKeys /\ hpc' = "open")
      \/ (/\ hpc \in {"open", "write"} /\ hpc' \in {"open", "write"}
          /\ UNCHANGED <<cur, i, seen>>)
  <2>1. CASE Get \/ Parse \/ ValidateUser \/ Exist \/ CreateUser \/ LookupUser \/ ChownFile
    BY <2>1 DEF Get, Parse, ValidateUser, Exist, CreateUser, LookupUser, ChownFile, AtNext
  <2>2. CASE StatSshFolder \/ MakeSshFolder \/ StatKeysFile \/ CreateKeysFile
             \/ ReadKeys \/ OpenKeys
    BY <2>2 DEF StatSshFolder, MakeSshFolder, StatKeysFile, CreateKeysFile, ReadKeys,
         OpenKeys
  <2>3. CASE WriteKeys \/ ChownDir \/ Respond \/ Crash
    BY <2>3 DEF WriteKeys, ChownDir, Respond, Crash
  <2>4. CASE (\E v \in Values : Post(v)) \/ (\E u \in Users : Edit(u)) \/ UNCHANGED vars
    BY <2>4 DEF Post, Edit, vars
  <2>5. QED
    BY <2>1, <2>2, <2>3, <2>4 DEF Next, Handler, Environment
<1>7. SeenAsked'
  BY <1>3, <1>4, <1>5, <1>6
<1>8. QED
  BY <1>2, <1>7

(* A step that leaves it at the same entry. *)
LEMMA SameUser ==
  ASSUME TypeOK, [Next]_vars, hpc \in AtEntry, UNCHANGED <<cur, i>>
  PROVE  User' = User /\ User \in Users
  BY AtUser, SameValue DEF User

(* How it comes to be about to create or write a file, and how it stays so. *)
LEMMA Arrives ==
  ASSUME TypeOK, [Next]_vars, hpc' \in {"createFile", "open", "write"}
  PROVE  /\ hpc \in AtEntry /\ UNCHANGED <<cur, i>>
         /\ \/ StatKeysFile /\ hpc' = "createFile"
            \/ ReadKeys /\ hpc' = "open"
            \/ OpenKeys /\ hpc' = "write"
            \/ UNCHANGED hpc /\ \E u \in Users : Edit(u)
            \/ UNCHANGED <<hpc, seen, moved, homeVars>>
<1> USE DEF Goto, Fail, Return, Skip, Panic, processVars, sightVars, AtNext, AtEntry
<1>1. CASE \/ Get \/ Parse \/ ValidateUser \/ Exist \/ CreateUser \/ LookupUser
           \/ StatSshFolder \/ MakeSshFolder \/ CreateKeysFile \/ WriteKeys
           \/ ChownDir \/ ChownFile \/ Respond \/ Crash
  BY <1>1 DEF Get, Parse, ValidateUser, Exist, CreateUser, LookupUser, StatSshFolder,
       MakeSshFolder, CreateKeysFile, WriteKeys, ChownDir, ChownFile, Respond, Crash
<1>2. CASE StatKeysFile \/ ReadKeys \/ OpenKeys
  BY <1>2 DEF StatKeysFile, ReadKeys, OpenKeys
<1>3. CASE (\E v \in Values : Post(v)) \/ (\E u \in Users : Edit(u)) \/ UNCHANGED vars
  BY <1>3 DEF Post, Edit, vars, homeVars, fileVars
<1>4. QED
  BY <1>1, <1>2, <1>3 DEF Next, Handler, Environment

LEMMA FoundStep == TypeOK /\ FileFound /\ [Next]_vars => FileFound'
<1> SUFFICES ASSUME TypeOK, FileFound, [Next]_vars PROVE FileFound'
  OBVIOUS
<1> USE DEF homeVars, fileVars
<1>1. ASSUME NEW u \in Users, file'[u] = "none" PROVE keys'[u] = {}
  <2>1. CASE UNCHANGED homeVars \/ CreateUser \/ MakeSshFolder \/ ChownDir
    BY <1>1, <2>1 DEF CreateUser, MakeSshFolder, ChownDir, FileFound
  <2>2. CASE ChownFile
    BY <1>1, <2>2 DEF ChownFile, FileFound, TypeOK
  <2>3. CASE CreateKeysFile
    <3>1. User \in Users /\ file \in [Users -> Owners] /\ keys \in [Users -> SUBSET Lines]
      BY <2>3, AtUser DEF CreateKeysFile, AtEntry, TypeOK
    <3>2. QED
      BY <1>1, <2>3, <3>1 DEF CreateKeysFile, Rewrite, FileFound
  <2>4. CASE WriteKeys
    <3>1. file' = file /\ u # User
      BY <1>1, <2>4 DEF WriteKeys, FileFound
    <3>2. QED
      BY <1>1, <2>4, <3>1, Rewritten DEF Rewrite, FileFound, TypeOK
  <2>5. CASE \E w \in Users : Edit(w)
    BY <1>1, <2>5 DEF Edit, FileFound, TypeOK
  <2>6. QED
    BY <2>1, <2>2, <2>3, <2>4, <2>5, HomeKept
<1>2. ASSUME hpc' = "createFile" PROVE moved' \/ keys'[User'] = {}
  <2>1. User' = User /\ User \in Users
    BY <1>2, Arrives, SameUser
  <2>2. CASE StatKeysFile
    BY <1>2, <2>1, <2>2 DEF StatKeysFile, FileFound, Goto
  <2>3. CASE hpc = "createFile" /\ \E u \in Users : Edit(u)
    BY <2>1, <2>3 DEF Edit, FileFound, TypeOK
  <2>4. CASE UNCHANGED <<hpc, seen, moved, homeVars>>
    BY <1>2, <2>1, <2>4 DEF FileFound
  <2>5. QED
    BY <1>2, <2>2, <2>3, <2>4, Arrives
<1>3. ASSUME hpc' \in {"open", "write"} PROVE file'[User'] # "none"
  <2>1. User' = User /\ User \in Users
    BY <1>3, Arrives, SameUser
  <2>2. CASE ReadKeys /\ hpc' = "open"
    BY <2>1, <2>2 DEF ReadKeys, Fail, Goto
  <2>3. CASE OpenKeys
    BY <2>1, <2>3 DEF OpenKeys, FileFound
  <2>4. CASE hpc \in {"open", "write"} /\ \E u \in Users : Edit(u)
    BY <2>1, <2>4 DEF Edit, FileFound, TypeOK
  <2>5. CASE UNCHANGED <<hpc, seen, moved, homeVars>>
    BY <1>3, <2>1, <2>5 DEF FileFound
  <2>6. QED
    BY <1>3, <2>2, <2>3, <2>4, <2>5, Arrives
<1>4. QED
  BY <1>1, <1>2, <1>3 DEF FileFound

LEMMA HInvAlways == Spec => []HInv
<1>1. HInv /\ [Next]_vars => HInv'
  BY TypeStep, HalfwayStep, EarlierStep, AnswersStep, AskedStep, FoundStep
     DEF HInv, AnswersInv
<1>2. QED
  BY HInvInit, <1>1, PTL DEF Spec

-----------------------------------------------------------------------------
(* The handler's variables keep their types, for any values and users. *)
THEOREM SshKeysTypeCorrect == Spec => []TypeOK
<1>1. HInv => TypeOK
  BY DEF HInv
<1>2. QED
  BY HInvAlways, <1>1, PTL

(* Keys that were told to be installed are, in files and directories that  *)
(* are their users', but for those that another program took, that were    *)
(* lost because it edited the file while the handler rewrote it, and that  *)
(* the handler's own scan of the file missed.                              *)
THEOREM SuccessTrueCorrect == Spec => []SuccessTrue
<1>1. HInv => SuccessTrue
  BY DEF HInv
<1>2. QED
  BY HInvAlways, <1>1, PTL

(* No user's file gains a key that was not posted for that user. *)
THEOREM OnlyAskedCorrect == Spec => []OnlyAsked
<1>1. HInv => OnlyAsked
  BY DEF HInv
<1>2. QED
  BY HInvAlways, <1>1, PTL

(* A value is skipped only after a response to it was written. *)
THEOREM RememberedAnsweredCorrect == Spec => []RememberedAnswered
<1>1. HInv => RememberedAnswered
  BY DEF HInv
<1>2. QED
  BY HInvAlways, <1>1, PTL

(* A line is lost only to an edit, to a call that an edit came before      *)
(* since the handler looked at the file, or to a scan that missed it: a    *)
(* file that nobody else makes or edits meanwhile loses no line that was   *)
(* read, whatever fails.                                                   *)
THEOREM LinesKeptCorrect == Spec => LinesKept
<1>1. TypeOK /\ FileFound /\ [Next]_vars => [NoneLost]_vars
  <2> SUFFICES ASSUME TypeOK, FileFound, [Next]_vars, edits' = edits,
                      NEW u \in Users, NEW k \in keys[u] \ keys'[u]
               PROVE  /\ u = User /\ hpc \in {"createFile", "write"}
                      /\ moved \/ (hpc = "write" /\ k \notin seen)
    BY DEF NoneLost
  <2>1. CASE WriteKeys
    <3>1. PICK new \in SUBSET Lines :
                 Rewrite(new) /\ (moved \/ keys[User] \cap seen \subseteq new)
      BY <2>1, Rewritten
    <3>2. u = User /\ k \notin new
      BY <3>1 DEF Rewrite, TypeOK
    <3>3. QED
      BY <2>1, <3>1, <3>2 DEF WriteKeys
  <2>2. CASE CreateKeysFile
    <3>1. u = User
      BY <2>2 DEF CreateKeysFile, Rewrite, TypeOK
    <3>2. QED
      BY <2>2, <3>1 DEF CreateKeysFile, FileFound
  <2>3. CASE \E w \in Users : Edit(w)
    BY <2>3, Numbers DEF Edit, TypeOK
  <2>4. CASE UNCHANGED keys
    BY <2>4
  <2>5. QED
    BY <2>1, <2>2, <2>3, <2>4, HomeKept
       DEF homeVars, fileVars, CreateUser, MakeSshFolder, ChownDir, ChownFile
<1>2. HInv => TypeOK /\ FileFound
  BY DEF HInv
<1>3. QED
  BY HInvAlways, <1>1, <1>2, PTL DEF Spec, LinesKept

-----------------------------------------------------------------------------
(* All lines of the file are in what was read, if no scan ends early. *)
AllSeen == hpc \in {"open", "write"} => moved \/ keys[User] \subseteq seen

(* If every scan reaches the end of the file, no line is lost that no edit *)
(* took or overlapped: a told key is there until an edit has come.         *)
Uncut == cut = {}

THEOREM UncutCorrect == ASSUME ~MayMisread PROVE Spec => []Uncut
<1>1. TypeOK /\ FileFound /\ AllSeen /\ Uncut /\ [Next]_vars => AllSeen'
  <2> SUFFICES ASSUME TypeOK, FileFound, AllSeen, [Next]_vars, hpc' \in {"open", "write"}
               PROVE  moved' \/ keys'[User'] \subseteq seen'
    BY DEF AllSeen
  <2>1. User' = User /\ User \in Users
    BY Arrives, SameUser
  <2>2. CASE ReadKeys /\ hpc' = "open"
    BY <2>1, <2>2 DEF ReadKeys, Fail, Goto, homeVars, fileVars
  <2>3. CASE OpenKeys /\ hpc' = "write"
    BY <2>1, <2>3 DEF OpenKeys, Fail, Goto, AllSeen, homeVars, fileVars, sightVars
  <2>4. CASE hpc \in {"open", "write"} /\ \E u \in Users : Edit(u)
    BY <2>1, <2>4 DEF Edit, AllSeen, TypeOK
  <2>5. CASE UNCHANGED <<hpc, seen, moved, homeVars>>
    BY <2>1, <2>5 DEF AllSeen, homeVars, fileVars
  <2>6. QED
    BY <2>2, <2>3, <2>4, <2>5, Arrives
<1>2. TypeOK /\ FileFound /\ AllSeen /\ Uncut /\ [Next]_vars => Uncut'
  <2> SUFFICES ASSUME TypeOK, FileFound, AllSeen, cut = {}, [Next]_vars PROVE cut' = {}
    BY DEF Uncut
  <2>1. CASE WriteKeys
    <3>1. PICK new \in SUBSET Lines :
                 Rewrite(new) /\ (moved \/ keys[User] \cap seen \subseteq new)
      BY <2>1, Rewritten
    <3>2. moved \/ keys[User] \ new = {}
      BY <2>1, <3>1 DEF WriteKeys, AllSeen
    <3>3. QED
      BY <3>1, <3>2 DEF Rewrite
  <2>2. CASE CreateKeysFile
    BY <2>2 DEF CreateKeysFile, Rewrite, FileFound
  <2>3. CASE \E w \in Users : Edit(w)
    BY <2>3 DEF Edit
  <2>4. CASE UNCHANGED cut
    BY <2>4
  <2>5. QED
    BY <2>1, <2>2, <2>3, <2>4, HomeKept
       DEF homeVars, fileVars, CreateUser, MakeSshFolder, ChownDir, ChownFile
<1>3. Init => AllSeen /\ Uncut
  BY DEF Init, AllSeen, Uncut
<1>4. HInv => TypeOK /\ FileFound
  BY DEF HInv
<1>5. QED
  BY HInvAlways, <1>1, <1>2, <1>3, <1>4, PTL DEF Spec
=============================================================================
