---------------------------- MODULE SecretsProofs ----------------------------
(***************************************************************************)
(* What the secrets handlers have told of a file is true, for any values,  *)
(* files and secrets, any number of posts and restarts, whatever fails.    *)
(* The argument: the loop has no file behind it that does not hold what    *)
(* the value wants, and nothing is promised of the file it is writing.     *)
(***************************************************************************)
EXTENDS SecretsHandler, SequenceTheorems, TLAPS

(* The files the loop has behind it. *)
DoneFiles == Named(Value) \ (todo \cup at)

LoopDone ==
  hpc \in {"loop", "open", "copy", "succeed"} =>
    \A f \in DoneFiles : disk[f] = Wanted[Value][f]

AtNamed == cur # 0 => at \cup todo \subseteq Named(Value)

AtClear == hpc \notin {"open", "copy"} => at = {}

Unpromised == hpc = "copy" => \A f \in at : promised[f] = None

PInv == TypeOK /\ LoopDone /\ AtNamed /\ AtClear /\ Unpromised /\ PromisesKept

-----------------------------------------------------------------------------
(* What the handler has in hand is a value that names files. *)
LEMMA InHand ==
  ASSUME TypeOK, cur # 0
  PROVE  /\ cur \in 1..Len(posts) /\ cur \in 1..MaxPosts
         /\ Value \in Values
         /\ Named(Value) \subseteq Files
         /\ \A f \in Named(Value) : Wanted[Value][f] \in Secrets
<1>1. posts \in Seq(Values) /\ Len(posts) \in Nat /\ MaxPosts \in Nat
  BY SecretsAssumption, LenProperties DEF TypeOK
<1>2. cur \in 1..Len(posts) /\ cur \in 1..MaxPosts
  BY <1>1 DEF TypeOK
<1>3. Value \in Values
  BY <1>1, <1>2, ElementOfSeq DEF Value
<1>4. QED
  BY <1>2, <1>3, SecretsAssumption

LEMMA PInvInit == Init => PInv
<1> SUFFICES ASSUME Init PROVE PInv
  OBVIOUS
<1> USE DEF Init
<1>1. posts \in Seq(Values) /\ Len(posts) = 0
  BY EmptySeq
<1>2. MaxPosts \in Nat /\ MaxCrashes \in Nat
  BY SecretsAssumption
<1>3. disk \in [Files -> Secrets \cup {None, Torn}] /\ promised \in [Files -> Secrets \cup {None}]
  OBVIOUS
<1>4. TypeOK
  BY <1>1, <1>2, <1>3 DEF TypeOK
<1>5. LoopDone /\ AtNamed /\ AtClear /\ Unpromised /\ PromisesKept
  BY DEF LoopDone, AtNamed, AtClear, Unpromised, PromisesKept
<1>6. QED
  BY <1>4, <1>5 DEF PInv

-----------------------------------------------------------------------------
LEMMA TypeStep == PInv /\ [Next]_vars => TypeOK'
<1> SUFFICES ASSUME PInv, [Next]_vars PROVE TypeOK'
  OBVIOUS
<1>a. TypeOK
  BY DEF PInv
<1>n. Len(posts) \in Nat /\ MaxPosts \in Nat /\ MaxCrashes \in Nat
  BY <1>a, SecretsAssumption, LenProperties DEF TypeOK
<1> USE DEF Return, ReturnSilently, Goto, Leave, Fail, processVars
<1>1. CASE Get
  <2>1. Len(posts) # 0
    BY <1>a, <1>1, EmptySeq, LenProperties DEF Get, TypeOK
  <2>2. QED
    BY <1>a, <1>n, <1>1, <2>1 DEF Get, TypeOK
<1>2. CASE Parse
  <2>1. cur # 0
    BY <1>a, <1>2 DEF Parse, TypeOK
  <2>2. Named(Value) \subseteq Files
    BY <1>a, <2>1, InHand
  <2>3. todo' \subseteq Files /\ (hpc' \notin {"loop", "open", "copy"} => todo' = {})
    BY <1>a, <1>2, <2>2 DEF Parse, TypeOK
  <2>4. /\ hpc' \in {"poll", "loop", "fail"} /\ cur' \in {0, cur}
        /\ (hpc' = "poll") <=> (cur' = 0)
    BY <1>2, <2>1 DEF Parse
  <2>5. UNCHANGED <<kind, posts, last, answers, crashes, disk, promised>>
    BY <1>2 DEF Parse
  <2>6. at' \in {at, {}}
    BY <1>2 DEF Parse
  <2>7. QED
    BY <1>a, <1>n, <2>3, <2>4, <2>5, <2>6 DEF TypeOK
<1>3. CASE Fetch
  BY <1>a, <1>3 DEF Fetch, TypeOK
<1>4. CASE OpenFile
  BY <1>a, <1>4 DEF OpenFile, TypeOK
<1>5. CASE Copy
  <2>1. cur # 0
    BY <1>a, <1>5 DEF Copy, TypeOK
  <2>2. Written \in [Files -> Secrets \cup {None, Torn}]
    <3>1. \A f \in at : f \in Named(Value)
      BY <2>1 DEF PInv, AtNamed
    <3>2. QED
      BY <1>a, <2>1, InHand, <3>1 DEF Written, TypeOK
  <2>3. disk' \in {disk, Written}
    BY <1>5 DEF Copy
  <2>4. QED
    BY <1>a, <1>5, <2>2, <2>3 DEF Copy, TypeOK
<1>6. CASE Respond
  <2>1. cur # 0
    BY <1>a, <1>6 DEF Respond, TypeOK
  <2>2. Promising \in [Files -> Secrets \cup {None}]
    BY <1>a, <2>1, InHand DEF Promising, TypeOK
  <2>3. promised' \in {promised, Promising}
    BY <1>6 DEF Respond
  <2>4. last' \in {last, {Value}} /\ Value \in Values
    BY <1>a, <1>6, <2>1, InHand DEF Respond
  <2>5. answers' \subseteq answers \cup {[post |-> cur, ok |-> hpc = "succeed"]}
    BY <1>6 DEF Respond
  <2>6. [post |-> cur, ok |-> hpc = "succeed"] \in Response
    BY <1>a, <2>1, InHand DEF Response
  <2>7. QED
    BY <1>a, <1>n, <1>6, <2>2, <2>3, <2>4, <2>5, <2>6 DEF Respond, TypeOK
<1>7. CASE \E v \in Values : Post(v)
  <2>1. PICK v \in Values : Post(v)
    BY <1>7
  <2>2. posts' \in Seq(Values) /\ Len(posts') = Len(posts) + 1
    BY <1>a, <2>1, AppendProperties DEF Post, TypeOK
  <2>3. QED
    BY <1>a, <1>n, <2>1, <2>2 DEF Post, TypeOK
<1>8. CASE Crash
  <2>1. PICK lost \in SUBSET Files :
          /\ disk' = [f \in Files |-> IF f \in lost /\ disk[f] # None THEN Torn ELSE disk[f]]
          /\ promised' = [f \in Files |-> IF f \in lost THEN None ELSE promised[f]]
    BY <1>8 DEF Crash
  <2>2. QED
    BY <1>a, <1>n, <1>8, <2>1 DEF Crash, TypeOK
<1>9. CASE UNCHANGED vars
  BY <1>a, <1>9 DEF vars, TypeOK, Response
<1>10. QED
  BY <1>1, <1>2, <1>3, <1>4, <1>5, <1>6, <1>7, <1>8, <1>9 DEF Next, Handler

-----------------------------------------------------------------------------
(* The loop's files and the promises. *)
FilesInv == LoopDone /\ AtNamed /\ AtClear /\ Unpromised /\ PromisesKept

LEMMA FilesStep == PInv /\ [Next]_vars => FilesInv'
<1> SUFFICES ASSUME PInv, [Next]_vars PROVE FilesInv'
  OBVIOUS
<1>a. TypeOK /\ FilesInv
  BY DEF PInv, FilesInv
<1> USE DEF FilesInv, Return, ReturnSilently, Goto, Leave, Fail, processVars
<1>1. CASE Get
  <2>1. cur = 0 /\ todo = {} /\ at = {}
    BY <1>a, <1>1 DEF Get, TypeOK, AtClear
  <2>2. QED
    BY <1>a, <1>1, <2>1
       DEF Get, LoopDone, AtNamed, AtClear, Unpromised, PromisesKept
<1>2. CASE Parse
  <2>1. at = {} /\ hpc' \in {"poll", "loop", "fail"} /\ at' = {}
    BY <1>a, <1>2 DEF Parse, AtClear
  <2>2. /\ hpc' = "loop" => todo' = Named(Value) /\ Value' = Value /\ cur' = cur
        /\ hpc' # "loop" => todo' = {}
    BY <1>2 DEF Parse, Value
  <2>3. UNCHANGED <<disk, promised>>
    BY <1>2 DEF Parse
  <2>4. LoopDone'
    BY <2>1, <2>2 DEF LoopDone, DoneFiles, Named
  <2>5. AtNamed'
    BY <2>1, <2>2 DEF AtNamed, Named
  <2>6. QED
    BY <1>a, <2>1, <2>3, <2>4, <2>5 DEF AtClear, Unpromised, PromisesKept
<1>3. CASE Fetch
  BY <1>a, <1>3
     DEF Fetch, LoopDone, DoneFiles, AtNamed, AtClear, Unpromised, PromisesKept,
         Value, Named
<1>4. CASE OpenFile
  <2>1. cur # 0
    BY <1>a, <1>4 DEF OpenFile, TypeOK
  <2>2. Named(Value) \subseteq Files /\ UNCHANGED <<cur, posts>> /\ Value' = Value
    BY <1>a, <1>4, <2>1, InHand DEF OpenFile, Value
  <2>3. CASE hpc' = "fail"
    <3>1. UNCHANGED <<disk, promised>> /\ at' = {} /\ todo' = {}
      BY <1>4, <2>3 DEF OpenFile
    <3>2. QED
      BY <1>a, <2>3, <3>1 DEF LoopDone, AtNamed, AtClear, Unpromised, PromisesKept
  <2>4. CASE hpc' = "copy"
    <3>1. /\ disk' = [f \in Files |-> IF f \in at THEN Torn ELSE disk[f]]
          /\ promised' = [f \in Files |-> IF f \in at THEN None ELSE promised[f]]
          /\ UNCHANGED <<todo, at>> /\ hpc = "open"
      BY <1>4, <2>4 DEF OpenFile
    <3>2. LoopDone'
      BY <1>a, <2>2, <2>4, <3>1 DEF LoopDone, DoneFiles, Named
    <3>3. AtNamed' /\ AtClear'
      BY <1>a, <2>2, <2>4, <3>1 DEF AtNamed, AtClear, Named
    <3>4. Unpromised' /\ PromisesKept'
      BY <1>a, <2>1, <2>2, <3>1 DEF Unpromised, AtNamed, PromisesKept
    <3>5. QED
      BY <3>2, <3>3, <3>4
  <2>5. QED
    BY <1>4, <2>3, <2>4 DEF OpenFile
<1>5. CASE Copy
  <2>1. cur # 0
    BY <1>a, <1>5 DEF Copy, TypeOK
  <2>2. Named(Value) \subseteq Files /\ UNCHANGED <<cur, posts, promised>> /\ Value' = Value
    BY <1>a, <1>5, <2>1, InHand DEF Copy, Value
  <2>3. disk' = Written \/ (disk' = disk /\ hpc' = "fail")
    BY <1>5 DEF Copy
  <2>4. at' = {} /\ todo' \subseteq todo /\ (hpc' # "fail" => hpc' = "loop" /\ todo' = todo)
    BY <1>5 DEF Copy
  <2>5. LoopDone'
    <3>1. ASSUME hpc' = "loop", NEW f \in Named(Value) \ todo
          PROVE  disk'[f] = Wanted[Value][f]
      BY <1>a, <1>5, <2>2, <2>3, <3>1 DEF Copy, Written, LoopDone, DoneFiles
    <3>2. QED
      BY <2>2, <2>4, <3>1 DEF LoopDone, DoneFiles, Named
  <2>6. AtNamed' /\ AtClear' /\ Unpromised'
    BY <1>a, <1>5, <2>2, <2>4 DEF AtNamed, AtClear, Unpromised, Named
  <2>7. PromisesKept'
    BY <1>a, <1>5, <2>2, <2>3 DEF Copy, Written, PromisesKept, Unpromised
  <2>8. QED
    BY <2>5, <2>6, <2>7
<1>6. CASE Respond
  <2>1. cur # 0 /\ hpc' = "poll" /\ cur' = 0 /\ todo' = {} /\ at' = {} /\ disk' = disk
    BY <1>a, <1>6 DEF Respond, TypeOK
  <2>2. hpc = "succeed" => \A f \in Named(Value) : disk[f] = Wanted[Value][f]
    BY <1>a DEF TypeOK, LoopDone, DoneFiles, AtClear
  <2>3. promised' = promised \/ (hpc = "succeed" /\ promised' = Promising)
    BY <1>6 DEF Respond
  <2>4. PromisesKept'
    BY <1>a, <2>1, <2>2, <2>3 DEF PromisesKept, Promising
  <2>5. QED
    BY <2>1, <2>4 DEF LoopDone, AtNamed, AtClear, Unpromised
<1>7. CASE \E v \in Values : Post(v)
  <2>1. PICK v \in Values : Post(v)
    BY <1>7
  <2>2. cur # 0 => Value' = Value
    BY <1>a, <2>1, InHand, AppendProperties DEF Post, Value, TypeOK
  <2>3. hpc \in {"loop", "open", "copy", "succeed"} => cur # 0
    BY <1>a DEF TypeOK
  <2>4. QED
    BY <1>a, <2>1, <2>2, <2>3
       DEF Post, LoopDone, DoneFiles, AtNamed, AtClear, Unpromised, PromisesKept, Named
<1>8. CASE Crash
  <2>1. PICK lost \in SUBSET Files :
          /\ disk' = [f \in Files |-> IF f \in lost /\ disk[f] # None THEN Torn ELSE disk[f]]
          /\ promised' = [f \in Files |-> IF f \in lost THEN None ELSE promised[f]]
    BY <1>8 DEF Crash
  <2>2. PromisesKept'
    BY <1>a, <2>1 DEF PromisesKept, TypeOK
  <2>3. hpc' = "poll" /\ cur' = 0 /\ at' = {}
    BY <1>8 DEF Crash
  <2>4. QED
    BY <2>2, <2>3 DEF LoopDone, AtNamed, AtClear, Unpromised
<1>9. CASE UNCHANGED vars
  BY <1>a, <1>9
     DEF vars, LoopDone, DoneFiles, AtNamed, AtClear, Unpromised, PromisesKept,
         Value, Named
<1>10. QED
  BY <1>1, <1>2, <1>3, <1>4, <1>5, <1>6, <1>7, <1>8, <1>9 DEF Next, Handler

LEMMA PInvAlways == Spec => []PInv
<1>1. PInv /\ [Next]_vars => PInv'
  BY TypeStep, FilesStep DEF PInv, FilesInv
<1>2. QED
  BY PInvInit, <1>1, PTL DEF Spec

-----------------------------------------------------------------------------
(* The handlers' variables keep their types, for any values and files. *)
THEOREM SecretsTypeCorrect == Spec => []TypeOK
<1>1. PInv => TypeOK
  BY DEF PInv
<1>2. QED
  BY PInvAlways, <1>1, PTL

(* A response that says a secret is in its file is true until the file is  *)
(* opened again or lost with the machine, whatever fails in between.       *)
THEOREM PromisesKeptCorrect == Spec => []PromisesKept
<1>1. PInv => PromisesKept
  BY DEF PInv
<1>2. QED
  BY PInvAlways, <1>1, PTL
=============================================================================
