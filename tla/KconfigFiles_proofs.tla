------------------------ MODULE KconfigFiles_proofs -------------------------
(***************************************************************************)
(* What the files of KconfigFiles keep through errors and crashes, for     *)
(* every set of Kconfig files and every way user values give values.       *)
(***************************************************************************)
EXTENDS KconfigSaved, KconfigUser_proofs

(* A file is written where it belongs, and what is written of the header   *)
(* and of auto.conf is what they are for.                                  *)
JobOK ==
    /\ kc \in DOMAIN Kconfigs
    /\ at \in {"down", "idle", "open", "write", "sync", "touch", "synced"}
    /\ at \in {"open", "write"} => job.file \in {"config", "min", "header", "auto"}
    /\ DOMAIN files = Files
    /\ DOMAIN built = Sources

LEMMA JobInit == Init => JobOK
BY KconfigsAssumption DEF Init, JobOK, Files

LEMMA JobStep == JobOK /\ [Next]_vars => JobOK'
<1> SUFFICES ASSUME JobOK, [Next]_vars PROVE JobOK'
  OBVIOUS
<1> USE DEF JobOK
<1>1. CASE Edit
  BY <1>1 DEF Edit, history
<1>2. ASSUME NEW file, NEW replace, Load(file, replace) PROVE JobOK'
  BY <1>2 DEF Load, history
<1>3. CASE LoadConfig
  BY <1>2, <1>3 DEF LoadConfig
<1>4. CASE \E file \in K.fragments : MergeConfig(file)
  BY <1>2, <1>4 DEF MergeConfig
<1>5. ASSUME NEW file \in {"config", "min", "header", "auto"}, NEW contents,
             Write(file, contents)
      PROVE  /\ at' \in {"idle", "open", "sync", "synced"}
             /\ at' = "open" => job'.file = file
  BY <1>5 DEF Write, After
<1>6. ASSUME NEW how, WriteConfig(how) PROVE JobOK'
  <2>1. DOMAIN files' = Files
    BY <1>6 DEF WriteConfig, SaveOld
  <2> QED
    BY <1>5, <1>6, <2>1 DEF WriteConfig, memory
<1>7. CASE WriteMinConfig
  BY <1>5, <1>7 DEF WriteMinConfig, memory, history
<1>8. CASE WriteAutoconf
  BY <1>5, <1>8 DEF WriteAutoconf, memory, history
<1>9. CASE WriteOldVals
  BY <1>5, <1>9 DEF WriteOldVals, memory, history
<1>10. CASE SyncDeps
  BY <1>10 DEF SyncDeps, memory, history
<1>11. CASE \E s \in todo : Touch(s)
  BY <1>11 DEF Touch, memory, history
<1>12. CASE OpenForWriting
  BY <1>12 DEF OpenForWriting, memory, history
<1>13. CASE FinishWriting
  BY <1>13 DEF FinishWriting, memory, After
<1>14. CASE \E next \in K.failures : Fail(next)
  BY <1>14, KconfigsAssumption DEF Fail, K
<1>15. CASE \E n \in K.edited : Start(n)
  BY <1>15, KconfigsAssumption DEF Start, history, K
<1>16. CASE \E s \in K.sources : Compile(s)
  BY <1>16 DEF Compile, process, memory
<1>17. CASE BuildDone
  BY <1>17 DEF BuildDone, memory, history
<1>18. CASE UNCHANGED vars
  BY <1>18 DEF vars, process, memory, history
<1> QED
  BY <1>1, <1>3, <1>4, <1>6, <1>7, <1>8, <1>9, <1>10, <1>11, <1>12, <1>13, <1>14,
     <1>15, <1>16, <1>17, <1>18 DEF Next

-----------------------------------------------------------------------------
(* The backup.  Between saves .config is the last one saved whole; during  *)
(* the first save after that, and once it failed, .config.old is.          *)
BackupInv ==
    /\ saves \in 0..2
    /\ saved # Missing /\ saves = 0 => files["config"] = saved
    /\ saved # Missing /\ saves = 1 => files["old"] = saved
    /\ at \in {"open", "write"} /\ job.file = "config" => saves # 0

LEMMA BackupStep == JobOK /\ BackupInv /\ [Next]_vars => BackupInv'
<1> SUFFICES ASSUME JobOK, BackupInv, [Next]_vars PROVE BackupInv'
  OBVIOUS
<1> USE DEF JobOK, BackupInv
<1>1. CASE Edit
  BY <1>1 DEF Edit, history
<1>2. ASSUME NEW file, NEW replace, Load(file, replace) PROVE BackupInv'
  BY <1>2 DEF Load, history
<1>3. CASE LoadConfig
  BY <1>2, <1>3 DEF LoadConfig
<1>4. CASE \E file \in K.fragments : MergeConfig(file)
  BY <1>2, <1>4 DEF MergeConfig
<1>5. ASSUME NEW file \in {"config", "min", "header", "auto"}, NEW contents,
             Write(file, contents)
      PROVE  \/ at' = "open" /\ job'.file = file
             \/ at' \notin {"open", "write"}
  BY <1>5 DEF Write, After
<1>6. ASSUME NEW how, WriteConfig(how) PROVE BackupInv'
  <2>1. CASE files["config"] = Whole(ConfigContents)
    BY <1>6, <2>1 DEF WriteConfig, Write, After
  <2>2. CASE files["config"] # Whole(ConfigContents)
    <3>1. saves' = (IF saves = 0 /\ how # "fails" THEN 1 ELSE 2) /\ saved' = saved
      BY <1>6, <2>2 DEF WriteConfig
    <3>2. ASSUME saved # Missing, saves' = 1 PROVE files'["old"] = saved
      <4>1. saves = 0 /\ how # "fails" /\ files["config"] = saved
        BY <3>1, <3>2
      <4>2. files' = SaveOld(how)
        BY <1>6, <2>2 DEF WriteConfig
      <4> QED
        BY <3>2, <4>1, <4>2 DEF SaveOld, Files
    <3> QED
      BY <3>1, <3>2
  <2> QED
    BY <2>1, <2>2
<1>7. CASE WriteMinConfig
  BY <1>5, <1>7 DEF WriteMinConfig, memory, history
<1>8. CASE WriteAutoconf
  BY <1>5, <1>8 DEF WriteAutoconf, memory, history
<1>9. CASE WriteOldVals
  BY <1>5, <1>9 DEF WriteOldVals, memory, history
<1>10. CASE SyncDeps
  BY <1>10 DEF SyncDeps, memory, history
<1>11. CASE \E s \in todo : Touch(s)
  BY <1>11 DEF Touch, memory, history
<1>12. CASE OpenForWriting
  BY <1>12 DEF OpenForWriting, memory, history, Files
<1>13. CASE FinishWriting
  BY <1>13 DEF FinishWriting, memory, After, Files
<1>14. CASE \E next \in K.failures : Fail(next)
  <2>1. PICK next \in K.failures : Fail(next)
    BY <1>14
  <2>2. at' \in {"idle", "down"} /\ saved' = saved /\ saves' = saves
    BY <2>1, KconfigsAssumption DEF Fail, K
  <2>3. CASE at # "write"
    BY <2>1, <2>2, <2>3 DEF Fail
  <2>4. CASE at = "write"
    <3>1. PICK left : files' = [files EXCEPT ![job.file] = Whole(left)]
      BY <2>1, <2>4 DEF Fail
    <3> QED
      BY <2>2, <2>4, <3>1 DEF Files
  <2> QED
    BY <2>3, <2>4
<1>15. CASE \E n \in K.edited : Start(n)
  BY <1>15 DEF Start, history
<1>16. CASE \E s \in K.sources : Compile(s)
  BY <1>16 DEF Compile, process
<1>17. CASE BuildDone
  BY <1>17 DEF BuildDone, memory, history
<1>18. CASE UNCHANGED vars
  BY <1>18 DEF vars, process, history
<1> QED
  BY <1>1, <1>3, <1>4, <1>6, <1>7, <1>8, <1>9, <1>10, <1>11, <1>12, <1>13, <1>14,
     <1>15, <1>16, <1>17, <1>18 DEF Next

(* Wherever the save that follows a whole one stops, the whole one is on   *)
(* disk, as .config or as .config.old.                                     *)
THEOREM BackupKept == Spec => []BackupSurvives
<1>1. Init => JobOK /\ BackupInv
  BY JobInit DEF Init, BackupInv
<1>2. JobOK /\ BackupInv /\ [Next]_vars => JobOK' /\ BackupInv'
  BY JobStep, BackupStep
<1>3. BackupInv => BackupSurvives
  BY DEF BackupInv, BackupSurvives
<1> QED
  BY <1>1, <1>2, <1>3, PTL DEF Spec
-----------------------------------------------------------------------------
(* What is left of type correctness: the shape of the user values.         *)
LEMMA NoUserShape == \A k : DOMAIN NoUser(k) = UserEntries(k)
BY DEF NoUser

LEMMA EditsShape ==
    ASSUME NEW k, NEW u, DOMAIN u = UserEntries(k), NEW v \in Edits(k, u)
    PROVE  DOMAIN v = UserEntries(k)
<1>1. \A s, x : DOMAIN Assigned(k, u, s, x) = UserEntries(k)
  BY DEF Assigned
<1>2. CASE \E s \in k.syms : v \in {Assigned(k, u, s, x) : x \in k.inputs[s]}
  BY <1>1, <1>2
<1>3. CASE \E s \in k.syms : v = [u EXCEPT ![<<"user", s>>] = Unset]
  BY <1>3
<1>4. CASE \E c \in k.choices : v \in {[u EXCEPT ![<<"mode", c>>] = x] : x \in k.inputs[c]}
  BY <1>4
<1>5. CASE \E c \in k.choices :
              v = [u EXCEPT ![<<"mode", c>>] = Unset, ![<<"pick", c>>] = NoItem]
  BY <1>5
<1>6. CASE v = NoUser(k)
  BY <1>6, NoUserShape
<1>7. \/ \E S \in {{Assigned(k, u, s, x) : x \in k.inputs[s]} : s \in k.syms} : v \in S
      \/ v \in {[u EXCEPT ![<<"user", s>>] = Unset] : s \in k.syms}
      \/ \E S \in {{[u EXCEPT ![<<"mode", c>>] = x] : x \in k.inputs[c]} :
                      c \in k.choices} : v \in S
      \/ v \in {[u EXCEPT ![<<"mode", c>>] = Unset, ![<<"pick", c>>] = NoItem] :
                    c \in k.choices}
      \/ v = NoUser(k)
  BY Zenon DEF Edits
<1> QED
  BY <1>2, <1>3, <1>4, <1>5, <1>6, <1>7

LEMMA LoadedShape ==
    \A k, u, file, replace : DOMAIN Loaded(k, u, file, replace) = UserEntries(k)
BY DEF Loaded

UserOK == DOMAIN user = UserEntries(K) /\ torn \in BOOLEAN

LEMMA UserStep == JobOK /\ UserOK /\ [Next]_vars => UserOK'
<1> SUFFICES ASSUME JobOK, UserOK, [Next]_vars PROVE UserOK'
  OBVIOUS
<1> USE DEF UserOK, K
<1>1. CASE Edit
  BY <1>1, EditsShape DEF Edit, history
<1>2. ASSUME NEW file, NEW replace, Load(file, replace) PROVE UserOK'
  BY <1>2, LoadedShape DEF Load, history
<1>3. CASE LoadConfig
  BY <1>2, <1>3 DEF LoadConfig
<1>4. CASE \E file \in K.fragments : MergeConfig(file)
  BY <1>2, <1>4 DEF MergeConfig
<1>5. CASE \E next \in K.failures : Fail(next)
  BY <1>5, NoUserShape DEF Fail
<1>6. CASE \E n \in K.edited : Start(n)
  <2>1. PICK n \in K.edited : Start(n)
    BY <1>6
  <2>2. kc' = n /\ user' = NoUser(Kconfigs[n]) /\ torn' = torn
    BY <2>1 DEF Start, history
  <2> QED
    BY <2>2, NoUserShape
<1>7. CASE UNCHANGED <<memory, torn>>
  BY <1>7 DEF memory
<1> QED
  BY <1>1, <1>3, <1>4, <1>5, <1>6, <1>7
     DEF Next, WriteConfig, WriteMinConfig, WriteAutoconf, SyncDeps, Touch, WriteOldVals,
         OpenForWriting, FinishWriting, Compile, BuildDone, vars, process, history

(* Type correctness, for every set of Kconfig files and every evaluation:  *)
(* each process starts from user values of the instance it loaded, and a   *)
(* write is always one of the four files the program writes, never of the  *)
(* backup. *)
THEOREM TypeCorrect == Spec => []TypeOK
<1>1. Init => JobOK /\ BackupInv /\ UserOK
  <2> SUFFICES ASSUME Init PROVE JobOK /\ BackupInv /\ UserOK
    OBVIOUS
  <2>1. user = NoUser(K) /\ torn = FALSE /\ saved = Missing /\ saves = 0 /\ at = "idle"
    BY DEF Init
  <2>2. UserOK
    BY <2>1, NoUserShape DEF UserOK
  <2>3. BackupInv
    BY <2>1 DEF BackupInv
  <2> QED
    BY <2>2, <2>3, JobInit
<1>2. JobOK /\ BackupInv /\ UserOK /\ [Next]_vars => JobOK' /\ BackupInv' /\ UserOK'
  BY JobStep, BackupStep, UserStep
<1>3. JobOK /\ BackupInv /\ UserOK => TypeOK
  BY DEF JobOK, BackupInv, UserOK, TypeOK, Files
<1> QED
  BY <1>1, <1>2, <1>3, PTL DEF Spec

-----------------------------------------------------------------------------
(* The objects.  Safe(s, lines): the object of s is rebuilt, or was made   *)
(* with the value that lines give s, or lines are what an interrupted      *)
(* write of auto.conf left.                                                *)
Safe(s, lines) ==
    \/ s \in newer \/ built[s] = NotBuilt
    \/ built[s] = Val(lines, s)
    \/ torn /\ Val(lines, s) = Unset

Defined == UNION {Kconfigs[n].syms : n \in DOMAIN Kconfigs}
WritingAuto == at \in {"open", "write"} /\ job.file = "auto"
Building == at \in {"sync", "touch", "synced"} \/ WritingAuto

(* auto.conf tells what the objects were made with, except while it is     *)
(* being written; by then every symbol whose value differs is touched.     *)
ObjectsInv ==
    /\ DOMAIN OldVals \subseteq Defined
    /\ at \in {"open", "write"} /\ job.file \in {"header", "auto"} =>
          job.contents = AutoContents
    /\ Building => files["header"].lines = AutoContents
    /\ at = "synced" => OldVals = AutoContents
    /\ ~(at = "write" /\ job.file = "auto") => \A s \in Sources : Safe(s, OldVals)
    /\ at = "touch" => \A s \in Sources : s \in todo \/ Safe(s, AutoContents)
    /\ WritingAuto => \A s \in Sources : Safe(s, AutoContents)

LEMMA AutoDefined == JobOK => DOMAIN AutoContents \subseteq Defined
BY DEF JobOK, AutoContents, Kept, Defined, K

(* A symbol that is not touched has the value it had. *)
LEMMA UntouchedSame ==
    ASSUME JobOK, NamesStayDefined, DOMAIN OldVals \subseteq Defined,
           NEW s, s \notin Gone \cup Changed
    PROVE  Val(OldVals, s) = Val(AutoContents, s)
<1>1. CASE s \in K.syms
  BY <1>1 DEF Changed, Val, AutoContents, Kept
<1>2. CASE s \notin K.syms
  <2>1. Val(AutoContents, s) = Unset
    BY <1>2 DEF AutoContents, Kept, Val
  <2>2. s \notin DOMAIN OldVals
    BY <1>2 DEF Gone, NamesStayDefined, Defined, JobOK, K
  <2> QED
    BY <2>1, <2>2 DEF Val
<1> QED
  BY <1>1, <1>2

LEMMA ObjectsStep ==
    JobOK /\ NamesStayDefined /\ ObjectsInv /\ [Next]_vars => ObjectsInv'
<1> SUFFICES ASSUME JobOK, NamesStayDefined, ObjectsInv, [Next]_vars PROVE ObjectsInv'
  OBVIOUS
<1> USE DEF JobOK, ObjectsInv, WritingAuto, Building
<1>a. ASSUME UNCHANGED <<files, newer, history>>, at = "idle", at' = "idle"
      PROVE  ObjectsInv'
  BY <1>a DEF history, Safe, OldVals
<1>1. CASE Edit
  BY <1>1, <1>a DEF Edit
<1>2. ASSUME NEW file, NEW replace, Load(file, replace) PROVE ObjectsInv'
  BY <1>2, <1>a DEF Load
<1>3. CASE LoadConfig
  BY <1>2, <1>3 DEF LoadConfig
<1>4. CASE \E file \in K.fragments : MergeConfig(file)
  BY <1>2, <1>4 DEF MergeConfig
<1>5. ASSUME NEW how, WriteConfig(how) PROVE ObjectsInv'
  <2>1. files'["auto"] = files["auto"]
    BY <1>5 DEF WriteConfig, SaveOld, Files
  <2>2. at = "idle" /\ UNCHANGED <<newer, built, torn>>
    BY <1>5 DEF WriteConfig
  <2>3. at' \in {"idle", "open"} /\ (at' = "open" => job'.file = "config")
    BY <1>5 DEF WriteConfig, Write, After
  <2> QED
    BY <2>1, <2>2, <2>3 DEF Safe, OldVals
<1>6. CASE WriteMinConfig
  <2>1. at' \in {"idle", "open"} /\ (at' = "open" => job'.file = "min")
    BY <1>6 DEF WriteMinConfig, Write, After
  <2> QED
    BY <1>6, <2>1 DEF WriteMinConfig, history, Safe, OldVals
<1>7. CASE WriteAutoconf
  <2>1. AutoContents' = AutoContents
    BY <1>7 DEF WriteAutoconf, memory, AutoContents, Kept, IsN, K
  <2>2. \/ at' = "sync" /\ files["header"] = Whole(AutoContents)
        \/ at' = "open" /\ job' = [file |-> "header", contents |-> AutoContents]
    BY <1>7 DEF WriteAutoconf, Write, After
  <2>3. UNCHANGED <<files, newer, built, torn>> /\ at = "idle"
    BY <1>7 DEF WriteAutoconf, history
  <2> QED
    BY <2>1, <2>2, <2>3 DEF Safe, OldVals, Whole
<1>8. CASE SyncDeps
  <2>1. UNCHANGED <<files, newer, built, torn>> /\ at = "sync" /\ at' = "touch"
    BY <1>8 DEF SyncDeps, history
  <2>2. AutoContents' = AutoContents
    BY <1>8 DEF SyncDeps, memory, AutoContents, Kept, IsN, K
  <2>3. ASSUME NEW s \in Sources, s \notin todo' PROVE Safe(s, AutoContents)
    <3>1. Val(OldVals, s) = Val(AutoContents, s)
      BY <1>8, <2>3, UntouchedSame DEF SyncDeps
    <3> QED
      BY <2>1, <3>1 DEF Safe
  <2>4. (\A s \in Sources : s \in todo \/ Safe(s, AutoContents))'
    BY <2>1, <2>2, <2>3 DEF Safe
  <2> QED
    BY <2>1, <2>2, <2>4 DEF Safe, OldVals
<1>9. ASSUME NEW t, Touch(t) PROVE ObjectsInv'
  <2>1. AutoContents' = AutoContents
    BY <1>9 DEF Touch, memory, AutoContents, Kept, IsN, K
  <2>2. /\ UNCHANGED <<files, built, torn, at>> /\ at = "touch"
        /\ newer' = newer \cup {t} /\ todo' = todo \ {t}
    BY <1>9 DEF Touch, history
  <2> QED
    BY <2>1, <2>2 DEF Safe, OldVals
<1>10. CASE WriteOldVals
  <2>1. AutoContents' = AutoContents
    BY <1>10 DEF WriteOldVals, memory, AutoContents, Kept, IsN, K
  <2>2. \/ at' = "synced" /\ files["auto"] = Whole(AutoContents)
        \/ at' = "open" /\ job' = [file |-> "auto", contents |-> AutoContents]
    BY <1>10 DEF WriteOldVals, Write, After
  <2>3. UNCHANGED <<files, newer, built, torn>> /\ at = "touch" /\ todo = {}
    BY <1>10 DEF WriteOldVals, history
  <2> QED
    BY <2>1, <2>2, <2>3 DEF Safe, OldVals, Whole
<1>11. CASE OpenForWriting
  <2>1. AutoContents' = AutoContents
    BY <1>11 DEF OpenForWriting, memory, AutoContents, Kept, IsN, K
  <2>2. /\ UNCHANGED <<newer, built, torn, job>> /\ at = "open" /\ at' = "write"
        /\ files' = [files EXCEPT ![job.file] = Whole(Empty)]
    BY <1>11 DEF OpenForWriting, history
  <2>3. \/ OldVals' = OldVals
        \/ job.file = "auto" /\ OldVals' = Empty
    BY <2>2 DEF OldVals, Whole, Files
  <2>4. job.file # "header" => files'["header"] = files["header"]
    BY <2>2 DEF Files
  <2> QED
    BY <2>1, <2>2, <2>3, <2>4 DEF Safe, Empty
<1>12. CASE FinishWriting
  <2>1. AutoContents' = AutoContents
    BY <1>12 DEF FinishWriting, memory, AutoContents, Kept, IsN, K
  <2>2. /\ UNCHANGED <<newer, built, torn>> /\ at = "write"
        /\ at' = After(job.file)
        /\ files' = [files EXCEPT ![job.file] = Whole(job.contents)]
    BY <1>12 DEF FinishWriting
  <2>3. CASE job.file \in {"config", "min"}
    <3>1. OldVals' = OldVals /\ at' = "idle"
      BY <2>2, <2>3 DEF OldVals, Files, After
    <3> QED
      BY <2>2, <2>3, <3>1 DEF Safe
  <2>4. CASE job.file = "header"
    <3>1. OldVals' = OldVals /\ at' = "sync" /\ files'["header"].lines = AutoContents
      BY <2>2, <2>4 DEF OldVals, Files, After, Whole
    <3> QED
      BY <2>1, <2>2, <2>4, <3>1 DEF Safe
  <2>5. CASE job.file = "auto"
    <3>1. OldVals' = AutoContents /\ at' = "synced" /\ files'["header"] = files["header"]
      BY <2>2, <2>5 DEF OldVals, Files, After, Whole
    <3> QED
      BY <2>1, <2>2, <2>5, <3>1, AutoDefined DEF Safe
  <2> QED
    BY <2>2, <2>3, <2>4, <2>5
<1>13. CASE \E next \in K.failures : Fail(next)
  <2>1. PICK next \in K.failures : Fail(next)
    BY <1>13
  <2>2. at' \in {"idle", "down"} /\ UNCHANGED <<newer, built>>
    BY <2>1, KconfigsAssumption DEF Fail, K
  <2>3. ASSUME OldVals' = OldVals, torn => torn', ~(at = "write" /\ job.file = "auto")
        PROVE  ObjectsInv'
    BY <2>2, <2>3 DEF Safe
  <2>4. CASE at # "write"
    BY <2>1, <2>3, <2>4 DEF Fail, OldVals
  <2>5. CASE at = "write"
    <3>1. PICK left \in LeftOf(K, job.contents) :
             files' = [files EXCEPT ![job.file] = Whole(left)]
      BY <2>1, <2>5 DEF Fail
    <3>2. CASE job.file # "auto"
      BY <2>1, <2>3, <2>5, <3>1, <3>2 DEF Fail, OldVals, Files
    <3>3. CASE job.file = "auto"
      <4>1. OldVals' = left /\ torn'
        BY <2>1, <2>5, <3>1, <3>3 DEF Fail, OldVals, Files, Whole
      <4>2. job.contents = AutoContents
        BY <2>5, <3>3
      <4>3. PICK n \in 0..Len(K.order) :
               left = [s \in {K.order[i] : i \in 1..n} \cap DOMAIN AutoContents |->
                          AutoContents[s]]
        BY <4>2 DEF LeftOf
      <4>4. DOMAIN left \subseteq Defined
        BY <4>3, AutoDefined
      <4>5. ASSUME NEW s \in Sources PROVE Safe(s, left)'
        <5>1. Val(left, s) \in {Val(AutoContents, s), Unset}
          BY <4>3 DEF Val
        <5>2. Safe(s, AutoContents)
          BY <2>5, <3>3
        <5> QED
          BY <2>2, <4>1, <5>1, <5>2 DEF Safe, Val
      <4> QED
        BY <2>2, <4>1, <4>4, <4>5 DEF Safe
    <3> QED
      BY <3>2, <3>3
  <2> QED
    BY <2>4, <2>5
<1>14. CASE \E n \in K.edited : Start(n)
  <2>1. UNCHANGED <<files, newer, built, torn>> /\ at = "down" /\ at' = "idle"
    BY <1>14 DEF Start, history
  <2> QED
    BY <2>1 DEF Safe, OldVals
<1>15. ASSUME NEW t \in K.sources, Compile(t) PROVE ObjectsInv'
  <2>1. AutoContents' = AutoContents
    BY <1>15 DEF Compile, process, memory, AutoContents, Kept, IsN, K
  <2>2. /\ UNCHANGED <<files, torn, at, job, todo>> /\ at = "synced"
        /\ built' = [built EXCEPT ![t] = Val(files["header"].lines, t)]
        /\ newer' = newer \ {t}
    BY <1>15 DEF Compile, process
  <2>3. OldVals = AutoContents /\ files["header"].lines = AutoContents
    BY <2>2
  <2>4. ASSUME NEW s \in Sources PROVE Safe(s, OldVals)'
    BY <2>2, <2>3 DEF Safe, OldVals
  <2> QED
    BY <2>1, <2>2, <2>3, <2>4 DEF OldVals
<1>16. CASE BuildDone
  <2>1. UNCHANGED <<files, newer, built, torn>> /\ at = "synced" /\ at' = "idle"
    BY <1>16 DEF BuildDone, history
  <2> QED
    BY <2>1 DEF Safe, OldVals
<1>17. CASE UNCHANGED vars
  <2>1. AutoContents' = AutoContents
    BY <1>17 DEF vars, process, memory, AutoContents, Kept, IsN, K
  <2>2. UNCHANGED <<files, newer, built, torn, at, job, todo>>
    BY <1>17 DEF vars, process, history
  <2> QED
    BY <2>1, <2>2 DEF Safe, OldVals
<1> QED
  BY <1>1, <1>3, <1>4, <1>5, <1>6, <1>7, <1>8, <1>9, <1>10, <1>11, <1>12, <1>13,
     <1>14, <1>15, <1>16, <1>17 DEF Next

(* Where no Kconfig file goes on naming a symbol it no longer defines, no  *)
(* object is older than a change of its symbol that autoconf.h shows,      *)
(* wherever the syncs and builds before were interrupted.                  *)
THEOREM BuildsFollowValues == Spec => []ObjectsUpToDate
<1>1. CASE ~NamesStayDefined
  BY <1>1, PTL DEF ObjectsUpToDate
<1>2. CASE NamesStayDefined
  <2>1. Init => JobOK /\ ObjectsInv
    BY JobInit DEF Init, ObjectsInv, Missing, Empty, OldVals, WritingAuto, Building,
                   Safe, Files
  <2>2. JobOK /\ ObjectsInv /\ [Next]_vars => JobOK' /\ ObjectsInv'
    BY <1>2, JobStep, ObjectsStep
  <2>3. JobOK /\ ObjectsInv => ObjectsUpToDate
    BY DEF JobOK, ObjectsInv, ObjectsUpToDate, Safe, Building, K, Sources
  <2> QED
    BY <2>1, <2>2, <2>3, PTL DEF Spec
<1> QED
  BY <1>1, <1>2
-----------------------------------------------------------------------------
(* Saving.  What a just-loaded .config needs no saving for is in it.       *)
(* What is entered for a symbol or choice is a value it may have. *)
LEMMA EditsFit ==
    ASSUME NEW n \in DOMAIN Kconfigs, NEW k, k = Kconfigs[n], NEW u, UserFits(k, u),
           NEW v \in Edits(k, u)
    PROVE  UserFits(k, v)
<1>1. ItemsRight(k) /\ \A i \in k.syms \cup k.choices : k.inputs[i] \subseteq Valued(k, i)
  BY ItemsAssumption
<1>2. CASE \E s \in k.syms : v \in {Assigned(k, u, s, x) : x \in k.inputs[s]}
  <2>1. PICK s \in k.syms : v \in {Assigned(k, u, s, x) : x \in k.inputs[s]}
    BY <1>2
  <2>2. PICK x \in k.inputs[s] : v = Assigned(k, u, s, x)
    BY <2>1
  <2>3. UserFits(k, SetValue(k, u, s, x))
    BY <1>1, SetFits
  <2> QED BY <1>1, <2>2, <2>3 DEF ItemsRight, SetValue
<1>3. CASE \E s \in k.syms : v = [u EXCEPT ![<<"user", s>>] = Unset]
  <2>1. PICK s \in k.syms : v = [u EXCEPT ![<<"user", s>>] = Unset]
    BY <1>3
  <2> QED BY <2>1 DEF UserFits, UserEntries
<1>4. CASE \E c \in k.choices : v \in {[u EXCEPT ![<<"mode", c>>] = x] : x \in k.inputs[c]}
  <2>1. PICK c \in k.choices : v \in {[u EXCEPT ![<<"mode", c>>] = x] : x \in k.inputs[c]}
    BY <1>4
  <2>2. PICK x \in k.inputs[c] : v = [u EXCEPT ![<<"mode", c>>] = x]
    BY <2>1
  <2>3. UserFits(k, SetValue(k, u, c, x))
    BY <1>1, SetFits
  <2> QED BY <2>2, <2>3 DEF SetValue
<1>5. CASE \E c \in k.choices :
              v = [u EXCEPT ![<<"mode", c>>] = Unset, ![<<"pick", c>>] = NoItem]
  <2>1. PICK c \in k.choices :
             v = [u EXCEPT ![<<"mode", c>>] = Unset, ![<<"pick", c>>] = NoItem]
    BY <1>5
  <2>2. v = [r \in UserEntries(k) |-> v[r]]
    BY <2>1 DEF UserFits
  <2>3. \A s \in k.syms : v[<<"user", s>>] = u[<<"user", s>>]
    BY <2>1 DEF UserFits, UserEntries
  <2>4. \A d \in k.choices : v[<<"mode", d>>] \in {u[<<"mode", d>>], Unset}
                             /\ v[<<"pick", d>>] \in {u[<<"pick", d>>], NoItem}
    BY <2>1 DEF UserFits, UserEntries
  <2> QED BY <2>2, <2>3, <2>4 DEF UserFits
<1>6. CASE v = NoUser(k)
  BY <1>6, NoUserFits
<1>7. \/ \E S \in {{Assigned(k, u, s, x) : x \in k.inputs[s]} : s \in k.syms} : v \in S
      \/ v \in {[u EXCEPT ![<<"user", s>>] = Unset] : s \in k.syms}
      \/ \E S \in {{[u EXCEPT ![<<"mode", c>>] = x] : x \in k.inputs[c]} :
                      c \in k.choices} : v \in S
      \/ v \in {[u EXCEPT ![<<"mode", c>>] = Unset, ![<<"pick", c>>] = NoItem] :
                    c \in k.choices}
      \/ v = NoUser(k)
  BY Zenon DEF Edits
<1> QED
  BY <1>2, <1>3, <1>4, <1>5, <1>6, <1>7

(* A line of .config was written for a value its symbol had, by this       *)
(* instance of Kconfig files or by one it was edited from.                 *)
Traced(lines) ==
    \A s \in DOMAIN lines : \E m \in DOMAIN Kconfigs :
        /\ s \in Kconfigs[m].syms /\ lines[s] \in Valued(Kconfigs[m], s)
        /\ kc = m \/ kc \in Kconfigs[m].edited

LinesInv ==
    /\ UserFits(K, user)
    /\ at # "down" => vals = Values(K, user)
    /\ Traced(files["config"].lines)
    /\ at \in {"open", "write"} /\ job.file = "config" => Traced(job.contents)

LEMMA TracedFits ==
    ASSUME TypesStay, JobOK, NEW lines, Traced(lines)
    PROVE  \A s \in K.syms \cap DOMAIN lines : lines[s] \in Valued(K, s)
<1> SUFFICES ASSUME NEW s \in K.syms \cap DOMAIN lines PROVE lines[s] \in Valued(K, s)
  OBVIOUS
<1>1. PICK m \in DOMAIN Kconfigs :
         /\ s \in Kconfigs[m].syms /\ lines[s] \in Valued(Kconfigs[m], s)
         /\ kc = m \/ kc \in Kconfigs[m].edited
  BY DEF Traced
<1>2. CASE kc = m
  BY <1>1, <1>2 DEF K
<1>3. CASE kc \in Kconfigs[m].edited
  BY <1>1, <1>3 DEF TypesStay, K
<1> QED BY <1>1, <1>2, <1>3

LEMMA TracedStays ==
    ASSUME NEW lines, Traced(lines), NEW part, DOMAIN part \subseteq DOMAIN lines,
           \A s \in DOMAIN part : part[s] = lines[s], kc' = kc
    PROVE  Traced(part)'
BY DEF Traced

LEMMA ContentsTraced ==
    ASSUME ValuesValid, JobOK, LinesInv, at # "down"
    PROVE  Traced(ConfigContents)
<1>1. vals = Values(K, user) /\ user \in UserValues(K)
  BY FittingValues DEF LinesInv
<1>2. \A s \in K.syms : vals[s].write => vals[s].val \in Valued(K, s)
  BY <1>1 DEF ValuesValid, JobOK, K
<1> QED
  BY <1>2 DEF Traced, ConfigContents, Kept, JobOK, K

LEMMA LinesStep ==
    ASSUME ValuesValid, TypesStay
    PROVE  JobOK /\ LinesInv /\ [Next]_vars => LinesInv'
<1> SUFFICES ASSUME JobOK, LinesInv, [Next]_vars PROVE LinesInv'
  OBVIOUS
<1>k. kc \in DOMAIN Kconfigs /\ K = Kconfigs[kc]
  BY DEF JobOK, K
<1>f. DOMAIN files = Files
  BY DEF JobOK
<1>a. ASSUME kc' = kc, UNCHANGED <<files, user, vals>>, at # "down",
             ~(at' \in {"open", "write"} /\ job'.file = "config")
      PROVE  LinesInv'
  BY <1>a DEF LinesInv, Traced, K
<1>b. ASSUME UNCHANGED <<kc, user, vals, job>>, at # "down",
             files'["config"] = files["config"],
             at' \in {"open", "write"} => at \in {"open", "write"}
      PROVE  LinesInv'
  BY <1>b DEF LinesInv, Traced, K
<1>1. ASSUME NEW u, UserFits(K, u), at = "idle",
             user' = u, vals' = Values(K, u), UNCHANGED <<kc, at, files>>
      PROVE  LinesInv'
  BY <1>1 DEF LinesInv, Traced, K
<1>2. CASE Edit
  BY <1>1, <1>2, <1>k, EditsFit DEF Edit, LinesInv
<1>3. ASSUME NEW file, NEW replace, LinesFit(K, file), Load(file, replace)
      PROVE  LinesInv'
  <2>1. ItemsRight(K)
    BY <1>k, ItemsAssumption
  <2>2. UserFits(K, Loaded(K, user, file, replace))
    BY <1>3, <2>1, LoadedFits DEF LinesInv
  <2> QED BY <1>1, <1>3, <2>2 DEF Load
<1>4. CASE LoadConfig
  <2>1. LinesFit(K, files["config"].lines)
    <3>1. \A s \in K.syms \cap DOMAIN files["config"].lines :
             files["config"].lines[s] \in Valued(K, s)
      BY TracedFits DEF LinesInv
    <3> QED BY <3>1 DEF LinesFit, Valued
  <2>2. K.defconfig.there => LinesFit(K, K.defconfig.lines)
    BY <1>k, ItemsAssumption
  <2>3. PICK file : /\ file \in {files["config"], K.defconfig}
                    /\ file.there /\ Load(file.lines, TRUE)
    BY <1>4 DEF LoadConfig
  <2> QED BY <1>3, <2>1, <2>2, <2>3
<1>5. CASE \E file \in K.fragments : MergeConfig(file)
  <2>1. \A file \in K.fragments : LinesFit(K, file)
    BY <1>k, ItemsAssumption
  <2> QED BY <1>3, <1>5, <2>1 DEF MergeConfig
<1>6. ASSUME NEW how, WriteConfig(how) PROVE LinesInv'
  <2>1. at = "idle" /\ UNCHANGED <<kc, user, vals>>
    BY <1>6 DEF WriteConfig, memory
  <2>2. files'["config"] \in {files["config"], Missing}
    BY <1>6, <1>f DEF WriteConfig, SaveOld, Files
  <2>3. Traced(files["config"].lines)' /\ Traced(ConfigContents)
    BY <2>1, <2>2, ContentsTraced DEF LinesInv, Traced, Missing, Empty
  <2>4. at' \in {"open", "write"} => job'.contents = ConfigContents
    BY <1>6 DEF WriteConfig, Write, After
  <2>5. (at' \in {"open", "write"} => Traced(job.contents)')
    BY <2>1, <2>3, <2>4 DEF Traced
  <2> QED BY <2>1, <2>3, <2>5 DEF LinesInv, K
<1>7. ASSUME NEW file \in {"min", "header", "auto"}, NEW contents, Write(file, contents)
      PROVE  ~(at' \in {"open", "write"} /\ job'.file = "config")
  BY <1>7 DEF Write, After
<1>8. CASE WriteMinConfig
  BY <1>7, <1>8, <1>a DEF WriteMinConfig, memory
<1>9. CASE WriteAutoconf
  BY <1>7, <1>9, <1>a DEF WriteAutoconf, memory
<1>10. CASE WriteOldVals
  BY <1>7, <1>10, <1>a DEF WriteOldVals, memory
<1>11. CASE SyncDeps
  BY <1>11, <1>a DEF SyncDeps, memory
<1>12. CASE \E s \in todo : Touch(s)
  BY <1>12, <1>a DEF Touch, memory
<1>13. CASE OpenForWriting
  <2>1. at = "open" /\ UNCHANGED <<kc, user, vals, job>>
    BY <1>13 DEF OpenForWriting, memory
  <2>2. files'["config"] \in {files["config"], Whole(Empty)}
    BY <1>13, <1>f DEF OpenForWriting, Files
  <2>3. Traced(files["config"].lines)'
    BY <2>1, <2>2 DEF LinesInv, Traced, Whole, Empty
  <2>4. job.file = "config" => Traced(job.contents)'
    BY <2>1 DEF LinesInv, Traced
  <2> QED BY <2>1, <2>3, <2>4 DEF LinesInv, K
<1>14. CASE FinishWriting
  <2>1. /\ at = "write" /\ UNCHANGED <<kc, user, vals>>
        /\ at' \notin {"open", "write"}
        /\ files' = [files EXCEPT ![job.file] = Whole(job.contents)]
    BY <1>14 DEF FinishWriting, memory, After, JobOK
  <2>2. \/ files'["config"] = files["config"]
        \/ job.file = "config" /\ files'["config"] = Whole(job.contents)
    BY <2>1, <1>f DEF Files
  <2>3. Traced(files["config"].lines)'
    BY <2>1, <2>2 DEF LinesInv, Traced, Whole
  <2> QED BY <2>1, <2>3 DEF LinesInv, K
<1>15. CASE \E next \in K.failures : Fail(next)
  <2>1. PICK next \in K.failures : Fail(next)
    BY <1>15
  <2>2. at # "down" /\ kc' = kc /\ at' = next /\ next \in {"idle", "down"}
    BY <2>1, <1>k, KconfigsAssumption DEF Fail
  <2>3. UserFits(K, user)' /\ (at # "down" => vals = Values(K, user))'
    BY <2>1, <2>2, NoUserFits DEF Fail, LinesInv, K
  <2>4. Traced(files["config"].lines)'
    <3>1. CASE files'["config"] = files["config"]
      BY <2>2, <3>1 DEF LinesInv, Traced
    <3>2. CASE files'["config"] # files["config"]
      <4>1. at = "write"
        BY <2>1, <3>2 DEF Fail
      <4>2. PICK left \in LeftOf(K, job.contents) :
               files' = [files EXCEPT ![job.file] = Whole(left)]
        BY <2>1, <4>1 DEF Fail
      <4>3. job.file = "config" /\ files'["config"].lines = left
        BY <1>f, <3>2, <4>2 DEF Files, Whole
      <4>4. DOMAIN left \subseteq DOMAIN job.contents
            /\ \A s \in DOMAIN left : left[s] = job.contents[s]
        BY <4>2 DEF LeftOf
      <4>5. Traced(job.contents)
        BY <4>1, <4>3 DEF LinesInv
      <4>6. Traced(left)'
        BY <2>2, <4>4, <4>5, TracedStays
      <4> QED BY <4>3, <4>6
    <3> QED BY <3>1, <3>2
  <2> QED BY <2>2, <2>3, <2>4 DEF LinesInv
<1>16. CASE \E n \in K.edited : Start(n)
  <2>1. PICK n \in K.edited : Start(n)
    BY <1>16
  <2>2. /\ at' = "idle" /\ kc' = n /\ UNCHANGED files
        /\ user' = NoUser(Kconfigs[n]) /\ vals' = Values(Kconfigs[n], NoUser(Kconfigs[n]))
    BY <2>1 DEF Start
  <2>3. UserFits(K, user)' /\ vals' = Values(K, user)'
    BY <2>2, NoUserFits DEF K
  <2>4. Traced(files["config"].lines)'
    <3>1. \A m \in DOMAIN Kconfigs :
             kc = m \/ kc \in Kconfigs[m].edited => n \in Kconfigs[m].edited
      BY <1>k DEF TypesStay
    <3> QED BY <2>2, <3>1 DEF LinesInv, Traced
  <2> QED BY <2>2, <2>3, <2>4 DEF LinesInv
<1>17. CASE \E s \in K.sources : Compile(s)
  BY <1>17, <1>a DEF Compile, process, memory
<1>18. CASE BuildDone
  BY <1>18, <1>a DEF BuildDone, memory
<1>19. CASE UNCHANGED vars
  BY <1>19 DEF LinesInv, Traced, K, vars, process, memory
<1> QED
  BY <1>2, <1>4, <1>5, <1>6, <1>8, <1>9, <1>10, <1>11, <1>12, <1>13, <1>14, <1>15,
     <1>16, <1>17, <1>18, <1>19 DEF Next

(* A .config just loaded that needs no saving holds what the symbols hold. *)
LEMMA SavedIsHeld ==
    ASSUME ValuesValid, TypesStay, JobOK, LinesInv
    PROVE  NoSaveMissed
<1> DEFINE file == files["config"].lines
           NotN == {x \in DOMAIN file : ~(IsTri(K, x) /\ file[x] = 0)}
<1> SUFFICES ASSUME at = "idle",
                    user = Loaded(K, NoUser(K), file, TRUE),
                    missing = DOMAIN file \ K.syms,
                    ~NeedsSave(K, user, vals, missing)
             PROVE  AutoContents = [s \in NotN |-> file[s]]
  BY DEF NoSaveMissed
<1>k. kc \in DOMAIN Kconfigs /\ K = Kconfigs[kc]
  BY DEF JobOK, K
<1>1. DOMAIN file \subseteq K.syms
  BY DEF NeedsSave
<1>2. ASSUME NEW s \in K.syms
      PROVE  user[<<"user", s>>] = IF s \in Taken(K, file) THEN file[s] ELSE Unset
  <2>1. <<"user", s>> \in UserEntries(K)
    BY EntriesAre
  <2>2. NoUser(K)[<<"user", s>>] = Unset
    BY <2>1 DEF NoUser
  <2>3. LoadedLines(K, NoUser(K), file).user[<<"user", s>>]
            = IF s \in Taken(K, file) THEN file[s] ELSE Unset
    BY <2>1, <2>2 DEF LoadedLines
  <2>4. s \in Taken(K, file) => s \in LoadedLines(K, NoUser(K), file).set
    BY DEF LoadedLines
  <2> QED BY <2>1, <2>2, <2>3, <2>4 DEF Loaded
<1>3. \A s \in DOMAIN file : file[s] \in Valued(K, s) /\ s \in Taken(K, file)
  <2>1. \A s \in DOMAIN file : file[s] \in Valued(K, s)
    BY <1>1, TracedFits DEF LinesInv
  <2>2. ASSUME NEW s \in DOMAIN file PROVE ValidFor(K.type[s], file[s])
    <3>1. CASE IsTri(K, s)
      BY <2>1, <3>1 DEF Valued
    <3>2. CASE ~IsTri(K, s)
      BY <3>2 DEF IsTri, ValidFor
    <3> QED BY <3>1, <3>2
  <2> QED BY <1>1, <2>1, <2>2 DEF Taken
<1>4. ASSUME NEW s \in K.syms
      PROVE  IF user[<<"user", s>>] = Unset THEN ~vals[s].write
             ELSE vals[s].val = user[<<"user", s>>]
  BY DEF NeedsSave
<1>5. ASSUME NEW s \in K.syms, vals[s].val = user[<<"user", s>>]
      PROVE  vals[s].write \/ IsN(s)
  <2>1. vals = Values(K, user) /\ user \in UserValues(K)
    BY FittingValues DEF LinesInv
  <2> QED BY <1>k, <1>5, <2>1 DEF ValuesValid, IsN
<1>6. \A s \in DOMAIN file : file[s] # Unset
  BY <1>k, <1>1, <1>3, ItemsAssumption
<1>7. ASSUME NEW s \in K.syms, vals[s].write, ~IsN(s)
      PROVE  s \in NotN /\ vals[s].val = file[s]
  <2>1. s \in Taken(K, file) /\ vals[s].val = file[s]
    BY <1>2, <1>4, <1>7
  <2> QED BY <1>7, <2>1 DEF Taken, IsN
<1>8. ASSUME NEW s \in NotN
      PROVE  s \in K.syms /\ vals[s].write /\ ~IsN(s)
  <2>1. s \in K.syms /\ user[<<"user", s>>] = file[s] /\ file[s] # Unset
    BY <1>1, <1>2, <1>3, <1>6
  <2>2. vals[s].val = user[<<"user", s>>]
    BY <1>4, <2>1
  <2>3. ~IsN(s)
    BY <2>1, <2>2 DEF IsN
  <2> QED BY <1>5, <2>1, <2>2, <2>3
<1>9. {s \in K.syms : vals[s].write /\ ~IsN(s)} = NotN
  BY <1>7, <1>8
<1> HIDE DEF file, NotN
<1>10. \A s \in NotN : vals[s].val = file[s]
  BY <1>7, <1>9
<1> QED BY <1>9, <1>10 DEF AutoContents, Kept

(* So it goes for every state that is reached. *)
LEMMA LinesAlways ==
    ASSUME ValuesValid, TypesStay PROVE Spec => [](JobOK /\ LinesInv)
<1>1. Init => JobOK /\ LinesInv
  <2> SUFFICES ASSUME Init PROVE LinesInv
    BY JobInit
  <2>1. user = NoUser(K) /\ vals = Values(K, user) /\ files["config"] = Missing
        /\ at = "idle"
    BY DEF Init, Files
  <2> QED BY <2>1, NoUserFits DEF LinesInv, Traced, Missing, Empty
<1>2. JobOK /\ LinesInv /\ [Next]_vars => JobOK' /\ LinesInv'
  BY JobStep, LinesStep
<1> QED
  BY <1>1, <1>2, PTL DEF Spec

(* Quitting without being asked to save loses nothing: a .config that does *)
(* not need saving once it is loaded has every value the symbols have but  *)
(* n, whatever wrote it, and however often the Kconfig files were edited.  *)
THEOREM NoSaveIsMissed == ASSUME ValuesValid, TypesStay PROVE Spec => []NoSaveMissed
<1>1. Spec => [](JobOK /\ LinesInv)
  BY LinesAlways
<1>2. JobOK /\ LinesInv => NoSaveMissed
  BY SavedIsHeld
<1> QED
  BY <1>1, <1>2, PTL
-----------------------------------------------------------------------------
(* What loading makes of the lines of a file that has values its symbols   *)
(* may have, whatever the user values u0 were: the lines that are not n    *)
(* set the mode and the selection of a choice.                             *)
OnIn(k, lines, c) == {s \in DOMAIN lines : k.choiceOf[s] = c /\ lines[s] # 0}

FromLines(k, lines, w) ==
    /\ \A s \in k.syms : w[<<"user", s>>] = IF s \in DOMAIN lines THEN lines[s] ELSE Unset
    /\ \A c \in k.choices :
          /\ OnIn(k, lines, c) = {} => w[<<"mode", c>>] = Unset /\ w[<<"pick", c>>] = NoItem
          /\ \A t \in OnIn(k, lines, c) : OnIn(k, lines, c) = {t} /\ lines[t] = 2 =>
                w[<<"mode", c>>] = 2 /\ w[<<"pick", c>>] = t
          /\ OnIn(k, lines, c) # {} /\ (\A t \in OnIn(k, lines, c) : lines[t] = 1)
                 /\ k.type[c] = "tristate" => w[<<"mode", c>>] = 1

LEMMA LoadedLinesAre ==
    ASSUME NEW k, ItemsRight(k), NEW u0, NEW lines, DOMAIN lines \subseteq k.syms,
           \A s \in DOMAIN lines : lines[s] \in Valued(k, s),
           NEW w, w = Loaded(k, u0, lines, TRUE)
    PROVE  FromLines(k, lines, w)
<1> DEFINE read == LoadedLines(k, u0, lines)
<1>1. Taken(k, lines) = DOMAIN lines
  <2>1. ASSUME NEW s \in DOMAIN lines PROVE ValidFor(k.type[s], lines[s])
    BY DEF ValidFor, Valued, IsTri
  <2> QED BY <2>1 DEF Taken
<1>2. ASSUME NEW r \in UserEntries(k)
      PROVE  w[r] = IF r[2] \notin read.set THEN NoUser(k)[r] ELSE read.user[r]
  BY DEF Loaded
<1>3. ASSUME NEW s \in k.syms
      PROVE  w[<<"user", s>>] = IF s \in DOMAIN lines THEN lines[s] ELSE Unset
  <2>1. <<"user", s>> \in UserEntries(k)
    BY EntriesAre
  <2>2. NoUser(k)[<<"user", s>>] = Unset
    BY <2>1 DEF NoUser
  <2>3. read.user[<<"user", s>>] = IF s \in DOMAIN lines THEN lines[s] ELSE u0[<<"user", s>>]
    BY <1>1, <2>1 DEF LoadedLines
  <2>4. s \in read.set <=> s \in DOMAIN lines
    BY <1>1 DEF LoadedLines, ItemsRight
  <2> HIDE DEF read
  <2> QED BY <1>2, <2>1, <2>2, <2>3, <2>4
<1>4. ASSUME NEW c \in k.choices
      PROVE  /\ OnIn(k, lines, c) = {} => w[<<"mode", c>>] = Unset /\ w[<<"pick", c>>] = NoItem
             /\ \A t \in OnIn(k, lines, c) : OnIn(k, lines, c) = {t} /\ lines[t] = 2 =>
                   w[<<"mode", c>>] = 2 /\ w[<<"pick", c>>] = t
             /\ OnIn(k, lines, c) # {} /\ (\A t \in OnIn(k, lines, c) : lines[t] = 1)
                   /\ k.type[c] = "tristate" => w[<<"mode", c>>] = 1
  <2> DEFINE on == OnIn(k, lines, c)
             inferring == Inferring(k, lines, c)
             picking == Picking(k, lines, c)
  <2>1. <<"mode", c>> \in UserEntries(k) /\ <<"pick", c>> \in UserEntries(k)
    BY EntriesAre
  <2>2. NoUser(k)[<<"mode", c>>] = Unset /\ NoUser(k)[<<"pick", c>>] = NoItem
    BY <2>1 DEF NoUser
  <2>3. /\ read.user[<<"mode", c>>] = IF inferring = {} THEN u0[<<"mode", c>>]
                                      ELSE lines[LastOf(k, inferring)]
        /\ read.user[<<"pick", c>>] = IF picking = {} THEN u0[<<"pick", c>>]
                                      ELSE LastOf(k, picking)
    BY <2>1 DEF LoadedLines
  <2>4. c \in read.set <=> inferring \cup picking # {}
    BY <1>1 DEF LoadedLines, ItemsRight
  <2>5. /\ inferring = {s \in on : ValidFor(k.type[c], lines[s])}
        /\ picking = {s \in on : lines[s] = 2}
        /\ on \subseteq k.syms
    BY <1>1 DEF Inferring, Picking, OnIn
  <2>6. ValidFor(k.type[c], 2) /\ (k.type[c] = "tristate" => ValidFor(k.type[c], 1))
    BY DEF ItemsRight, ValidFor, IsTri
  <2>7. \A S : S \subseteq k.syms /\ S # {} => LastOf(k, S) \in S
    BY LastOfIn
  <2> HIDE DEF read, on, inferring, picking
  <2>8. on = {} => w[<<"mode", c>>] = Unset /\ w[<<"pick", c>>] = NoItem
    BY <1>2, <2>1, <2>2, <2>4, <2>5
  <2>9. ASSUME NEW t \in on, on = {t}, lines[t] = 2
        PROVE  w[<<"mode", c>>] = 2 /\ w[<<"pick", c>>] = t
    <3>1. inferring = {t} /\ picking = {t}
      BY <2>5, <2>6, <2>9
    <3>2. LastOf(k, inferring) = t /\ LastOf(k, picking) = t
      BY <2>5, <2>7, <2>9, <3>1
    <3> QED BY <1>2, <2>1, <2>3, <2>4, <2>9, <3>1, <3>2
  <2>10. ASSUME on # {}, \A t \in on : lines[t] = 1, k.type[c] = "tristate"
         PROVE  w[<<"mode", c>>] = 1
    <3>1. inferring = on
      BY <2>5, <2>6, <2>10
    <3>2. lines[LastOf(k, inferring)] = 1
      BY <2>5, <2>7, <2>10, <3>1
    <3> QED BY <1>2, <2>1, <2>3, <2>4, <2>10, <3>1, <3>2
  <2> QED BY <2>8, <2>9, <2>10 DEF on
<1> QED BY <1>3, <1>4 DEF FromLines

-----------------------------------------------------------------------------
(* The lines of a file are of the values now, and leave out nothing that   *)
(* would not be so anyway.                                                 *)
Leaves(k, lines, now) ==
    /\ DOMAIN lines \subseteq k.syms
    /\ \A s \in DOMAIN lines :
          lines[s] = C!ValueOf(k, s, now) /\ lines[s] \in Valued(k, s) \ {Unset}
    /\ \A s \in k.syms \ DOMAIN lines :
          /\ k.choiceOf[s] = NoItem /\ now[<<"vis", s>>] # 0 =>
                \/ C!ValueOf(k, s, now) = C!StrDefault(k, s, now).v
                \/ C!IsTri(k, s) /\ now[<<"vis", s>>] <= ExprValue(k, k.rev[s], now).v
          /\ k.choiceOf[s] # NoItem /\ now[<<"tri", s>>] # 0 =>
                /\ k.choiceOf[s] \notin k.optional /\ k.type[k.choiceOf[s]] = "bool"
                /\ C!SelectionFromDefaults(k, k.choiceOf[s], now).v = s
                /\ now[<<"tri", s>>] = 2

Laid(k, depth, u, now) ==
    /\ C!Given(k, depth) /\ C!TheCodeOn(k) /\ ItemsRight(k) /\ UserFits(k, u)
    /\ C!Solves(k, u, now) /\ C!DependenciesMet(k, now) /\ C!MembersFollow(k, now)
    /\ C!MembersBelong(k) /\ C!ModesShow(k, now)

(* The symbols of a choice *)
LEMMA OfChoice ==
    ASSUME NEW k, NEW depth, NEW u, NEW now, Laid(k, depth, u, now),
           NEW s \in k.syms, k.choiceOf[s] # NoItem
    PROVE  /\ k.choiceOf[s] \in k.choices /\ s \in C!Members(k, k.choiceOf[s])
           /\ C!IsTri(k, s) /\ C!MemberShown(k, now, s)
<1>1. k.choiceOf[s] \in k.choices /\ s \in C!Members(k, k.choiceOf[s])
  BY DEF Laid, C!Given, C!WellFormed, C!ChoicesRight
<1>2. C!IsTri(k, s)
  BY <1>1 DEF Laid, C!MembersBelong
<1>3. C!MemberShown(k, now, s)
  BY <1>2, C!MembersAre, CacheAssumption DEF Laid
<1> QED BY <1>1, <1>2, <1>3

(* Lines of symbols of a choice *)
LEMMA OnShown ==
    ASSUME NEW k, NEW depth, NEW u, NEW now, Laid(k, depth, u, now),
           NEW lines, Leaves(k, lines, now), NEW c \in k.choices, NEW s \in OnIn(k, lines, c)
    PROVE  /\ s \in k.syms /\ s \in DOMAIN lines /\ k.choiceOf[s] = c
           /\ lines[s] = now[<<"tri", s>>] /\ lines[s] # 0
           /\ C!MemberShown(k, now, s)
<1>1. s \in k.syms /\ s \in DOMAIN lines /\ k.choiceOf[s] = c /\ lines[s] # 0
  BY DEF OnIn, Leaves
<1>2. c # NoItem
  BY DEF Laid, ItemsRight
<1>3. C!MemberShown(k, now, s)
  BY <1>1, <1>2, OfChoice
<1>4. lines[s] = C!ValueOf(k, s, now) /\ C!ValueOf(k, s, now) = now[<<"tri", s>>]
  BY <1>1, <1>3 DEF Leaves, C!MemberShown
<1> QED BY <1>1, <1>3, <1>4

(* In y mode that is the selection, and in m mode any. *)
LEMMA OnInMode ==
    ASSUME NEW k, NEW depth, NEW u, NEW now, Laid(k, depth, u, now),
           NEW lines, Leaves(k, lines, now), NEW c \in k.choices, NEW s \in OnIn(k, lines, c)
    PROVE  IF C!ChoiceTri(k, c, now).v = 2
           THEN lines[s] = 2 /\ C!Selection(k, c, now).v = s
           ELSE lines[s] = 1 /\ C!ChoiceTri(k, c, now).v = 1 /\ k.type[c] = "tristate"
<1> DEFINE mode == C!ChoiceTri(k, c, now).v
           vis == now[<<"vis", s>>]
           val == now[<<"tri", s>>]
<1>1. /\ k.choiceOf[s] = c /\ lines[s] = val /\ val # 0
      /\ C!MemberShown(k, now, s)
  BY OnShown
<1>2. /\ vis \in 0..2 /\ val \in 0..2 /\ val <= vis /\ (val = 1 => vis = 1)
      /\ mode = 2 => vis # 1 /\ (val = 2 <=> vis # 0 /\ C!Selection(k, c, now).v = s)
      /\ vis = 2 => mode = 2
      /\ vis = 1 => mode = 1 /\ k.type[c] = "tristate"
  BY <1>1 DEF C!MemberShown
<1> HIDE DEF mode, vis, val
<1>3. mode = 2 => val = 2 /\ C!Selection(k, c, now).v = s
  BY <1>1, <1>2
<1>4. mode # 2 => val = 1 /\ mode = 1 /\ k.type[c] = "tristate"
  BY <1>1, <1>2
<1> QED BY <1>1, <1>3, <1>4 DEF mode

(* So loading them says the modes, *)
LEMMA LinesSayModes ==
    ASSUME NEW k, NEW depth, NEW u, NEW now, Laid(k, depth, u, now),
           NEW lines, Leaves(k, lines, now), NEW w, FromLines(k, lines, w)
    PROVE  C!SaysModes(k, now, w)
<1> SUFFICES ASSUME NEW c \in k.choices
             PROVE  LET mode == C!ChoiceTri(k, c, now).v IN
                      \/ mode \in 1..2 /\ w[<<"mode", c>>] = mode
                      \/ w[<<"mode", c>>] = Unset /\ C!ModeUnset(k, c, now).v = mode
  BY DEF C!SaysModes
<1> DEFINE mode == C!ChoiceTri(k, c, now).v
           on == OnIn(k, lines, c)
<1>1. /\ on = {} => w[<<"mode", c>>] = Unset
      /\ \A t \in on : on = {t} /\ lines[t] = 2 => w[<<"mode", c>>] = 2
      /\ on # {} /\ (\A t \in on : lines[t] = 1) /\ k.type[c] = "tristate" => w[<<"mode", c>>] = 1
  BY DEF FromLines
<1>2. \A t \in on : IF mode = 2 THEN lines[t] = 2 /\ C!Selection(k, c, now).v = t
                    ELSE lines[t] = 1 /\ mode = 1 /\ k.type[c] = "tristate"
  BY OnInMode
<1>3. ASSUME on = {} PROVE C!ModeUnset(k, c, now).v = mode
  <2>1. CASE mode = C!ModeUnset(k, c, now).v
    BY <2>1
  <2>2. CASE \E s \in C!Members(k, c) : now[<<"tri", s>>] # 0
    <3>1. PICK s \in C!Members(k, c) : now[<<"tri", s>>] # 0
      BY <2>2
    <3>2. s \in k.syms /\ k.choiceOf[s] = c /\ c # NoItem
      BY DEF Laid, C!MembersBelong, ItemsRight
    <3>3. C!MemberShown(k, now, s)
      BY <3>2, OfChoice
    <3>4. s \notin DOMAIN lines
      <4> SUFFICES ASSUME s \in DOMAIN lines PROVE FALSE
        OBVIOUS
      <4>1. lines[s] = now[<<"tri", s>>]
        BY <3>3 DEF Leaves, C!MemberShown
      <4> QED BY <1>3, <3>1, <3>2, <4>1 DEF OnIn
    <3>5. c \notin k.optional /\ k.type[c] = "bool" /\ now[<<"tri", s>>] = 2
      BY <3>1, <3>2, <3>4 DEF Leaves
    <3>6. mode = 2
      <4>1. 2 <= now[<<"vis", s>>] /\ now[<<"vis", s>>] \in 0..2
        BY <3>3, <3>5 DEF C!MemberShown
      <4>2. now[<<"vis", s>>] = 2
        BY <4>1
      <4> QED BY <3>2, <3>3, <4>2 DEF C!MemberShown
    <3>7. C!ModeUnset(k, c, now).v = 2
      BY <3>5, <3>6, C!ModeUnsaid, CacheAssumption DEF Laid
    <3> QED BY <3>6, <3>7
  <2>3. mode = C!ModeUnset(k, c, now).v \/ \E s \in C!Members(k, c) : now[<<"tri", s>>] # 0
    BY DEF Laid, C!ModesShow
  <2> QED BY <2>1, <2>2, <2>3
<1> HIDE DEF mode, on
<1>4. ASSUME on # {} PROVE mode \in 1..2 /\ w[<<"mode", c>>] = mode
  <2>1. CASE mode = 2
    <3>1. PICK t \in on : on = {t} /\ lines[t] = 2
      BY <1>2, <1>4, <2>1
    <3> QED BY <1>1, <2>1, <3>1
  <2>2. CASE mode # 2
    BY <1>1, <1>2, <1>4, <2>2
  <2> QED BY <2>1, <2>2
<1> QED BY <1>1, <1>3, <1>4 DEF mode

(* the selections *)
LEMMA LinesSaySelections ==
    ASSUME NEW k, NEW depth, NEW u, NEW now, Laid(k, depth, u, now),
           NEW lines, Leaves(k, lines, now), NEW w, FromLines(k, lines, w)
    PROVE  C!SaysSelections(k, now, w)
<1> SUFFICES ASSUME NEW c \in k.choices, C!ChoiceTri(k, c, now).v = 2
             PROVE  LET sel == C!Selection(k, c, now).v IN
                      \/ sel # NoItem /\ w[<<"pick", c>>] = sel
                         /\ C!Read(now, <<"vis", sel>>).v # 0
                      \/ w[<<"pick", c>>] = NoItem
                         /\ C!SelectionFromDefaults(k, c, now).v = sel
  BY DEF C!SaysSelections
<1> DEFINE sel == C!Selection(k, c, now).v
           on == OnIn(k, lines, c)
<1>1. /\ on = {} => w[<<"pick", c>>] = NoItem
      /\ \A t \in on : on = {t} /\ lines[t] = 2 => w[<<"pick", c>>] = t
  BY DEF FromLines
<1>2. ASSUME NEW t \in on PROVE lines[t] = 2 /\ sel = t /\ t \in k.syms
  <2>1. t \in OnIn(k, lines, c)
    OBVIOUS
  <2>2. t \in k.syms
    BY <2>1, OnShown
  <2>3. lines[t] = 2 /\ sel = t
    BY <2>1, OnInMode
  <2> QED BY <2>2, <2>3
<1>3. u[<<"pick", c>>] = NoItem \/ u[<<"pick", c>>] \in C!Members(k, c)
  <2>1. \/ u[<<"pick", c>>] = NoItem
        \/ u[<<"pick", c>>] \in k.syms /\ k.choiceOf[u[<<"pick", c>>]] = c
    BY DEF Laid, UserFits
  <2>2. c # NoItem
    BY DEF Laid, ItemsRight
  <2> QED BY <2>1, <2>2, OfChoice
<1>4. /\ sel # NoItem => sel \in C!Members(k, c) /\ sel \in k.syms /\ now[<<"vis", sel>>] # 0
      /\ sel = NoItem => C!SelectionFromDefaults(k, c, now).v = NoItem
  BY <1>3, C!SelectedIs, CacheAssumption DEF Laid
<1>5. CASE sel = NoItem
  <2>1. on = {}
    BY <1>2, <1>5 DEF Laid, ItemsRight
  <2> QED BY <1>1, <1>4, <1>5, <2>1
<1>6. CASE sel # NoItem
  <2>1. k.choiceOf[sel] = c /\ c # NoItem
    BY <1>4, <1>6 DEF Laid, C!MembersBelong, ItemsRight
  <2>2. C!MemberShown(k, now, sel)
    BY <1>4, <1>6, <2>1, OfChoice
  <2>3. now[<<"tri", sel>>] = 2 /\ C!ValueOf(k, sel, now) = now[<<"tri", sel>>]
    BY <1>4, <1>6, <2>1, <2>2 DEF C!MemberShown
  <2>4. CASE sel \in DOMAIN lines
    <3>1. lines[sel] = 2
      BY <2>3, <2>4 DEF Leaves
    <3>2. on = {sel}
      BY <1>2, <2>1, <2>4, <3>1 DEF OnIn
    <3>3. w[<<"pick", c>>] = sel
      BY <1>1, <3>1, <3>2
    <3>4. C!Read(now, <<"vis", sel>>).v # 0
      <4>1. C!SymbolSolved(k, u, now, sel)
        BY <1>4, <1>6, C!SolutionIs, CacheAssumption DEF Laid
      <4>2. C!Read(now, <<"vis", sel>>).v = now[<<"vis", sel>>]
        BY <4>1 DEF C!SymbolSolved
      <4> QED BY <1>4, <1>6, <4>2
    <3> QED BY <1>6, <3>3, <3>4
  <2>5. CASE sel \notin DOMAIN lines
    <3>1. on = {}
      BY <1>2, <2>5 DEF OnIn
    <3>2. C!SelectionFromDefaults(k, c, now).v = sel
      BY <1>4, <1>6, <2>1, <2>3, <2>5 DEF Leaves
    <3> QED BY <1>1, <3>1, <3>2
  <2> QED BY <2>4, <2>5
<1> QED BY <1>5, <1>6

(* and the values again. *)
LEMMA LinesSayValues ==
    ASSUME NEW k, NEW depth, NEW u, NEW now, Laid(k, depth, u, now),
           NEW lines, Leaves(k, lines, now), NEW w, FromLines(k, lines, w)
    PROVE  C!SaysValues(k, now, w)
<1> SUFFICES ASSUME NEW s \in k.syms
             PROVE  LET said == w[<<"user", s>>]
                        vis == now[<<"vis", s>>]
                    IN IF k.choiceOf[s] # NoItem
                       THEN vis = 1 => (said \in {Unset, 0} <=> now[<<"tri", s>>] = 0)
                       ELSE vis # 0 =>
                            \/ said # Unset /\ said = C!ValueOf(k, s, now)
                            \/ /\ said = Unset
                               /\ \/ C!ValueOf(k, s, now) = C!StrDefault(k, s, now).v
                                  \/ C!IsTri(k, s) /\ vis <= ExprValue(k, k.rev[s], now).v
  BY DEF C!SaysValues
<1> DEFINE said == w[<<"user", s>>]
           vis == now[<<"vis", s>>]
           val == now[<<"tri", s>>]
<1>1. said = IF s \in DOMAIN lines THEN lines[s] ELSE Unset
  BY DEF FromLines
<1>2. s \in DOMAIN lines => lines[s] = C!ValueOf(k, s, now) /\ lines[s] # Unset
  BY DEF Leaves
<1>3. CASE k.choiceOf[s] = NoItem
  <2>1. CASE s \in DOMAIN lines
    BY <1>1, <1>2, <1>3, <2>1
  <2>2. CASE s \notin DOMAIN lines
    BY <1>1, <1>3, <2>2 DEF Leaves
  <2> QED BY <2>1, <2>2
<1>4. CASE k.choiceOf[s] # NoItem
  <2>1. C!ValueOf(k, s, now) = val /\ val \in 0..2 /\ val <= vis
    BY <1>4, OfChoice DEF C!MemberShown
  <2>2. s \notin DOMAIN lines /\ val # 0 => val = 2
    BY <1>4 DEF Leaves
  <2> HIDE DEF said, vis, val
  <2>3. vis = 1 => (said \in {Unset, 0} <=> val = 0)
    BY <1>1, <1>2, <2>1, <2>2
  <2> QED BY <1>4, <2>3 DEF said, vis, val
<1> QED BY <1>3, <1>4

LEMMA LinesSay ==
    ASSUME NEW k, NEW depth, NEW u, NEW now, Laid(k, depth, u, now),
           NEW lines, Leaves(k, lines, now), NEW w, FromLines(k, lines, w)
    PROVE  C!SaysAgain(k, now, w)
BY LinesSayModes, LinesSaySelections, LinesSayValues DEF C!SaysAgain

-----------------------------------------------------------------------------
(* A symbol that is not n, and a visible one, has a line in .config. *)
LEMMA WrittenIfShown ==
    ASSUME NEW k, NEW depth, NEW u, NEW now, Laid(k, depth, u, now), NEW s \in k.syms,
           \/ k.choiceOf[s] = NoItem /\ now[<<"vis", s>>] # 0
           \/ k.choiceOf[s] # NoItem /\ now[<<"tri", s>>] # 0
    PROVE  C!WriteToConf(k, s, now)
<1>1. CASE k.choiceOf[s] = NoItem
  BY <1>1, C!PlainWritten, CacheAssumption DEF Laid
<1>2. CASE k.choiceOf[s] # NoItem
  <2> DEFINE vis == now[<<"vis", s>>]
             val == now[<<"tri", s>>]
  <2>1. /\ vis \in 0..2 /\ val \in 0..2 /\ val <= vis
        /\ C!WriteToConf(k, s, now) <=> vis # 0
    BY <1>2, OfChoice DEF C!MemberShown
  <2>2. val # 0
    BY <1>2
  <2> HIDE DEF vis, val
  <2> QED BY <2>1, <2>2
<1> QED BY <1>1, <1>2

(* The lines of a file that has those of .config that are in kept *)
SavedIn(k, now, lines, kept) ==
    /\ DOMAIN lines = {s \in k.syms : C!WriteToConf(k, s, now) /\ s \in kept}
    /\ \A s \in DOMAIN lines :
          lines[s] = C!ValueOf(k, s, now) /\ lines[s] \in Valued(k, s) \ {Unset}

LEMMA ConfigLeaves ==
    ASSUME NEW k, NEW depth, NEW u, NEW now, Laid(k, depth, u, now),
           NEW lines, SavedIn(k, now, lines, k.syms)
    PROVE  Leaves(k, lines, now)
<1>1. ASSUME NEW s \in k.syms \ DOMAIN lines
      PROVE  /\ ~(k.choiceOf[s] = NoItem /\ now[<<"vis", s>>] # 0)
             /\ ~(k.choiceOf[s] # NoItem /\ now[<<"tri", s>>] # 0)
  <2>1. ~C!WriteToConf(k, s, now)
    BY <1>1 DEF SavedIn
  <2> QED BY <2>1, WrittenIfShown
<1> QED BY <1>1 DEF Leaves, SavedIn

(* What is as visible as it is selected is not tristate, if it is not      *)
(* selected and visible.                                                   *)
LEMMA MinLeaves ==
    ASSUME NEW k, NEW depth, NEW u, NEW now, Laid(k, depth, u, now), C!DefaultsInReach(k, now),
           NEW lines, SavedIn(k, now, lines, {s \in k.syms : C!InMinConfig(k, s, now)}),
           \A s \in k.syms : LET c == k.choiceOf[s] IN
               ~(c # NoItem /\ k.type[c] = "tristate" /\ k.type[s] = "bool"
                 /\ C!ValueOf(k, s, now) = 2)
    PROVE  Leaves(k, lines, now)
<1>1. \A s \in k.syms \ DOMAIN lines : C!WriteToConf(k, s, now) => ~C!InMinConfig(k, s, now)
  BY DEF SavedIn
<1>2. ASSUME NEW s \in k.syms \ DOMAIN lines, k.choiceOf[s] = NoItem, now[<<"vis", s>>] # 0
      PROVE  \/ C!ValueOf(k, s, now) = C!StrDefault(k, s, now).v
             \/ C!IsTri(k, s) /\ now[<<"vis", s>>] <= ExprValue(k, k.rev[s], now).v
  <2> DEFINE vis == now[<<"vis", s>>]
             rev == ExprValue(k, k.rev[s], now).v
  <2>1. ~C!InMinConfig(k, s, now)
    BY <1>1, <1>2, WrittenIfShown
  <2>2. ~(vis > rev) \/ C!ValueOf(k, s, now) = C!StrDefault(k, s, now).v
    BY <1>2, <2>1 DEF C!InMinConfig
  <2>3. vis \in 0..2
    <3>1. s \notin k.choices
      BY DEF Laid, ItemsRight
    <3>2. C!Visibility(k, s, now).v \in 0..2
      BY <3>1, C!VisibilityIs, CacheAssumption DEF Laid
    <3>3. C!SymbolSolved(k, u, now, s)
      BY C!SolutionIs, CacheAssumption DEF Laid
    <3> QED BY <3>2, <3>3 DEF C!SymbolSolved
  <2>4. rev \in 0..2 /\ (~C!IsTri(k, s) => rev = 0)
    BY DEF C!DefaultsInReach
  <2>5. vis # 0
    BY <1>2
  <2> HIDE DEF vis, rev
  <2>6. ~(vis > rev) => vis <= rev /\ C!IsTri(k, s)
    BY <2>3, <2>4, <2>5
  <2> QED BY <2>2, <2>6 DEF vis, rev
<1>3. ASSUME NEW s \in k.syms \ DOMAIN lines, k.choiceOf[s] # NoItem, now[<<"tri", s>>] # 0
      PROVE  /\ k.choiceOf[s] \notin k.optional /\ k.type[k.choiceOf[s]] = "bool"
             /\ C!SelectionFromDefaults(k, k.choiceOf[s], now).v = s
             /\ now[<<"tri", s>>] = 2
  <2>1. ~C!InMinConfig(k, s, now)
    BY <1>1, <1>3, WrittenIfShown
  <2>2. C!ValueOf(k, s, now) = now[<<"tri", s>>] /\ C!StrDefault(k, s, now).v = 0
    <3>1. C!MemberShown(k, now, s)
      BY <1>3, OfChoice
    <3> QED BY <3>1 DEF C!MemberShown
  <2>3. /\ k.choiceOf[s] \notin k.optional
        /\ C!SelectionFromDefaults(k, k.choiceOf[s], now).v = s
        /\ k.type[s] = "bool" /\ now[<<"tri", s>>] = 2
    BY <1>3, <2>1, <2>2 DEF C!InMinConfig
  <2>4. k.type[k.choiceOf[s]] \in {"bool", "tristate"}
    BY <1>3 DEF Laid, C!MembersFollow
  <2> QED BY <1>3, <2>2, <2>3, <2>4
<1> QED BY <1>2, <1>3 DEF Leaves, SavedIn

-----------------------------------------------------------------------------
(* What is loaded from such a file determines the same values. *)
SavingRight(depth, rank) ==
    /\ C!TheEvaluation(depth)
    /\ FreshSolved(rank) /\ FreshRight /\ FreshSavable
    /\ ValuesValid /\ TypesStay

LEMMA NowLaid ==
    ASSUME NEW depth, NEW rank, SavingRight(depth, rank),
           NEW n \in DOMAIN Kconfigs, NEW k, k = Kconfigs[n], NEW u, UserFits(k, u)
    PROVE  /\ Laid(k, depth, u, Fresh(k, u)) /\ C!Speakable(k, u, Fresh(k, u))
           /\ C!Ordered(k, Fresh(k, u), rank[n])
           /\ Values(k, u) = ValuesIn(k, Fresh(k, u))
<1> DEFINE now == Fresh(k, u)
<1>1. u \in UserValues(k)
  BY FittingValues
<1>2. /\ C!Solves(k, u, now) /\ C!Ordered(k, now, rank[n])
      /\ Values(k, u) = ValuesIn(k, now)
  BY <1>1 DEF SavingRight, FreshSolved
<1>3. /\ C!MembersBelong(k)
      /\ C!DependenciesMet(k, now) /\ C!MembersFollow(k, now) /\ C!IntsRight(k, now)
  BY <1>1 DEF SavingRight, FreshRight
<1>4. C!DefaultsInReach(k, now) /\ C!ModesShow(k, now)
  BY <1>1 DEF SavingRight, FreshSavable
<1>5. C!Given(k, depth) /\ C!TheCodeOn(k)
  BY DEF SavingRight, C!TheEvaluation, C!TheCodeOn
<1>6. ItemsRight(k)
  BY ItemsAssumption
<1>7. \A s \in k.syms : C!IsTri(k, s) => u[<<"user", s>>] \in 0..2 \cup {Unset}
  BY DEF UserFits, Valued, IsTri, C!IsTri
<1> HIDE DEF now
<1>8. Laid(k, depth, u, now)
  BY <1>2, <1>3, <1>4, <1>5, <1>6 DEF Laid
<1>9. C!Speakable(k, u, now)
  BY <1>3, <1>4, <1>7 DEF C!Speakable
<1> QED BY <1>2, <1>8, <1>9 DEF now

GivesBack(k, u, lines, u0) ==
    \A s \in k.syms : Values(k, Loaded(k, u0, lines, TRUE))[s].val = Values(k, u)[s].val

LEMMA LoadingGivesBack ==
    ASSUME NEW depth, NEW rank, SavingRight(depth, rank),
           NEW n \in DOMAIN Kconfigs, NEW k, k = Kconfigs[n], NEW u, UserFits(k, u),
           NEW lines, Leaves(k, lines, Fresh(k, u)),
           NEW u0, UserFits(k, u0)
    PROVE  GivesBack(k, u, lines, u0)
<1> SUFFICES ASSUME NEW s \in k.syms
             PROVE  Values(k, Loaded(k, u0, lines, TRUE))[s].val = Values(k, u)[s].val
  BY DEF GivesBack
<1> DEFINE now == Fresh(k, u)
           w == Loaded(k, u0, lines, TRUE)
           then == Fresh(k, w)
<1>1. Laid(k, depth, u, now) /\ C!Speakable(k, u, now) /\ Values(k, u) = ValuesIn(k, now)
  BY NowLaid
<1>2. ItemsRight(k)
  BY ItemsAssumption
<1>3. UserFits(k, w)
  <2>1. LinesFit(k, lines)
    BY DEF LinesFit, Valued, Leaves
  <2> QED BY <1>2, <2>1, LoadedFits
<1>4. Laid(k, depth, w, then) /\ C!Ordered(k, then, rank[n]) /\ Values(k, w) = ValuesIn(k, then)
  BY <1>3, NowLaid
<1>5. FromLines(k, lines, w)
  <2>1. DOMAIN lines \subseteq k.syms /\ \A x \in DOMAIN lines : lines[x] \in Valued(k, x)
    BY DEF Leaves
  <2> QED BY <1>2, <2>1, LoadedLinesAre
<1> HIDE DEF now, w, then
<1>6. Leaves(k, lines, now)
  BY DEF now
<1>7. C!SaysAgain(k, now, w)
  BY <1>1, <1>5, <1>6, LinesSay
<1>8. \A e \in C!CacheEntries(k) : then[e] = now[e]
  BY <1>1, <1>4, <1>7, C!SaidAgain, CacheAssumption DEF Laid
<1>9. <<"tri", s>> \in C!CacheEntries(k) /\ <<"str", s>> \in C!CacheEntries(k)
  BY DEF C!CacheEntries
<1>10. C!ValueOf(k, s, then) = C!ValueOf(k, s, now)
  BY <1>8, <1>9 DEF C!ValueOf
<1>11. \A x : ValuesIn(k, x)[s].val = C!ValueOf(k, s, x)
  BY DEF ValuesIn
<1>12. Values(k, w)[s].val = Values(k, u)[s].val
  BY <1>1, <1>4, <1>10, <1>11
<1> QED BY <1>12 DEF w

(* What is written now has the values there are now. *)
LEMMA ContentsAre ==
    ASSUME NEW depth, NEW rank, SavingRight(depth, rank), JobOK, LinesInv, at = "idle",
           NEW k, k = K, NEW now, now = Fresh(K, user)
    PROVE  /\ SavedIn(k, now, ConfigContents, k.syms)
           /\ SavedIn(k, now, MinContents, {s \in k.syms : C!InMinConfig(k, s, now)})
           /\ \A s \in k.syms : vals[s].val = C!ValueOf(k, s, now)
<1>k. kc \in DOMAIN Kconfigs /\ k = Kconfigs[kc]
  BY DEF JobOK, K
<1>1. vals = Values(k, user) /\ UserFits(k, user) /\ user \in UserValues(k)
  BY FittingValues DEF LinesInv
<1>2. vals = ValuesIn(k, now)
  BY <1>k, <1>1, NowLaid
<1>3. ASSUME NEW s \in k.syms
      PROVE  /\ vals[s].val = C!ValueOf(k, s, now)
             /\ vals[s].write <=> C!WriteToConf(k, s, now)
             /\ vals[s].min <=> C!InMinConfig(k, s, now)
  <2>1. vals[s] = [val   |-> C!ValueOf(k, s, now),
                   write |-> C!WriteToConf(k, s, now),
                   min   |-> C!InMinConfig(k, s, now)]
    BY <1>2 DEF ValuesIn
  <2>2. vals[s].val = C!ValueOf(k, s, now)
    BY <2>1
  <2>3. vals[s].write = C!WriteToConf(k, s, now)
    BY <2>1
  <2>4. vals[s].min = C!InMinConfig(k, s, now)
    BY <2>1
  <2> QED BY <2>2, <2>3, <2>4
<1>4. ASSUME NEW s \in k.syms, vals[s].write
      PROVE  vals[s].val \in Valued(k, s) /\ vals[s].val # Unset
  <2>1. vals[s].val \in Valued(k, s)
    BY <1>k, <1>1, <1>4 DEF SavingRight, ValuesValid
  <2>2. Unset \notin Valued(k, s)
    BY <1>k, ItemsAssumption
  <2> QED BY <2>1, <2>2
<1>5. /\ DOMAIN ConfigContents = {s \in k.syms : vals[s].write}
      /\ DOMAIN MinContents = {s \in k.syms : vals[s].write /\ vals[s].min}
      /\ \A s \in DOMAIN ConfigContents : ConfigContents[s] = vals[s].val
      /\ \A s \in DOMAIN MinContents : MinContents[s] = vals[s].val
  BY DEF ConfigContents, MinContents, Kept
<1>6. DOMAIN ConfigContents = {s \in k.syms : C!WriteToConf(k, s, now) /\ s \in k.syms}
  BY <1>3, <1>5
<1>7. DOMAIN MinContents = {s \in k.syms : C!WriteToConf(k, s, now)
                               /\ s \in {x \in k.syms : C!InMinConfig(k, x, now)}}
  BY <1>3, <1>5
<1>8. \A s \in DOMAIN ConfigContents :
         ConfigContents[s] = C!ValueOf(k, s, now) /\ ConfigContents[s] \in Valued(k, s) \ {Unset}
  BY <1>3, <1>4, <1>5
<1>9. \A s \in DOMAIN MinContents :
         MinContents[s] = C!ValueOf(k, s, now) /\ MinContents[s] \in Valued(k, s) \ {Unset}
  BY <1>3, <1>4, <1>5
<1> QED BY <1>3, <1>6, <1>7, <1>8, <1>9 DEF SavedIn

LEMMA ConfigGivesBack ==
    ASSUME NEW depth, NEW rank, SavingRight(depth, rank), JobOK, LinesInv
    PROVE  RoundTrip
<1> SUFFICES ASSUME at = "idle",
                    NEW u0 \in UNION {Edits(K, v) : v \in Edits(K, NoUser(K))},
                    NEW s \in K.syms
             PROVE  Values(K, Loaded(K, u0, ConfigContents, TRUE))[s].val = vals[s].val
  BY DEF RoundTrip, Resting
<1>k. kc \in DOMAIN Kconfigs /\ K = Kconfigs[kc]
  BY DEF JobOK, K
<1>1. UserFits(K, u0)
  <2>1. PICK v \in Edits(K, NoUser(K)) : u0 \in Edits(K, v)
    OBVIOUS
  <2>2. UserFits(K, NoUser(K))
    BY NoUserFits
  <2>3. UserFits(K, v)
    BY <1>k, <2>2, EditsFit
  <2> QED BY <1>k, <2>1, <2>3, EditsFit
<1>2. UserFits(K, user) /\ vals = Values(K, user)
  BY DEF LinesInv
<1>3. Laid(K, depth, user, Fresh(K, user))
  BY <1>k, <1>2, NowLaid
<1>4. SavedIn(K, Fresh(K, user), ConfigContents, K.syms)
  BY ContentsAre
<1>5. Leaves(K, ConfigContents, Fresh(K, user))
  BY <1>3, <1>4, ConfigLeaves
<1>6. GivesBack(K, user, ConfigContents, u0)
  BY <1>k, <1>1, <1>2, <1>5, LoadingGivesBack
<1> QED BY <1>2, <1>6 DEF GivesBack

LEMMA MinConfigGivesBack ==
    ASSUME NEW depth, NEW rank, SavingRight(depth, rank), JobOK, LinesInv
    PROVE  MinConfigIsEnough
<1> SUFFICES ASSUME at = "idle", ~LosesMode, NEW s \in K.syms
             PROVE  Values(K, Loaded(K, NoUser(K), MinContents, TRUE))[s].val = vals[s].val
  BY DEF MinConfigIsEnough, Resting
<1> DEFINE now == Fresh(K, user)
<1>k. kc \in DOMAIN Kconfigs /\ K = Kconfigs[kc]
  BY DEF JobOK, K
<1>1. UserFits(K, NoUser(K))
  BY NoUserFits
<1>2. UserFits(K, user) /\ vals = Values(K, user) /\ user \in UserValues(K)
  BY FittingValues DEF LinesInv
<1>3. Laid(K, depth, user, now) /\ C!DefaultsInReach(K, now)
  <2>1. Laid(K, depth, user, now)
    BY <1>k, <1>2, NowLaid
  <2>2. C!DefaultsInReach(K, now)
    BY <1>k, <1>2 DEF SavingRight, FreshSavable
  <2> QED BY <2>1, <2>2
<1>4. /\ SavedIn(K, now, MinContents, {x \in K.syms : C!InMinConfig(K, x, now)})
      /\ \A x \in K.syms : vals[x].val = C!ValueOf(K, x, now)
  BY ContentsAre
<1>5. \A x \in K.syms : LET c == K.choiceOf[x] IN
         ~(c # NoItem /\ K.type[c] = "tristate" /\ K.type[x] = "bool"
           /\ C!ValueOf(K, x, now) = 2)
  BY <1>4 DEF LosesMode
<1> HIDE DEF now
<1>6. Leaves(K, MinContents, now)
  BY <1>3, <1>4, <1>5, MinLeaves
<1>7. GivesBack(K, user, MinContents, NoUser(K))
  BY <1>k, <1>1, <1>2, <1>6, LoadingGivesBack DEF now
<1> QED BY <1>2, <1>7 DEF GivesBack

(* Loading the .config that was written gives every symbol its value back, *)
(* whatever was set before: for the evaluation of the code, of every       *)
(* Kconfig file without a loop whose values can be said again.             *)
THEOREM CodeRoundTrip ==
    ASSUME NEW depth, NEW rank, SavingRight(depth, rank) PROVE Spec => []RoundTrip
<1>1. ValuesValid /\ TypesStay
  BY DEF SavingRight
<1>2. Spec => [](JobOK /\ LinesInv)
  BY <1>1, LinesAlways
<1>3. JobOK /\ LinesInv => RoundTrip
  BY ConfigGivesBack
<1> QED
  BY <1>2, <1>3, PTL

(* So does the minimal configuration, but for the y mode of a tristate     *)
(* choice with a bool symbol.                                              *)
THEOREM CodeMinConfigIsEnough ==
    ASSUME NEW depth, NEW rank, SavingRight(depth, rank) PROVE Spec => []MinConfigIsEnough
<1>1. ValuesValid /\ TypesStay
  BY DEF SavingRight
<1>2. Spec => [](JobOK /\ LinesInv)
  BY <1>1, LinesAlways
<1>3. JobOK /\ LinesInv => MinConfigIsEnough
  BY MinConfigGivesBack
<1> QED
  BY <1>2, <1>3, PTL
=============================================================================
