---------------------------- MODULE KconfigFiles ----------------------------
(***************************************************************************)
(* The files kconfiglib reads and writes: .config with its backup          *)
(* .config.old, the minimal configuration, and what a build needs to       *)
(* recompile exactly what a change of configuration touches: autoconf.h,   *)
(* auto.conf and the file of each symbol that sync_deps() touches.         *)
(*                                                                         *)
(* The lines of a file are the function from the symbols they are about to *)
(* their values ("# CONFIG_A is not set" gives A the value 0).  The lines  *)
(* are in the order of the Kconfig file, k.order, and an interrupted write *)
(* leaves the first of them.  Comments, and a line cut in the middle, are  *)
(* left out.                                                               *)
(*                                                                         *)
(* How user values determine the values of symbols is the constant         *)
(* operator Values(k, user), the function s |-> [val, write, min]: the     *)
(* value, and whether the symbol gets a line in .config and in the minimal *)
(* configuration.  KconfigCache shows that the cached values the code uses *)
(* are these whenever it asks; vals holds them.                            *)
(***************************************************************************)
EXTENDS KconfigUser

CONSTANTS
    Kconfigs,       \* the Kconfig instances, by name
    Values(_, _),   \* the values that user values give the symbols
    NotBuilt        \* an object that does not exist

VARIABLES
    kc,             \* the Kconfig instance this process has loaded
    user, missing,  \* its user values, and missing_syms
    vals,           \* the values of the symbols
    at,             \* what it is doing
    job,            \* the file it is writing, with the contents
    todo,           \* the symbols whose file sync_deps has yet to touch
    files,          \* the files on disk
    newer,          \* the symbols whose file is newer than their object
    built,          \* history: the value each symbol's object was made with
    saved, saves,   \* history: the last .config that was written whole, and
                    \* the writes begun since
    torn            \* history: a write of auto.conf was interrupted

memory == <<kc, user, missing, vals>>
process == <<memory, at, job, todo>>
history == <<built, saved, saves, torn>>
vars == <<process, files, newer, history>>

K == Kconfigs[kc]
Idle == [file |-> "none", contents |-> Empty]
Files == {"config", "old", "min", "header", "auto"}
Sources == UNION {Kconfigs[n].sources : n \in DOMAIN Kconfigs}

Val(file, s) == IF s \in DOMAIN file THEN file[s] ELSE Unset

(* The Kconfig files edited next are among the instances; a process fails  *)
(* with an error it goes on after, or stops.                               *)
ASSUME KconfigsAssumption ==
    \A n \in DOMAIN Kconfigs : /\ Kconfigs[n].edited \subseteq DOMAIN Kconfigs
                               /\ Kconfigs[n].failures \subseteq {"idle", "down"}

(* What is entered for symbols and choices, and in the default             *)
(* configuration and the fragments made for them, is valid for them.       *)
ASSUME ItemsAssumption ==
    \A n \in DOMAIN Kconfigs : \E k \in {Kconfigs[n]} :
        /\ ItemsRight(k)
        /\ \A i \in k.syms \cup k.choices : /\ k.inputs[i] \subseteq Valued(k, i)
                                           /\ Unset \notin Valued(k, i)
        /\ \A file \in k.fragments : LinesFit(k, file)
        /\ k.defconfig.there => LinesFit(k, k.defconfig.lines)

Init ==
    /\ kc \in DOMAIN Kconfigs
    /\ user = NoUser(K) /\ missing = {} /\ vals = Values(K, user)
    /\ at = "idle" /\ job = Idle /\ todo = {}
    /\ files = [f \in Files |-> Missing]
    /\ newer = {}
    /\ built = [s \in Sources |-> NotBuilt]
    /\ saved = Missing /\ saves = 0 /\ torn = FALSE

-----------------------------------------------------------------------------
(* Contents of the files *)
IsN(s) == IsTri(K, s) /\ vals[s].val = 0
Kept(S) == [s \in S |-> vals[s].val]

(* _config_contents: every symbol with a config_string *)
ConfigContents == Kept({s \in K.syms : vals[s].write})

(* _autoconf_contents and _old_vals_contents: what is n has no line. *)
AutoContents ==
    Kept({s \in K.syms : vals[s].write /\ ~IsN(s)})

(* _min_config_contents *)
MinContents == Kept({s \in K.syms : vals[s].write /\ vals[s].min})

-----------------------------------------------------------------------------
Load(file, replace) ==
    /\ at = "idle"
    /\ \E u \in {Loaded(K, user, file, replace)} : user' = u /\ vals' = Values(K, u)
    /\ missing' = (IF replace THEN {} ELSE missing) \cup (DOMAIN file \ K.syms)
    /\ UNCHANGED <<kc, at, job, todo, files, newer, history>>

(* load_config() of .config, or else of the default configuration; with    *)
(* neither the symbols keep their values                                   *)
LoadConfig ==
    \E file \in {IF files["config"] # Missing THEN files["config"] ELSE K.defconfig} :
        file.there /\ Load(file.lines, TRUE)

(* load_config(file, replace=False), as load_allconfig calls it too *)
MergeConfig(file) == Load(file, FALSE)

(* set_value, unset_value and unset_values *)
Edits(k, u) ==
    (UNION {{Assigned(k, u, s, v) : v \in k.inputs[s]} : s \in k.syms})
    \cup {[u EXCEPT ![<<"user", s>>] = Unset] : s \in k.syms}
    \cup (UNION {{[u EXCEPT ![<<"mode", c>>] = v] : v \in k.inputs[c]} : c \in k.choices})
    \cup {[u EXCEPT ![<<"mode", c>>] = Unset, ![<<"pick", c>>] = NoItem] : c \in k.choices}
    \cup {NoUser(k)}

Edit ==
    /\ at = "idle"
    /\ \E u \in Edits(K, user) : user' = u /\ vals' = Values(K, u)
    /\ UNCHANGED <<kc, missing, at, job, todo, files, newer, history>>

-----------------------------------------------------------------------------
(* Writing: a file that has the contents already is left untouched.  Then  *)
(* the process goes on where it would after the write.                     *)
After(file) == CASE file \in {"config", "min"} -> "idle"
                 [] file = "header" -> "sync"
                 [] file = "auto" -> "synced"

Write(file, contents) ==
    IF files[file] = Whole(contents)
    THEN at' = After(file) /\ UNCHANGED job
    ELSE at' = "open" /\ job' = [file |-> file, contents |-> contents]

\* Mutant of SaveOld: a backup that is there is not replaced.
SaveOldOnce(how) ==
    IF how = "fails" \/ files["config"] = Missing \/ files["old"] # Missing THEN files
    ELSE [files EXCEPT !["old"] = files["config"],
                       !["config"] = IF how = "copies" THEN @ ELSE Missing]

(* _save_old: .config is renamed (a symbolic link copied) to .config.old.  *)
(* Errors are ignored, a missing .config among them.                       *)
SaveOld(how) ==
    IF how = "fails" \/ files["config"] = Missing THEN files
    ELSE [files EXCEPT !["old"] = files["config"],
                       !["config"] = IF how = "copies" THEN @ ELSE Missing]

(* write_config.  A save counts as unprotected where no backup is made.    *)
WriteConfig(how) ==
    /\ at = "idle"
    /\ Write("config", ConfigContents)
    /\ IF files["config"] = Whole(ConfigContents)
       THEN saved' = files["config"] /\ saves' = 0 /\ UNCHANGED files
       ELSE /\ files' = SaveOld(how)
            /\ saves' = IF saves = 0 /\ how # "fails" THEN 1 ELSE 2
            /\ UNCHANGED saved
    /\ UNCHANGED <<memory, todo, newer, built, torn>>

(* write_min_config *)
WriteMinConfig ==
    /\ at = "idle"
    /\ Write("min", MinContents)
    /\ UNCHANGED <<memory, todo, files, newer, history>>

(* A build starts with write_autoconf, *)
WriteAutoconf ==
    /\ at = "idle"
    /\ Write("header", AutoContents)
    /\ UNCHANGED <<memory, todo, files, newer, history>>

(* and goes on with sync_deps.  _load_old_vals flags the symbols of        *)
(* auto.conf that no longer exist (a symbol a Kconfig file only mentions   *)
(* is in k.named), then every symbol whose value changed is flagged.       *)
OldVals == files["auto"].lines

Gone == DOMAIN OldVals \ K.named

\* Mutant of Changed: a symbol that is no longer written is not looked at.
ChangedWritten ==
    {s \in K.syms : vals[s].write /\ IF IsN(s) THEN Val(OldVals, s) # Unset
                                     ELSE Val(OldVals, s) # vals[s].val}

(* (An n that was not n before has changed: auto.conf holds no n.) *)
Changed ==
    {s \in K.syms :
        IF vals[s].write /\ ~IsN(s) THEN Val(OldVals, s) # vals[s].val
        ELSE Val(OldVals, s) # Unset}

SyncDeps ==
    /\ at = "sync"
    /\ todo' = Gone \cup Changed
    /\ at' = "touch"
    /\ UNCHANGED <<memory, job, files, newer, history>>

(* _touch_dep_file *)
Touch(s) ==
    /\ at = "touch" /\ s \in todo
    /\ todo' = todo \ {s}
    /\ newer' = newer \cup {s}
    /\ UNCHANGED <<memory, at, job, files, history>>

(* _write_old_vals comes last: "sync_deps() can be safely rerun if it      *)
(* fails before this point".                                               *)
WriteOldVals ==
    /\ at = "touch" /\ todo = {}
    /\ Write("auto", AutoContents)
    /\ UNCHANGED <<memory, todo, files, newer, history>>

(* open(filename, "w") truncates the file, *)
OpenForWriting ==
    /\ at = "open"
    /\ at' = "write"
    /\ files' = [files EXCEPT ![job.file] = Whole(Empty)]
    /\ UNCHANGED <<memory, job, todo, newer, history>>

(* and write() and close() fill it. *)
FinishWriting ==
    /\ at = "write"
    /\ files' = [files EXCEPT ![job.file] = Whole(job.contents)]
    /\ IF job.file = "config" THEN saved' = Whole(job.contents) /\ saves' = 0
       ELSE UNCHANGED <<saved, saves>>
    /\ at' = After(job.file)
    /\ job' = Idle
    /\ UNCHANGED <<memory, todo, newer, built, torn>>

(* An error or a crash: writing may have got to any point.  After an error *)
(* the program can go on (menuconfig shows it and does).                   *)
Fail(next) ==
    /\ at # "down"
    /\ next = "idle" => at # "idle"
    /\ IF at = "write"
       THEN /\ \E left \in LeftOf(K, job.contents) :
                  files' = [files EXCEPT ![job.file] = Whole(left)]
            /\ torn' = (torn \/ job.file = "auto")
       ELSE UNCHANGED <<files, torn>>
    /\ at' = next /\ job' = Idle /\ todo' = {}
    /\ IF next = "down" THEN user' = NoUser(K) /\ missing' = {} /\ vals' = Empty
       ELSE UNCHANGED <<user, missing, vals>>
    /\ UNCHANGED <<kc, newer, built, saved, saves>>

\* Mutant of Start: the user values outlive the process.
StartRemembers(n) ==
    /\ at = "down"
    /\ kc' = n
    /\ vals' = Values(Kconfigs[n], NoUser(Kconfigs[n]))
    /\ at' = "idle"
    /\ UNCHANGED <<user, missing, job, todo, files, newer, history>>

(* The next process, maybe with edited Kconfig files *)
Start(n) ==
    /\ at = "down"
    /\ kc' = n
    /\ user' = NoUser(Kconfigs[n])
    /\ vals' = Values(Kconfigs[n], NoUser(Kconfigs[n]))
    /\ at' = "idle"
    /\ UNCHANGED <<missing, job, todo, files, newer, history>>

(* Make rebuilds an object that does not exist or is older than the file   *)
(* of the symbol it depends on, *)
Compile(s) ==
    /\ at = "synced"
    /\ s \in newer \/ built[s] = NotBuilt
    /\ built' = [built EXCEPT ![s] = Val(files["header"].lines, s)]
    /\ newer' = newer \ {s}
    /\ UNCHANGED <<process, files, saved, saves, torn>>

(* until none is left. *)
BuildDone ==
    /\ at = "synced"
    /\ \A s \in K.sources : s \notin newer /\ built[s] # NotBuilt
    /\ at' = "idle"
    /\ UNCHANGED <<memory, job, todo, files, newer, history>>

Next ==
    \/ Edit
    \/ LoadConfig
    \/ \E file \in K.fragments : MergeConfig(file)
    \/ \E how \in K.backups : WriteConfig(how)
    \/ "min" \in K.does /\ WriteMinConfig
    \/ "build" \in K.does /\ WriteAutoconf
    \/ SyncDeps
    \/ \E s \in todo : Touch(s)
    \/ WriteOldVals
    \/ OpenForWriting
    \/ FinishWriting
    \/ \E next \in K.failures : Fail(next)
    \/ \E n \in K.edited : Start(n)
    \/ \E s \in K.sources : Compile(s)
    \/ BuildDone

Spec == Init /\ [][Next]_vars

-----------------------------------------------------------------------------
TypeOK ==
    /\ kc \in DOMAIN Kconfigs
    /\ DOMAIN user = UserEntries(K)
    /\ at \in {"down", "idle", "open", "write", "sync", "touch", "synced"}
    /\ at \in {"open", "write"} => job.file \in Files \ {"old"}
    /\ DOMAIN files = Files
    /\ DOMAIN built = Sources
    /\ saves \in 0..2 /\ torn \in BOOLEAN

(* The last configuration that was saved whole is on disk, as .config or   *)
(* as .config.old, whenever the process or the machine stops during the    *)
(* save that follows it.  (Once that save failed its remains are .config,  *)
(* and saving again makes them the backup: saves counts the attempts.)     *)
BackupSurvives ==
    saved # Missing /\ saves <= 1 => saved \in {files["config"], files["old"]}

(* The Kconfig files never go on naming a symbol they no longer define. *)
NamesStayDefined ==
    \A m, n \in DOMAIN Kconfigs : Kconfigs[m].syms \cap Kconfigs[n].named
                                    \subseteq Kconfigs[n].syms

(* "The source file will then get recompiled (only) when the symbol value  *)
(* changes (provided sync_deps() is run first during each build)": when    *)
(* make looks at the touched files, an object that is not older than its   *)
(* symbol's file was made with the value autoconf.h gives the symbol,      *)
(* wherever earlier syncs and builds were interrupted.  An interrupted     *)
(* write of auto.conf itself may hide the change of a symbol to n.         *)
ObjectsUpToDate ==
    NamesStayDefined /\ at = "synced" =>
        \A s \in K.sources :
            \/ s \in newer \/ built[s] = NotBuilt
            \/ built[s] = Val(files["header"].lines, s)
            \/ torn /\ Val(files["header"].lines, s) = Unset

(* "Returns True if a just-loaded .config file is outdated": where it does *)
(* not, after any edit of the Kconfig files, the file and the symbols      *)
(* agree on every value but n, so that quitting without saving loses       *)
(* nothing.                                                                *)
NoSaveMissed ==
    LET file == files["config"].lines IN
    /\ at = "idle" /\ files["config"].there
    /\ user = Loaded(K, NoUser(K), file, TRUE) /\ missing = DOMAIN file \ K.syms
    /\ ~NeedsSave(K, user, vals, missing)
    => AutoContents = [s \in {x \in DOMAIN file : ~(IsTri(K, x) /\ file[x] = 0)} |->
                            file[s]]

-----------------------------------------------------------------------------
(* What the last property rests on, besides the code above.  A .config     *)
(* line has a value valid for its symbol, and a user value that is the     *)
(* symbol's value, and not n, gives it a line: true of the evaluation but  *)
(* for a string that is empty and hidden.                                  *)
ValuesValid ==
    \A n \in DOMAIN Kconfigs : \A u \in UserValues(Kconfigs[n]) :
        \E w \in {Values(Kconfigs[n], u)} : \A s \in Kconfigs[n].syms :
            /\ w[s].write => w[s].val \in Valued(Kconfigs[n], s)
            /\ w[s].val = u[<<"user", s>>] =>
                  w[s].write \/ (IsTri(Kconfigs[n], s) /\ w[s].val = 0)

(* And editing the Kconfig files, once or again, takes no value away from  *)
(* a symbol that stays or comes back.                                      *)
TypesStay ==
    \A m \in DOMAIN Kconfigs : \A n \in Kconfigs[m].edited :
        /\ Kconfigs[n].edited \subseteq Kconfigs[m].edited
        /\ \A s \in Kconfigs[m].syms \cap Kconfigs[n].syms :
              Valued(Kconfigs[m], s) \subseteq Valued(Kconfigs[n], s)
=============================================================================
