--------------------------- MODULE DownloadEnhanced ---------------------------
(***************************************************************************)
(* scripts/download-enhanced.sh: a call of download_packages_enhanced and  *)
(* the calls after it, on the files each leaves in the sources directory.  *)
(*                                                                         *)
(* The script sets "set -euo pipefail" in the shell that sources it.  Bash *)
(* suspends -e in a function called in a condition (if, &&, ||), so a call *)
(* is either tested or bare, and the two differ at the commands            *)
(* ((downloaded_count++)) and ((failed_count++)), whose status is 1 when   *)
(* the counter was 0.                                                      *)
(***************************************************************************)
EXTENDS Naturals, FiniteSets

CONSTANTS
    Packages,    \* the keys of PACKAGES
    Checked,     \* those whose file has an entry in CHECKSUMS
    Modes,       \* how the function is called, see Mode
    MaxFaults    \* bound on the faults of a behaviour

Mode == [tested : {"yes", "no"}, interactive : {"yes", "no"}]

ASSUME PackagesAssumption == Checked \subseteq Packages /\ Packages # {}
ASSUME ModesAssumption    == Modes \subseteq Mode /\ Modes # {} /\ MaxFaults \in Nat

MaxAttempts == 3

VARIABLES
    stage,       \* idle, connect, choose, fetch, check
    mode,        \* of the present (or last) call
    left,        \* the packages the loop has still to process
    cur,         \* the package it is at
    attempts,    \* download_attempts
    good, bad,   \* downloaded_count, failed_count
    file,        \* absent, empty, partial, corrupt or whole
    outcome,     \* of the last call: success, failed (return 1), aborted (-e), killed
    report,      \* what verify_all_packages or check_missing_packages last said
    faults,      \* faults so far (bound)
    hit          \* has a fault hit this call? (observer)

loop   == <<left, cur, attempts, good, bad>>
vars   == <<stage, mode, left, cur, attempts, good, bad, file, outcome, report, faults, hit>>
Files  == {"absent", "empty", "partial", "corrupt", "whole"}

TypeOK ==
    /\ stage \in {"idle", "connect", "choose", "fetch", "check"}
    /\ mode \in Modes
    /\ left \subseteq Packages /\ cur \in Packages
    /\ attempts \in 0..MaxAttempts
    /\ good \in Nat /\ bad \in Nat
    /\ file \in [Packages -> Files]
    /\ outcome \in {"none", "success", "failed", "aborted", "killed"}
    /\ report \in {"none", "verified", "unverified", "present", "missing"}
    /\ faults \in 0..MaxFaults /\ hit \in {"yes", "no"}

Init ==
    /\ stage = "idle" /\ mode \in Modes
    /\ left = {} /\ cur \in Packages /\ attempts = 0 /\ good = 0 /\ bad = 0
    /\ file = [p \in Packages |-> "absent"]
    /\ outcome = "none" /\ report = "none" /\ faults = 0 /\ hit = "no"

-------------------------------------------------------------------------------

Fault == faults < MaxFaults /\ faults' = faults + 1 /\ hit' = "yes"
NoFault == UNCHANGED <<faults, hit>>
Put(s) == file' = [file EXCEPT ![cur] = s]

\* The function returns, or its shell exits.
End(o) == stage' = "idle" /\ outcome' = o

\* download_package returned 0: ((downloaded_count++)).
Succeeded ==
    /\ good' = good + 1 /\ bad' = bad
    /\ IF mode.tested = "no" /\ good = 0 THEN End("aborted")
                                         ELSE stage' = "choose" /\ outcome' = outcome

\* It returned 1: ((failed_count++)), and an interactive call asks whether to go on.
Failed ==
    /\ bad' = bad + 1 /\ good' = good
    /\ IF mode.tested = "no" /\ bad = 0 THEN End("aborted")
       ELSE \/ stage' = "choose" /\ outcome' = outcome
            \/ mode.interactive = "yes" /\ End("failed")

Call(m) ==
    /\ stage = "idle" /\ stage' = "connect" /\ mode' = m
    /\ left' = Packages /\ good' = 0 /\ bad' = 0 /\ attempts' = 0 /\ cur' = cur
    /\ outcome' = "none" /\ report' = "none" /\ hit' = "no"
    /\ UNCHANGED <<file, faults>>

\* ping 8.8.8.8
Connect ==
    /\ stage = "connect" /\ stage' = "choose"
    /\ UNCHANGED <<mode, loop, file, outcome, report, faults, hit>>
NoNetwork ==
    /\ stage = "connect" /\ Fault /\ End("failed")
    /\ UNCHANGED <<mode, loop, file, report>>

\* Mutants of Choose: a file that is there is taken; everything is fetched
\* again; a file that fails verification is not removed.
ChooseExisting ==
    /\ stage = "choose"
    /\ \E p \in left :
        /\ cur' = p /\ left' = left \ {p} /\ attempts' = 0 /\ file' = file
        /\ IF file[p] # "absent" THEN Succeeded
                                 ELSE stage' = "fetch" /\ UNCHANGED <<good, bad, outcome>>
    /\ NoFault /\ UNCHANGED <<mode, report>>
ChooseAgain ==
    /\ stage = "choose"
    /\ \E p \in left :
        /\ cur' = p /\ left' = left \ {p} /\ attempts' = 0
        /\ file' = [file EXCEPT ![p] = "absent"] /\ stage' = "fetch"
    /\ NoFault /\ UNCHANGED <<mode, report, good, bad, outcome>>
ChooseKeeping ==
    /\ stage = "choose"
    /\ \E p \in left :
        /\ cur' = p /\ left' = left \ {p} /\ attempts' = 0 /\ file' = file
        /\ IF p \in Checked /\ file[p] = "whole"
           THEN Succeeded
           ELSE stage' = "fetch" /\ UNCHANGED <<good, bad, outcome>>
    /\ NoFault /\ UNCHANGED <<mode, report>>

\* The loop takes the next package, in the order of the associative array; a
\* file that is there and verified is used, any other is removed.
Choose ==
    /\ stage = "choose"
    /\ \E p \in left :
        /\ cur' = p /\ left' = left \ {p} /\ attempts' = 0
        /\ IF p \in Checked /\ file[p] = "whole"
           THEN file' = file /\ Succeeded
           ELSE /\ file' = [file EXCEPT ![p] = "absent"] /\ stage' = "fetch"
                /\ UNCHANGED <<good, bad, outcome>>
    /\ NoFault /\ UNCHANGED <<mode, report>>

\* wget --continue: adds what is missing, and leaves a file of full length alone.
Fetch ==
    /\ stage = "fetch" /\ stage' = "check"
    /\ attempts' = attempts + 1
    /\ Put(IF file[cur] = "corrupt" THEN "corrupt" ELSE "whole")
    /\ NoFault /\ UNCHANGED <<mode, left, cur, good, bad, outcome, report>>

\* It ends well, but the file is not what it should be, or not there.
FetchBadly ==
    /\ stage = "fetch" /\ stage' = "check" /\ Fault
    /\ attempts' = attempts + 1
    /\ \E s \in {"absent", "empty", "corrupt"} : Put(s)
    /\ UNCHANGED <<mode, left, cur, good, bad, outcome, report>>

\* It fails, and is tried again up to max_attempts times.
FetchFails ==
    /\ stage = "fetch" /\ Fault
    /\ attempts' = attempts + 1
    /\ Put("partial") \/ file' = file
    /\ IF attempts + 1 = MaxAttempts THEN Failed ELSE UNCHANGED <<stage, good, bad, outcome>>
    /\ UNCHANGED <<mode, left, cur, report>>

\* Mutant of Check: a file without a checksum is refused.
CheckStrictly ==
    /\ stage = "check"
    /\ IF cur \in Checked /\ file[cur] = "whole"
       THEN file' = file /\ Succeeded
       ELSE Put("absent") /\ Failed
    /\ NoFault /\ UNCHANGED <<mode, left, cur, attempts, report>>

\* The file is there, not empty, and, where there is a checksum, verified; one
\* that is not is removed.
Check ==
    /\ stage = "check"
    /\ IF file[cur] \notin {"absent", "empty"} /\ (cur \in Checked => file[cur] = "whole")
       THEN file' = file /\ Succeeded
       ELSE Put("absent") /\ Failed
    /\ NoFault /\ UNCHANGED <<mode, left, cur, attempts, report>>

\* The summary: return 1 if a package failed.
Summary ==
    /\ stage = "choose" /\ left = {}
    /\ End(IF bad > 0 THEN "failed" ELSE "success")
    /\ UNCHANGED <<mode, loop, file, report, faults, hit>>

\* The shell is killed; a download in progress leaves a part of the file.
Kill ==
    /\ stage # "idle" /\ Fault /\ End("killed")
    /\ file' = file \/ (stage = "fetch" /\ Put("partial"))
    /\ UNCHANGED <<mode, loop, report>>

\* verify_all_packages (in a condition): the files that have a checksum and are there.
VerifyAll ==
    /\ stage = "idle"
    /\ report' = IF \A p \in Checked : file[p] \in {"absent", "whole"} THEN "verified" ELSE "unverified"
    /\ UNCHANGED <<stage, mode, loop, file, outcome, faults, hit>>

\* check_missing_packages
CheckMissing ==
    /\ stage = "idle"
    /\ report' = IF \A p \in Packages : file[p] # "absent" THEN "present" ELSE "missing"
    /\ UNCHANGED <<stage, mode, loop, file, outcome, faults, hit>>

Work == Connect \/ Choose \/ Fetch \/ Check \/ Summary
Breakage == NoNetwork \/ FetchBadly \/ FetchFails \/ Kill
Retry == outcome # "success" /\ \E m \in Modes : m.tested = "yes" /\ Call(m)

Next == (\E m \in Modes : Call(m)) \/ Work \/ Breakage \/ VerifyAll \/ CheckMissing

Spec == Init /\ [][Next]_vars

\* A running call goes on, and the user keeps making tested calls until one
\* succeeds, whatever bare calls are made besides.
RetrySpec == Spec /\ WF_vars(Work \/ FetchFails) /\ SF_vars(Retry)

-------------------------------------------------------------------------------
(* Properties *)

\* A call that succeeds leaves every file there, none a part of one, and those
\* with a checksum right: whatever earlier calls left, and however they ended.
SuccessIsComplete ==
    outcome = "success" =>
        \A p \in Packages :
            /\ file[p] \in {"corrupt", "whole"}
            /\ p \in Checked => file[p] = "whole"

\* A file once verified is never fetched again, nor lost.
VerifiedFilesKept ==
    [][\A p \in Checked : file[p] = "whole" => file'[p] = "whole"]_vars

\* No call fails for what earlier ones left: a fault hit it.
FailsOnlyByFault == outcome = "failed" => hit = "yes"

\* Tested calls repeated until one succeeds do succeed once the faults end.
RetrySucceeds == (outcome \in {"failed", "killed"}) ~> (outcome = "success")
===============================================================================
