------------------------ MODULE DownloadEnhanced_proofs ------------------------
(***************************************************************************)
(* Proofs about DownloadEnhanced: what a successful call leaves, for every *)
(* set of packages and checksums and every number of faults and calls.     *)
(***************************************************************************)
EXTENDS DownloadEnhanced, TLAPS

Looping == stage \in {"choose", "fetch", "check"}

\* What the loop is past is as a successful call leaves it, while none failed.
Fine(p)  == file[p] \in {"corrupt", "whole"} /\ (p \in Checked => file[p] = "whole")
Taken(p) == p \notin left /\ ~(stage \in {"fetch", "check"} /\ p = cur)
TakenAreFine == Looping /\ bad = 0 => \A p \in Packages : Taken(p) => Fine(p)

\* The package being fetched starts from nothing or a part of this call's own.
InHand ==
    /\ stage \in {"fetch", "check"} => cur \notin left
    /\ stage = "fetch" => attempts < MaxAttempts /\ file[cur] \in {"absent", "partial"}
    /\ stage = "check" => file[cur] # "partial" /\ (file[cur] = "whole" \/ hit = "yes")

\* A running call has no outcome; one that counts a failure was hit by a fault.
Running ==
    /\ stage # "idle" => outcome = "none"
    /\ stage = "connect" => left = Packages /\ bad = 0
    /\ Looping /\ bad > 0 => hit = "yes"

IInv == TypeOK /\ TakenAreFine /\ InHand /\ Running /\ SuccessIsComplete /\ FailsOnlyByFault

\* Before the first call the invariant holds.
LEMMA InitInv == Init => IInv
BY PackagesAssumption, ModesAssumption
   DEF Init, IInv, TypeOK, MaxAttempts, Files, TakenAreFine, Looping, InHand, Running,
       SuccessIsComplete, FailsOnlyByFault

\* The steps between calls.
LEMMA IdleInv == IInv /\ ((\E m \in Modes : Call(m)) \/ VerifyAll \/ CheckMissing) => IInv'
<1> SUFFICES ASSUME IInv, (\E m \in Modes : Call(m)) \/ VerifyAll \/ CheckMissing PROVE IInv'
  OBVIOUS
<1> USE DEF IInv, TypeOK, Files, TakenAreFine, Looping, InHand, Running, SuccessIsComplete,
            FailsOnlyByFault, loop
<1>1. ASSUME NEW m \in Modes, Call(m) PROVE IInv'
  BY <1>1 DEF Call, MaxAttempts
<1>2. CASE VerifyAll
  BY <1>2 DEF VerifyAll, Taken, Fine
<1>3. CASE CheckMissing
  BY <1>3 DEF CheckMissing, Taken, Fine
<1> QED
  BY <1>1, <1>2, <1>3

\* The test of the network touches no file.
LEMMA ConnectInv == IInv /\ (Connect \/ NoNetwork) => IInv'
<1> SUFFICES ASSUME IInv, Connect \/ NoNetwork PROVE IInv'
  OBVIOUS
<1> USE DEF IInv, TypeOK, Files, TakenAreFine, Looping, InHand, Running, SuccessIsComplete,
            FailsOnlyByFault, loop
<1>1. CASE Connect
  BY <1>1 DEF Connect, Taken
<1>2. CASE NoNetwork
  BY <1>2, ModesAssumption DEF NoNetwork, Fault, End
<1> QED
  BY <1>1, <1>2

\* The loop takes a package; only a file that is not verified is removed.
LEMMA ChooseInv == IInv /\ Choose => IInv'
<1> SUFFICES ASSUME IInv, Choose PROVE IInv'
  OBVIOUS
<1> USE DEF IInv, TypeOK, Files, TakenAreFine, Looping, InHand, Running, SuccessIsComplete,
            FailsOnlyByFault, NoFault
<1>1. PICK p \in left :
        /\ cur' = p /\ left' = left \ {p} /\ attempts' = 0
        /\ IF p \in Checked /\ file[p] = "whole"
           THEN file' = file /\ Succeeded
           ELSE /\ file' = [file EXCEPT ![p] = "absent"] /\ stage' = "fetch"
                /\ UNCHANGED <<good, bad, outcome>>
  BY DEF Choose
<1>2. CASE p \in Checked /\ file[p] = "whole"
  BY <1>1, <1>2 DEF Choose, Succeeded, End, Taken, Fine, MaxAttempts
<1>3. CASE ~(p \in Checked /\ file[p] = "whole")
  BY <1>1, <1>3 DEF Choose, Taken, Fine, MaxAttempts
<1> QED
  BY <1>2, <1>3

\* A fetch, good or bad, concerns the current file only, and counts the attempt.
LEMMA FetchInv == IInv /\ (Fetch \/ FetchBadly \/ FetchFails) => IInv'
<1> SUFFICES ASSUME IInv, Fetch \/ FetchBadly \/ FetchFails PROVE IInv'
  OBVIOUS
<1> USE ModesAssumption
    DEF IInv, TypeOK, Files, TakenAreFine, Looping, InHand, Running, SuccessIsComplete,
        FailsOnlyByFault, MaxAttempts, Put, Fault, Taken, Fine
<1>1. CASE Fetch
  BY <1>1 DEF Fetch, NoFault
<1>2. CASE FetchBadly
  BY <1>2 DEF FetchBadly
<1>3. CASE FetchFails
  BY <1>3 DEF FetchFails, Failed, End
<1> QED
  BY <1>1, <1>2, <1>3

\* A file that passes is counted as good, any other is removed and counted as bad.
LEMMA CheckInv == IInv /\ Check => IInv'
<1> SUFFICES ASSUME IInv, Check PROVE IInv'
  OBVIOUS
<1> USE DEF IInv, TypeOK, Files, TakenAreFine, Looping, InHand, Running, SuccessIsComplete,
            FailsOnlyByFault, NoFault, Taken, Fine
<1>1. CASE file[cur] \notin {"absent", "empty"} /\ (cur \in Checked => file[cur] = "whole")
  BY <1>1 DEF Check, Succeeded, End
<1>2. CASE ~(file[cur] \notin {"absent", "empty"} /\ (cur \in Checked => file[cur] = "whole"))
  BY <1>2 DEF Check, Failed, End, Put
<1> QED
  BY <1>1, <1>2

\* The end of a call, by its summary or by a kill.
LEMMA EndInv == IInv /\ (Summary \/ Kill) => IInv'
<1> SUFFICES ASSUME IInv, Summary \/ Kill PROVE IInv'
  OBVIOUS
<1> USE ModesAssumption
    DEF IInv, TypeOK, Files, TakenAreFine, Looping, InHand, Running, SuccessIsComplete,
        FailsOnlyByFault, End, loop
<1>1. CASE Summary
  BY <1>1 DEF Summary, Taken, Fine
<1>2. CASE Kill
  BY <1>2 DEF Kill, Fault, Put
<1> QED
  BY <1>1, <1>2

\* The invariant holds in every reachable state of any sequence of calls.
THEOREM Invariance == Spec => []IInv
<1>1. IInv /\ UNCHANGED vars => IInv'
  BY DEF vars, IInv, TypeOK, TakenAreFine, Looping, Taken, Fine, InHand, Running,
         SuccessIsComplete, FailsOnlyByFault
<1>2. IInv /\ [Next]_vars => IInv'
  BY <1>1, IdleInv, ConnectInv, ChooseInv, FetchInv, CheckInv, EndInv DEF Next, Work, Breakage
<1> QED
  BY InitInv, <1>2, PTL DEF Spec

\* Every reachable state is well typed; no package is tried more than MaxAttempts times.
THEOREM TypeCorrect == Spec => []TypeOK
<1>1. IInv => TypeOK
  BY DEF IInv
<1> QED
  BY Invariance, <1>1, PTL

\* A call that reports success leaves every file present and whole as far as it
\* has a checksum, whatever the calls before it left.
THEOREM SuccessComplete == Spec => []SuccessIsComplete
<1>1. IInv => SuccessIsComplete
  BY DEF IInv
<1> QED
  BY Invariance, <1>1, PTL

\* A call fails only for a fault of its own: the function heals what is left.
THEOREM FailureIsFault == Spec => []FailsOnlyByFault
<1>1. IInv => FailsOnlyByFault
  BY DEF IInv
<1> QED
  BY Invariance, <1>1, PTL

\* No step of any call fetches again, spoils or removes a verified file.
THEOREM VerifiedKept == Spec => VerifiedFilesKept
<1>1. IInv /\ [Next]_vars => [\A p \in Checked : file[p] = "whole" => file'[p] = "whole"]_vars
  <2> SUFFICES ASSUME IInv, Next, NEW p \in Checked, file[p] = "whole"
               PROVE  file'[p] = "whole"
    OBVIOUS
  <2> USE PackagesAssumption DEF IInv, TypeOK, loop
  <2>1. CASE \E m \in Modes : Call(m)
    BY <2>1 DEF Call
  <2>2. CASE Connect \/ NoNetwork \/ Summary \/ VerifyAll \/ CheckMissing
    BY <2>2 DEF Connect, NoNetwork, Summary, VerifyAll, CheckMissing
  <2>3. CASE Choose
    BY <2>3 DEF Choose, Succeeded
  <2>4. CASE Fetch \/ FetchBadly \/ FetchFails
    BY <2>4 DEF Fetch, FetchBadly, FetchFails, Put, InHand
  <2>5. CASE Check
    BY <2>5 DEF Check, Put
  <2>6. CASE Kill
    BY <2>6 DEF Kill, Put, InHand
  <2> QED
    BY <2>1, <2>2, <2>3, <2>4, <2>5, <2>6 DEF Next, Work, Breakage
<1> QED
  BY Invariance, <1>1, PTL DEF Spec, VerifiedFilesKept
===============================================================================
