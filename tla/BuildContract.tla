---------------------------- MODULE BuildContract ----------------------------
(***************************************************************************)
(* What a build script that delivers one artefact promises, whatever its   *)
(* phases, files and failures: parts go in only after the parts they need, *)
(* the artefact is made only when every essential part is in, by the run   *)
(* that reports it, and a run that reports success leaves it whole.        *)
(***************************************************************************)
EXTENDS Naturals

CONSTANTS
    Parts,       \* what a run may put in place
    Essential,   \* what no artefact may lack
    Needs        \* Needs[p]: the parts that have to be in before p

VARIABLES
    phase,       \* how the last run ended, or that one is running
    placed,      \* the parts the present (or last) run has put in place
    artefact     \* the artefact on disk and the parts in it

cvars == <<phase, placed, artefact>>

ContractInit ==
    phase = "idle" /\ placed = {} /\ artefact = [state |-> "none", holds |-> {}]

Begin ==
    /\ phase # "running" /\ phase' = "running" /\ placed' = {}
    /\ artefact' = [artefact EXCEPT !.state = IF @ = "fresh" THEN "stale" ELSE @]

Place(p) ==
    /\ phase = "running" /\ artefact.state # "fresh"
    /\ Needs[p] \subseteq placed /\ placed' = placed \cup {p}
    /\ UNCHANGED <<phase, artefact>>

Deliver ==
    /\ phase = "running" /\ artefact.state # "fresh" /\ Essential \subseteq placed
    /\ artefact' = [state |-> "fresh", holds |-> placed]
    /\ UNCHANGED <<phase, placed>>

Succeed ==
    /\ phase = "running" /\ artefact.state = "fresh" /\ phase' = "succeeded"
    /\ UNCHANGED <<placed, artefact>>

\* A failing run may spoil parts; the artefact it may lose only while it is due
\* to write it, with every essential part in place and the new one not yet made.
Fail ==
    /\ phase = "running" /\ phase' = "failed" /\ placed' \in SUBSET placed
    /\ \/ artefact' = artefact
       \/ /\ Essential \subseteq placed /\ artefact.state # "fresh"
          /\ artefact' = [state |-> "torn", holds |-> {}]

\* Between runs the user may throw away the parts or the artefact.
Discard ==
    /\ phase # "running" /\ phase' = "idle" /\ placed' \in {placed, {}}
    /\ artefact' \in {artefact, [state |-> "none", holds |-> {}]}

ContractNext == Begin \/ (\E p \in Parts : Place(p)) \/ Deliver \/ Succeed \/ Fail \/ Discard

ContractSpec == ContractInit /\ [][ContractNext]_cvars
===============================================================================
