--------------------------- MODULE LfsBuildRefines ---------------------------
(* lfs-build.sh implements BuildContract.                                  *)
EXTENDS LfsBuild

\* The order of the script as a relation: a package needs those before it, a
\* configuration file all packages and the files always written before it.
EarlierPackages(p) == {Order[j] : j \in {k \in 1..Len(Order) : \E i \in 1..Len(Order) : Order[i] = p /\ k < i}}
EarlierFiles(f)    == {g \in {"system", "boot"} : \E i, j \in 1..Len(Config) : Config[i] = g /\ Config[j] = f /\ i < j}
ScriptNeeds == [p \in Parts |-> IF p \in Packages THEN EarlierPackages(p)
                                                  ELSE Packages \cup EarlierFiles(p)]

ScriptPhase == CASE stage = "off"    -> "idle"
                 [] stage = "done"   -> "succeeded"
                 [] stage = "failed" -> "failed"
                 [] OTHER            -> "running"

InRoot == {p \in Parts : root[p] = "fresh"}

Contract == INSTANCE BuildContract WITH
    Essential <- Packages \cup {"system", "boot", "release"},
    Needs     <- ScriptNeeds,
    phase     <- ScriptPhase,
    placed    <- InRoot,
    artefact  <- image

\* The script keeps the contract: parts in order, an image only of a complete
\* installation of this run, success only with that image, and an existing image
\* lost only by a run that had installed everything and was writing its own.
ImplementsContract == Contract!ContractSpec
===============================================================================
