--------------------------- MODULE LfsBuild_proofs ---------------------------
(***************************************************************************)
(* Theorems about LfsBuild, for every package list, order, set of settings *)
(* and number of faults; and that it implements BuildContract.  After them *)
(* theorems about LfsBuildFixed, for every set of checked packages too:    *)
(* the steps it takes from LfsBuild keep their types by the same lemmas.   *)
(* (CheckedAssumption is about constants LfsBuild does not have, and no    *)
(* proof about Spec uses it.)                                              *)
(***************************************************************************)
EXTENDS LfsBuildRefines, LfsBuildFixed, TLAPS

-------------------------------------------------------------------------------
(* Facts about the constants *)

\* What the build phases go through are packages.
LEMMA PkgType ==
    ASSUME NEW i \in 1..Len(Order)
    PROVE  Order[i] \in Packages
  BY DEF Packages

\* The order is a list of all packages without repetition.
LEMMA OrderFacts ==
    /\ Len(Order) \in Nat \ {0}
    /\ \A i, j \in 1..Len(Order) : Order[i] = Order[j] => i = j
    /\ \A p \in Packages : \E i \in 1..Len(Order) : p = Order[i]
  BY OrderAssumption DEF Packages

\* The download loop has something to do.
LEMMA DownloadFacts == Len(Downloads) \in Nat \ {0}
  BY DownloadsAssumption

\* The phases that write files, spelled out.
LEMMA ConfigFacts ==
    /\ Len(Config) = 5
    /\ Config[1] = "system" /\ Config[2] = "network" /\ Config[3] = "gnome"
    /\ Config[4] = "boot" /\ Config[5] = "release"
    /\ Files = {"system", "network", "gnome", "boot", "release"}
  <1>1. /\ Len(Config) = 5
        /\ Config[1] = "system" /\ Config[2] = "network" /\ Config[3] = "gnome"
        /\ Config[4] = "boot" /\ Config[5] = "release"
    BY DEF Config
  <1>2. 1..5 = {1, 2, 3, 4, 5}
    OBVIOUS
  <1>3. Files = {Config[1], Config[2], Config[3], Config[4], Config[5]}
    BY <1>1, <1>2 DEF Files
  <1> QED BY <1>1, <1>3

-------------------------------------------------------------------------------
(* Type correctness *)

\* While a package is built, Pkg is one.
LEMMA PkgInPackages ==
    ASSUME TypeOK, stage \in Building
    PROVE  at \in 1..Len(Order) /\ Pkg \in Packages
  <1>1. at \in 1..Len(Order)
    BY OrderFacts DEF TypeOK
  <1> QED BY <1>1, PkgType DEF Pkg

\* An empty disk is well typed.
LEMMA InitType == Init => TypeOK
  BY SettingsAssumption, FaultsAssumption
  DEF Init, TypeOK, Stages, Idle, Building, TreeState, Age

\* Starting the script keeps the types.
LEMMA StartType ==
    ASSUME TypeOK, NEW c \in Settings, Start(c)
    PROVE  TypeOK'
  BY SettingsAssumption DEF TypeOK, Start, Aged, Age, Stages, Building, sources

\* Every step of the script keeps the types.
LEMMA StepType ==
    ASSUME TypeOK, Step
    PROVE  TypeOK'
  <1> USE DEF TypeOK, Stages, Idle, Building, Goto, control, sources, target, product
  <1>1. CASE Validate
    <2>1. conf' \in Conf
      BY <1>1 DEF Validate, Conf, Switch
    <2> QED BY <1>1, <2>1 DEF Validate
  <1>2. CASE Setup
    BY <1>2, DownloadFacts DEF Setup
  <1>3. CASE Download
    <2>1. archive' \in [Archives -> {"absent", "damaged", "whole"}]
      BY <1>3 DEF Download
    <2>2. /\ stage' \in {"download", "unpack"} /\ at' \in Nat \ {0}
          /\ stage' = "download" => at' <= Len(Downloads)
          /\ stage' = "unpack" => at' <= Len(Order)
      BY <1>3, DownloadFacts, OrderFacts DEF Download
    <2> QED BY <1>3, <2>1, <2>2 DEF Download
  <1>4. CASE Unpack
    BY <1>4 DEF Unpack, TreeState
  <1>5. CASE UnpackDamaged
    BY <1>5 DEF UnpackDamaged, TreeState
  <1>6. CASE MakeBuildDir
    BY <1>6 DEF MakeBuildDir, TreeState
  <1>7. CASE Compile
    BY <1>7 DEF Compile, TreeState
  <1>8. CASE CompileDoubtful
    BY <1>8 DEF CompileDoubtful, TreeState
  <1>9. CASE Install
    BY <1>9, PkgInPackages DEF Install, Age
  <1>10. CASE Remove
    <2>1. tree' \in [Packages -> TreeState]
      BY <1>10 DEF Remove, TreeState
    <2>2. /\ stage' \in {"unpack", "configure"} /\ at' \in Nat \ {0}
          /\ stage' = "unpack" => at' <= Len(Order)
          /\ stage' = "configure" => at' <= Len(Config)
      BY <1>10, OrderFacts, ConfigFacts DEF Remove
    <2> QED BY <1>10, <2>1, <2>2 DEF Remove
  <1>11. CASE Configure
    <2>1. root' \in [Parts -> Age]
      BY <1>11 DEF Configure, Age
    <2>2. /\ stage' \in {"configure", "image"} /\ at' \in Nat \ {0}
          /\ stage' = "configure" => at' <= Len(Config)
      BY <1>11, ConfigFacts DEF Configure
    <2> QED BY <1>11, <2>1, <2>2 DEF Configure
  <1>12. CASE CreateImage
    BY <1>12 DEF CreateImage, Age
  <1>13. CASE CreateIso
    BY <1>13 DEF CreateIso, Age
  <1> QED
    BY <1>1, <1>2, <1>3, <1>4, <1>5, <1>6, <1>7, <1>8, <1>9, <1>10, <1>11, <1>12, <1>13
    DEF Step

\* Every fault keeps the types, and stays within the bound.
LEMMA BreakType ==
    ASSUME TypeOK, Breakage
    PROVE  TypeOK'
  <1> USE DEF TypeOK, Stages, Idle, Building, sources, target, product
  <1>1. faults' \in 0..MaxFaults /\ hit' = "yes" /\ conf' = conf
    BY FaultsAssumption
    DEF Breakage, BreakQuietly, BreakDownload, DownloadCorrupt, BreakTree, BreakRoot,
        BreakProduct, Break, Fault
  <1>2. CASE BreakQuietly
    BY <1>1, <1>2 DEF BreakQuietly, Break
  <1>3. CASE BreakDownload
    BY <1>1, <1>3 DEF BreakDownload, Break
  <1>4. CASE DownloadCorrupt
    <2>1. archive' \in [Archives -> {"absent", "damaged", "whole"}]
      BY <1>4 DEF DownloadCorrupt
    <2>2. /\ stage' \in {"download", "unpack"} /\ at' \in Nat \ {0}
          /\ stage' = "download" => at' <= Len(Downloads)
          /\ stage' = "unpack" => at' <= Len(Order)
      BY <1>4, DownloadFacts, OrderFacts DEF DownloadCorrupt
    <2> QED BY <1>1, <1>4, <2>1, <2>2 DEF DownloadCorrupt
  <1>5. CASE BreakTree
    <2>1. tree' \in [Packages -> TreeState]
      BY <1>5 DEF BreakTree, TreeState
    <2> QED BY <1>1, <1>5, <2>1 DEF BreakTree, Break
  <1>6. CASE BreakRoot
    <2>1. root' \in [Parts -> Age]
      BY <1>6 DEF BreakRoot, Age
    <2> QED BY <1>1, <1>6, <2>1 DEF BreakRoot, Break
  <1>7. CASE BreakProduct
    BY <1>1, <1>7 DEF BreakProduct, Break, Age
  <1> QED
    BY <1>2, <1>3, <1>4, <1>5, <1>6, <1>7 DEF Breakage

\* What the operator removes keeps the types.
LEMMA OperatorType ==
    ASSUME TypeOK, LfsClean \/ DownVolumes
    PROVE  TypeOK'
  BY DEF LfsClean, DownVolumes, TypeOK, Age, TreeState, Stages, Idle, Building,
         sources, target, product

\* Every variable keeps its type, and every loop stays within its list.
THEOREM TypeCorrect == Spec => []TypeOK
  <1>1. TypeOK /\ [Next]_vars => TypeOK'
    <2> SUFFICES ASSUME TypeOK, [Next]_vars PROVE TypeOK'
      OBVIOUS
    <2>1. CASE UNCHANGED vars
      BY <2>1 DEF vars, TypeOK
    <2> QED
      BY <2>1, StartType, StepType, BreakType, OperatorType DEF Next
  <1> QED BY <1>1, InitType, PTL DEF Spec

-------------------------------------------------------------------------------
(* The inductive invariant: what each stage of a run may rely on *)

\* The download loop leaves no archive out.
DownloadInv ==
    /\ stage = "download" => \A i \in 1..(at - 1) : archive[Downloads[i]] # "absent"
    /\ stage \in Building => \A a \in Archives : archive[a] # "absent"

\* Packages before the current one are in and their trees gone; the current one
\* has come as far as the stage says, in a tree of this run if it has a build
\* directory.
BuildInv ==
    /\ stage \in Building =>
         \A j \in 1..(at - 1) : /\ root[Order[j]] = "fresh" /\ tree[Order[j]] = "none"
                                /\ archive[Order[j]] = "whole"
    /\ stage \in Building \ {"unpack"} => archive[Pkg] = "whole"
    /\ stage = "compile" /\ Pkg \in OutOfTree => tree[Pkg] = "build"
    /\ stage = "install" /\ Pkg \in OutOfTree \cup Mrproper => tree[Pkg] = "made"
    /\ stage = "remove" => root[Pkg] = "fresh"

\* After the build phases all packages are in; after the configuration phases
\* the wanted files too; after create_system_image the image holds them.
AfterInv ==
    /\ stage \in After =>
         \A p \in Packages : root[p] = "fresh" /\ tree[p] = "none" /\ archive[p] = "whole"
    /\ stage = "configure" =>
         \A i \in 1..(at - 1) : Wanted(Config[i]) => root[Config[i]] = "fresh"
    /\ stage \in {"image", "iso", "done"} =>
         \A f \in Files : Wanted(f) => root[f] = "fresh"
    /\ stage \in {"iso", "done"} => image.state = "fresh" /\ Required \subseteq image.holds

IInv ==
    /\ TypeOK /\ DownloadInv /\ BuildInv /\ AfterInv
    /\ WholeImageIsComplete /\ CleanBuildsAreSound /\ FailsForACause

\* On an empty disk the invariant holds.
LEMMA InitInv == Init => IInv
  <1> SUFFICES ASSUME Init PROVE IInv
    OBVIOUS
  <1>1. stage = "off" /\ suspect = {} /\ image.state = "none"
    BY DEF Init
  <1> QED
    BY <1>1, InitType DEF IInv, DownloadInv, BuildInv, AfterInv, Building, After,
       WholeImageIsComplete, CleanBuildsAreSound, FailsForACause

\* A run that starts, or that a fault ends, relies on nothing yet.
LEMMA OutsideInv ==
    ASSUME stage' \in {"off", "failed", "validate", "setup"}
    PROVE  DownloadInv' /\ BuildInv' /\ AfterInv'
  BY DEF DownloadInv, BuildInv, AfterInv, Building, After

\* A run starts with nothing of its own, and the image of the last run ages.
LEMMA StartInv ==
    ASSUME IInv, NEW c \in Settings, Start(c)
    PROVE  IInv'
  <1>1. TypeOK'
    BY StartType DEF IInv
  <1>2. DownloadInv' /\ BuildInv' /\ AfterInv'
    BY OutsideInv DEF Start
  <1>3. WholeImageIsComplete'
    BY DEF IInv, Start, WholeImageIsComplete, Aged
  <1>4. CleanBuildsAreSound'
    BY DEF IInv, Start, CleanBuildsAreSound
  <1>5. FailsForACause'
    BY DEF Start, FailsForACause
  <1> QED BY <1>1, <1>2, <1>3, <1>4, <1>5 DEF IInv

\* What the operator removes, no part of the invariant speaks of between runs.
LEMMA OperatorInv ==
    ASSUME IInv, LfsClean \/ DownVolumes
    PROVE  IInv'
  <1>1. TypeOK' /\ stage' = "off"
    BY OperatorType DEF IInv, LfsClean, DownVolumes
  <1>2. DownloadInv' /\ BuildInv' /\ AfterInv' /\ FailsForACause'
    BY <1>1, OutsideInv DEF FailsForACause
  <1>3. WholeImageIsComplete' /\ CleanBuildsAreSound'
    BY DEF IInv, LfsClean, DownVolumes, product, target, WholeImageIsComplete, CleanBuildsAreSound
  <1> QED BY <1>1, <1>2, <1>3 DEF IInv

\* A fault ends the run, except for a download that is corrupt unnoticed.
LEMMA BreakInv ==
    ASSUME IInv, Breakage
    PROVE  IInv'
  <1>1. TypeOK' /\ hit' = "yes"
    BY BreakType
    DEF IInv, Breakage, BreakQuietly, BreakDownload, DownloadCorrupt, BreakTree, BreakRoot,
        BreakProduct, Break, Fault
  <1>2. FailsForACause'
    BY <1>1 DEF FailsForACause
  <1>3. CleanBuildsAreSound'
    BY DEF IInv, Breakage, BreakQuietly, BreakDownload, DownloadCorrupt, BreakTree, BreakRoot,
        BreakProduct, target, CleanBuildsAreSound
  <1>4. WholeImageIsComplete'
    BY DEF IInv, Breakage, BreakQuietly, BreakDownload, DownloadCorrupt, BreakTree, BreakRoot,
        BreakProduct, product, WholeImageIsComplete
  <1>5. DownloadInv' /\ BuildInv' /\ AfterInv'
    <2>1. CASE DownloadCorrupt
      <3>1. stage = "download" /\ stage' \in {"download", "unpack"}
        BY <2>1 DEF DownloadCorrupt
      <3>2. AfterInv'
        BY <3>1 DEF AfterInv, After
      <3>3. at \in 1..Len(Downloads)
        BY <3>1, DownloadFacts DEF IInv, TypeOK
      <3>4. \A i \in 1..at : archive'[Downloads[i]] # "absent"
        BY <2>1, <3>1, <3>3 DEF DownloadCorrupt, IInv, TypeOK, DownloadInv, Url, Archives
      <3>5. CASE at < Len(Downloads)
        <4>1. stage' = "download" /\ at' = at + 1
          BY <2>1, <3>5 DEF DownloadCorrupt
        <4> QED BY <3>2, <3>3, <3>4, <4>1 DEF DownloadInv, BuildInv, Building
      <3>6. CASE ~(at < Len(Downloads))
        <4>1. stage' = "unpack" /\ at' = 1 /\ at = Len(Downloads)
          BY <2>1, <3>3, <3>6, DownloadFacts DEF DownloadCorrupt
        <4>2. \A a \in Archives : archive'[a] # "absent"
          BY <3>4, <4>1 DEF Archives
        <4> QED BY <3>2, <4>1, <4>2 DEF DownloadInv, BuildInv, Building
      <3> QED BY <3>5, <3>6
    <2>2. CASE ~DownloadCorrupt
      <3>1. stage' = "failed"
        BY <2>2 DEF Breakage, BreakQuietly, BreakDownload, BreakTree, BreakRoot, BreakProduct, Break
      <3> QED BY <3>1, OutsideInv
    <2> QED BY <2>1, <2>2
  <1> QED BY <1>1, <1>2, <1>3, <1>4, <1>5 DEF IInv

\* The steps before the build phases.
LEMMA FetchInv ==
    ASSUME IInv, Validate \/ Setup \/ Download
    PROVE  IInv'
  <1>1. TypeOK'
    BY StepType DEF IInv, Step
  <1>2. /\ WholeImageIsComplete' /\ CleanBuildsAreSound'
        /\ stage' # "failed"
    BY DEF IInv, Validate, Setup, Download, Goto, product, target, WholeImageIsComplete,
           CleanBuildsAreSound
  <1>3. FailsForACause'
    BY <1>2 DEF FailsForACause
  <1>4. DownloadInv' /\ BuildInv' /\ AfterInv'
    <2>1. CASE Validate
      BY <2>1, OutsideInv DEF Validate
    <2>2. CASE Setup
      BY <2>2 DEF Setup, Goto, DownloadInv, BuildInv, AfterInv, Building, After
    <2>3. CASE Download
      <3>1. stage = "download" /\ stage' \in {"download", "unpack"}
        BY <2>3 DEF Download, Goto
      <3>2. AfterInv'
        BY <3>1 DEF AfterInv, After
      <3>3. at \in 1..Len(Downloads)
        BY <3>1, DownloadFacts DEF IInv, TypeOK
      <3>4. \A i \in 1..at : archive'[Downloads[i]] # "absent"
        BY <2>3, <3>1, <3>3 DEF Download, IInv, TypeOK, DownloadInv, Url, Archives
      <3>5. CASE at < Len(Downloads)
        <4>1. stage' = "download" /\ at' = at + 1
          BY <2>3, <3>5 DEF Download, Goto
        <4> QED BY <3>2, <3>3, <3>4, <4>1 DEF DownloadInv, BuildInv, Building
      <3>6. CASE ~(at < Len(Downloads))
        <4>1. stage' = "unpack" /\ at' = 1 /\ at = Len(Downloads)
          BY <2>3, <3>3, <3>6, DownloadFacts DEF Download, Goto
        <4>2. \A a \in Archives : archive'[a] # "absent"
          BY <3>4, <4>1 DEF Archives
        <4> QED BY <3>2, <4>1, <4>2 DEF DownloadInv, BuildInv, Building
      <3> QED BY <3>5, <3>6
    <2> QED BY <2>1, <2>2, <2>3
  <1> QED BY <1>1, <1>2, <1>3, <1>4 DEF IInv

\* A package other than the current one keeps its tree and its place in $LFS.
LEMMA OthersKept ==
    ASSUME TypeOK, stage \in Building, NEW j \in 1..(at - 1)
    PROVE  Order[j] # Pkg /\ Order[j] \in Packages
  <1>1. j \in 1..Len(Order) /\ at \in 1..Len(Order) /\ j # at
    BY PkgInPackages, OrderFacts DEF TypeOK
  <1> QED BY <1>1, OrderFacts, PkgType DEF Pkg

\* The steps that build the current package.
LEMMA BuildStepInv ==
    ASSUME IInv,
           Unpack \/ UnpackDamaged \/ MakeBuildDir \/ Compile \/ CompileDoubtful \/ Install
    PROVE  IInv'
  <1>1. TypeOK /\ TypeOK'
    BY StepType DEF IInv, Step
  <1>2. /\ stage \in Building /\ stage' \in Building \cup {"failed"}
        /\ at' = at /\ archive' = archive /\ image' = image /\ Pkg' = Pkg
    BY DEF Unpack, UnpackDamaged, MakeBuildDir, Compile, CompileDoubtful, Install, Goto,
           Building, sources, product, Pkg
  <1>3. Pkg \in Packages
    BY <1>1, <1>2, PkgInPackages
  <1>4. DownloadInv'
    BY <1>2 DEF IInv, DownloadInv, Building
  <1>5. AfterInv' /\ WholeImageIsComplete'
    BY <1>2 DEF IInv, AfterInv, WholeImageIsComplete, After, Building
  <1>6. \A p \in Packages \ {Pkg} : root'[p] = root[p] /\ tree'[p] = tree[p]
    BY <1>1 DEF TypeOK, Parts, Unpack, UnpackDamaged, MakeBuildDir, Compile, CompileDoubtful,
                Install, sources, target
  <1>7. BuildInv'
    <2>1. \A j \in 1..(at - 1) : /\ root'[Order[j]] = "fresh" /\ tree'[Order[j]] = "none"
                               /\ archive'[Order[j]] = "whole"
      BY <1>1, <1>2, <1>6, OthersKept DEF IInv, BuildInv
    <2>2. stage' \in Building \ {"unpack"} => archive[Pkg] = "whole"
      BY <1>2 DEF IInv, BuildInv, Unpack, UnpackDamaged, MakeBuildDir, Compile, CompileDoubtful,
                  Install, Goto, Building
    <2>3. stage' = "compile" /\ Pkg \in OutOfTree => tree'[Pkg] = "build"
      BY <1>1, <1>3 DEF TypeOK, Unpack, UnpackDamaged, MakeBuildDir, Compile, CompileDoubtful,
                  Install, Goto
    <2>4. stage' = "install" /\ Pkg \in OutOfTree \cup Mrproper => tree'[Pkg] = "made"
      BY <1>1, <1>3 DEF TypeOK, IInv, BuildInv, Unpack, UnpackDamaged, MakeBuildDir, Compile,
                  CompileDoubtful, Install, Goto
    <2>5. stage' = "remove" => root'[Pkg] = "fresh"
      BY <1>1, <1>3 DEF TypeOK, Parts, Unpack, UnpackDamaged, MakeBuildDir, Compile,
                  CompileDoubtful, Install, Goto
    <2> QED BY <1>2, <2>1, <2>2, <2>3, <2>4, <2>5 DEF BuildInv
  <1>8. CleanBuildsAreSound'
    <2>1. CASE Install
      <3>1. Pkg \in (OutOfTree \cup Mrproper) \ {Host} => ~Doubtful(Pkg)
        BY <2>1 DEF Install, IInv, BuildInv, Doubtful
      <3> QED BY <2>1, <3>1 DEF Install, IInv, CleanBuildsAreSound
    <2>2. CASE ~Install
      BY <2>2 DEF IInv, CleanBuildsAreSound, Unpack, UnpackDamaged, MakeBuildDir, Compile,
                  CompileDoubtful, target
    <2> QED BY <2>1, <2>2
  <1>9. FailsForACause'
    <2>1. CASE UnpackDamaged
      <3>1. archive[Pkg] = "damaged"
        BY <1>1, <1>2, <1>3, <2>1, DownloadsAssumption
        DEF UnpackDamaged, IInv, DownloadInv, TypeOK
      <3> QED BY <1>2, <1>3, <3>1, DownloadsAssumption DEF FailsForACause
    <2>2. CASE MakeBuildDir
      BY <1>1, <1>3, <2>2 DEF MakeBuildDir, FailsForACause, HasBuildDir, Goto, TypeOK
    <2>3. CASE CompileDoubtful
      BY <1>1, <1>3, <2>3 DEF CompileDoubtful, FailsForACause, HasBuildDir, TypeOK
    <2>4. CASE Unpack \/ Compile \/ Install
      BY <2>4 DEF Unpack, Compile, Install, Goto, FailsForACause
    <2> QED BY <2>1, <2>2, <2>3, <2>4
  <1> QED BY <1>1, <1>4, <1>5, <1>7, <1>8, <1>9 DEF IInv

\* Removing the tree ends a package, and with the last one the build phases.
LEMMA RemoveInv ==
    ASSUME IInv, Remove
    PROVE  IInv'
  <1>1. TypeOK /\ TypeOK'
    BY StepType DEF IInv, Step
  <1>2. stage = "remove" /\ stage' \in {"unpack", "configure"} /\ stage \in Building
    BY DEF Remove, Goto, Building
  <1>3. at \in 1..Len(Order) /\ Pkg \in Packages
    BY <1>1, <1>2, PkgInPackages
  <1>4. WholeImageIsComplete' /\ CleanBuildsAreSound' /\ FailsForACause'
    BY <1>2 DEF IInv, Remove, Goto, target, product, WholeImageIsComplete, CleanBuildsAreSound,
                FailsForACause
  <1>5. \A j \in 1..at : /\ root'[Order[j]] = "fresh" /\ tree'[Order[j]] = "none"
                         /\ archive'[Order[j]] = "whole"
    <2> SUFFICES ASSUME NEW j \in 1..at
                 PROVE  /\ root'[Order[j]] = "fresh" /\ tree'[Order[j]] = "none"
                        /\ archive'[Order[j]] = "whole"
      OBVIOUS
    <2>1. CASE j = at
      BY <1>1, <1>2, <1>3, <2>1 DEF Remove, IInv, BuildInv, TypeOK, Pkg, target
    <2>2. CASE j # at
      <3>1. j \in 1..(at - 1)
        BY <1>3, <2>2
      <3> QED BY <1>1, <1>2, <3>1, OthersKept DEF Remove, IInv, BuildInv, TypeOK, target
    <2> QED BY <2>1, <2>2
  <1>6. \A a \in Archives : archive'[a] # "absent"
    BY <1>2 DEF Remove, IInv, DownloadInv
  <1>7. CASE at < Len(Order)
    <2>1. stage' = "unpack" /\ at' = at + 1
      BY <1>7 DEF Remove, Goto
    <2>2. BuildInv'
      BY <1>3, <1>5, <2>1 DEF BuildInv, Building
    <2> QED
      BY <1>1, <1>4, <1>6, <2>1, <2>2 DEF IInv, DownloadInv, AfterInv, After
  <1>8. CASE ~(at < Len(Order))
    <2>1. stage' = "configure" /\ at' = 1 /\ at = Len(Order)
      BY <1>3, <1>8, OrderFacts DEF Remove, Goto
    <2>2. \A p \in Packages : root'[p] = "fresh" /\ tree'[p] = "none" /\ archive'[p] = "whole"
      BY <1>5, <2>1, OrderFacts
    <2> QED
      BY <1>1, <1>4, <2>1, <2>2 DEF IInv, DownloadInv, BuildInv, AfterInv, After, Building
  <1> QED BY <1>7, <1>8

\* Writing the configuration files, one phase after the other.
LEMMA ConfigureInv ==
    ASSUME IInv, Configure
    PROVE  IInv'
  <1>1. TypeOK /\ TypeOK'
    BY StepType DEF IInv, Step
  <1>2. /\ stage = "configure" /\ stage' \in {"configure", "image"}
        /\ conf' = conf /\ archive' = archive /\ tree' = tree
    BY DEF Configure, Goto, sources
  <1>3. at \in 1..5
    BY <1>1, <1>2, ConfigFacts DEF TypeOK
  <1>4. /\ WholeImageIsComplete' /\ CleanBuildsAreSound' /\ FailsForACause'
        /\ DownloadInv' /\ BuildInv'
    BY <1>2 DEF IInv, Configure, product, WholeImageIsComplete, CleanBuildsAreSound,
                FailsForACause, DownloadInv, BuildInv, Building
  <1>5. Config[at] \in Files /\ Files \cap Packages = {}
    BY <1>3, ConfigFacts, OrderAssumption DEF Files
  <1>6. \A p \in Packages : root'[p] = "fresh" /\ tree'[p] = "none" /\ archive'[p] = "whole"
    BY <1>1, <1>2, <1>5 DEF Configure, IInv, AfterInv, After, TypeOK, Parts
  <1>7. \A i \in 1..at : Wanted(Config[i])' => root'[Config[i]] = "fresh"
    <2> SUFFICES ASSUME NEW i \in 1..at, Wanted(Config[i])
                 PROVE  root'[Config[i]] = "fresh"
      BY <1>2 DEF Wanted
    <2>1. Config[i] \in Files
      BY <1>3, ConfigFacts DEF Files
    <2>2. CASE i = at
      BY <1>1, <2>1, <2>2 DEF Configure, TypeOK, Parts
    <2>3. CASE i # at
      <3>1. i \in 1..(at - 1)
        BY <1>3, <2>3
      <3>2. root[Config[i]] = "fresh"
        BY <1>2, <3>1 DEF IInv, AfterInv
      <3> QED BY <1>1, <2>1, <3>2 DEF Configure, TypeOK, Parts
    <2> QED BY <2>2, <2>3
  <1>8. CASE at < Len(Config)
    <2>1. stage' = "configure" /\ at' = at + 1
      BY <1>8 DEF Configure, Goto
    <2> QED
      BY <1>1, <1>3, <1>4, <1>6, <1>7, <2>1 DEF IInv, AfterInv
  <1>9. CASE ~(at < Len(Config))
    <2>1. stage' = "image" /\ at = Len(Config)
      BY <1>3, <1>9, ConfigFacts DEF Configure, Goto
    <2>2. \A f \in Files : Wanted(f)' => root'[f] = "fresh"
      BY <1>7, <2>1 DEF Files
    <2> QED BY <1>1, <1>4, <1>6, <2>1, <2>2 DEF IInv, AfterInv
  <1> QED BY <1>8, <1>9

\* Making the image and the ISO.
LEMMA DeliverInv ==
    ASSUME IInv, CreateImage \/ CreateIso
    PROVE  IInv'
  <1>1. TypeOK /\ TypeOK'
    BY StepType DEF IInv, Step
  <1>2. /\ stage \in {"image", "iso"} /\ stage' \in {"iso", "done"}
        /\ conf' = conf /\ archive' = archive /\ tree' = tree /\ root' = root /\ suspect' = suspect
    BY DEF CreateImage, CreateIso, Goto, sources, target
  <1>3. CleanBuildsAreSound' /\ FailsForACause' /\ DownloadInv' /\ BuildInv'
    BY <1>2 DEF IInv, CleanBuildsAreSound, FailsForACause, DownloadInv, BuildInv, Building
  <1>4. /\ \A p \in Packages : root[p] = "fresh" /\ tree[p] = "none" /\ archive[p] = "whole"
        /\ \A f \in Files : Wanted(f) => root[f] = "fresh"
    BY <1>2 DEF IInv, AfterInv, After
  <1>5. Required' = Required /\ Required \subseteq Parts
    BY <1>2 DEF Required, Wanted, Parts
  <1>6. image'.state = "fresh" /\ Required \subseteq image'.holds
    <2>1. CASE CreateImage
      BY <1>4, <1>5, <2>1 DEF CreateImage, Required
    <2>2. CASE CreateIso
      BY <2>2 DEF CreateIso, IInv, AfterInv
    <2> QED BY <2>1, <2>2
  <1>7. Packages \cup {"system", "boot", "release"} \subseteq Required
    BY ConfigFacts DEF Required, Wanted
  <1>8. WholeImageIsComplete'
    BY <1>6, <1>7 DEF WholeImageIsComplete
  <1>9. AfterInv'
    BY <1>2, <1>4, <1>5, <1>6 DEF AfterInv, Wanted
  <1> QED BY <1>1, <1>3, <1>8, <1>9 DEF IInv

\* The invariant holds in every reachable state of any number of runs of the script.
THEOREM Invariance == Spec => []IInv
  <1>1. IInv /\ [Next]_vars => IInv'
    <2> SUFFICES ASSUME IInv, [Next]_vars PROVE IInv'
      OBVIOUS
    <2>1. CASE UNCHANGED vars
      BY <2>1 DEF vars, IInv, TypeOK, DownloadInv, BuildInv, AfterInv, WholeImageIsComplete,
                  CleanBuildsAreSound, FailsForACause, Pkg, Wanted, Required, HasBuildDir
    <2>2. CASE Step
      BY <2>2, FetchInv, BuildStepInv, RemoveInv, ConfigureInv, DeliverInv DEF Step
    <2> QED
      BY <2>1, <2>2, StartInv, BreakInv, OperatorInv DEF Next
  <1> QED BY <1>1, InitInv, PTL DEF Spec

-------------------------------------------------------------------------------
(* The safety properties of LfsBuild *)

\* No package is built before the run has installed all those before it: under
\* set -e a phase starts only when the ones before it went through.
THEOREM PhasesInOrder == Spec => []PrerequisitesInstalled
  <1>1. IInv => PrerequisitesInstalled
    BY DEF IInv, BuildInv, PrerequisitesInstalled
  <1> QED BY <1>1, Invariance, PTL

\* A build that reports success installed every required part in that run and
\* left an image that holds them all.
THEOREM SuccessWhole == Spec => []SuccessIsWhole
  <1>1. IInv => SuccessIsWhole
    BY DEF IInv, AfterInv, After, SuccessIsWhole, Required
  <1> QED BY <1>1, Invariance, PTL

\* Every image on disk that is not cut short is complete.
THEOREM ImagesComplete == Spec => []WholeImageIsComplete
  <1>1. IInv => WholeImageIsComplete
    BY DEF IInv
  <1> QED BY <1>1, Invariance, PTL

\* What is compiled in a directory of its own is never compiled over the objects
\* of an interrupted run.
THEOREM SoundBuilds == Spec => []CleanBuildsAreSound
  <1>1. IInv => CleanBuildsAreSound
    BY DEF IInv
  <1> QED BY <1>1, Invariance, PTL

\* Without a fault in it a run fails only over what an earlier run left.
THEOREM FailureHasCause == Spec => []FailsForACause
  <1>1. IInv => FailsForACause
    BY DEF IInv
  <1> QED BY <1>1, Invariance, PTL

\* A leftover build directory or a damaged archive stops every run before the
\* configuration phases ...
THEOREM WedgedNeverSucceeds == Spec => []NoSuccessWhileWedged
  <1>1. IInv => NoSuccessWhileWedged
    BY DEF IInv, AfterInv, NoSuccessWhileWedged, Wedged, LeftBehind, HasBuildDir
  <1> QED BY <1>1, Invariance, PTL

\* ... and stays through any number of runs, faults and volume removals, until
\* lfs-clean removes the sources directory.
THEOREM WedgeIsPermanent == Spec => WedgedUntilCleaned
  <1>1. ASSUME IInv, [Next]_vars
        PROVE  [\A p \in Packages : Wedged(p) /\ ~LfsClean => Wedged(p)']_vars
    <2> SUFFICES ASSUME NEW p \in Packages, Wedged(p), ~LfsClean
                 PROVE  Wedged(p)'
      OBVIOUS
    <2>1. p \in Archives /\ TypeOK
      BY <1>1, DownloadsAssumption DEF IInv
    <2>2. CASE archive[p] = "damaged"
      <3>1. archive'[p] = "damaged"
        <4>1. CASE Download \/ BreakDownload \/ DownloadCorrupt
          BY <2>1, <2>2, <4>1 DEF Download, BreakDownload, DownloadCorrupt, TypeOK
        <4>2. CASE UNCHANGED archive
          BY <2>2, <4>2
        <4> QED
          BY <1>1, <4>1, <4>2
          DEF Next, Start, Step, Validate, Setup, Unpack, UnpackDamaged, MakeBuildDir, Compile,
              CompileDoubtful, Install, Remove, Configure, CreateImage, CreateIso, Breakage,
              BreakQuietly, BreakTree, BreakRoot, BreakProduct, DownVolumes, sources, vars
      <3> QED BY <3>1 DEF Wedged
    <2>3. CASE LeftBehind(p)
      <3>1. /\ p \in OutOfTree /\ HasBuildDir(p)
            /\ stage \in {"compile", "install", "remove"} => Pkg # p
        BY <2>3 DEF LeftBehind
      <3>2. tree'[p] = tree[p]
        <4>1. CASE UnpackDamaged \/ Unpack \/ MakeBuildDir
          BY <2>1, <3>1, <4>1 DEF Unpack, UnpackDamaged, MakeBuildDir, HasBuildDir, TypeOK
        <4>2. CASE Compile \/ CompileDoubtful \/ Remove
          BY <2>1, <3>1, <4>2 DEF Compile, CompileDoubtful, Remove, TypeOK
        <4>3. CASE BreakTree
          BY <2>1, <3>1, <4>3 DEF BreakTree, Break, HasBuildDir, TypeOK
        <4>4. CASE UNCHANGED tree
          BY <4>4
        <4> QED
          BY <1>1, <4>1, <4>2, <4>3, <4>4
          DEF Next, Start, Step, Validate, Setup, Download, Install, Configure, CreateImage,
              CreateIso, Breakage, BreakQuietly, BreakDownload, DownloadCorrupt, BreakRoot,
              BreakProduct, DownVolumes, sources, vars
      <3>3. stage' \in {"compile", "install", "remove"} => Pkg' # p
        <4>1. CASE Unpack \/ MakeBuildDir
          BY <3>1, <4>1 DEF Unpack, MakeBuildDir, Goto, Pkg, HasBuildDir
        <4>2. CASE Compile \/ Install
          BY <3>1, <4>2 DEF Compile, Install, Pkg
        <4>3. CASE UNCHANGED vars
          BY <3>1, <4>3 DEF vars, Pkg
        <4>4. CASE \/ \E c \in Settings : Start(c)
                   \/ Validate \/ Setup \/ Download \/ UnpackDamaged \/ CompileDoubtful \/ Remove
                   \/ Configure \/ CreateImage \/ CreateIso \/ DownVolumes
          BY <4>4
          DEF Start, Validate, Setup, Download, UnpackDamaged, CompileDoubtful, Remove,
              Configure, CreateImage, CreateIso, DownVolumes, Goto
        <4>5. CASE Breakage
          BY <4>5
          DEF Breakage, BreakQuietly, BreakDownload, DownloadCorrupt, BreakTree, BreakRoot,
              BreakProduct, Break
        <4> QED
          BY <1>1, <4>1, <4>2, <4>3, <4>4, <4>5 DEF Next, Step
      <3> QED BY <3>1, <3>2, <3>3 DEF Wedged, LeftBehind, HasBuildDir
    <2> QED BY <2>2, <2>3 DEF Wedged
  <1> QED BY <1>1, Invariance, PTL DEF Spec, WedgedUntilCleaned

-------------------------------------------------------------------------------
(* lfs-build.sh implements BuildContract. *)

\* Until a run has written its image, the image on disk is an older one.
ImageInv == stage \notin {"off", "iso", "done", "failed"} => image.state # "fresh"

\* So it is in every reachable state: only create_system_image makes a fresh one.
LEMMA ImageNotYet == Spec => []ImageInv
  <1>1. Init => ImageInv
    BY DEF Init, ImageInv
  <1>2. ImageInv /\ [Next]_vars => ImageInv'
    <2> SUFFICES ASSUME ImageInv, [Next]_vars PROVE ImageInv'
      OBVIOUS
    <2>1. CASE \E c \in Settings : Start(c)
      BY <2>1 DEF Start, Aged, ImageInv
    <2>2. CASE Step
      BY <2>2
      DEF ImageInv, Step, Validate, Setup, Download, Unpack, UnpackDamaged, MakeBuildDir,
          Compile, CompileDoubtful, Install, Remove, Configure, CreateImage, CreateIso, Goto,
          product
    <2>3. CASE Breakage
      BY <2>3
      DEF ImageInv, Breakage, BreakQuietly, BreakDownload, DownloadCorrupt, BreakTree, BreakRoot,
          BreakProduct, Break, product
    <2>4. CASE LfsClean \/ DownVolumes
      BY <2>4 DEF LfsClean, DownVolumes, ImageInv
    <2>5. CASE UNCHANGED vars
      BY <2>5 DEF vars, ImageInv
    <2> QED BY <2>1, <2>2, <2>3, <2>4, <2>5 DEF Next
  <1> QED BY <1>1, <1>2, PTL DEF Spec

-------------------------------------------------------------------------------
(* The refinement mapping *)

\* The phase of the contract, stage by stage ...
LEMMA PhaseValues ==
    /\ stage = "off" => ScriptPhase = "idle"
    /\ stage = "done" => ScriptPhase = "succeeded"
    /\ stage = "failed" => ScriptPhase = "failed"
    /\ stage \notin Idle => ScriptPhase = "running"
    /\ stage \in Idle => ScriptPhase # "running"
  BY DEF ScriptPhase, Idle

\* ... and in the next state.
LEMMA PhaseValuesNext ==
    /\ stage' = "off" => ScriptPhase' = "idle"
    /\ stage' = "done" => ScriptPhase' = "succeeded"
    /\ stage' = "failed" => ScriptPhase' = "failed"
    /\ stage' \notin Idle => ScriptPhase' = "running"
  BY DEF ScriptPhase, Idle

\* On an empty disk the contract has not begun.
LEMMA InitRefines == Init => Contract!ContractInit
  <1> SUFFICES ASSUME Init PROVE Contract!ContractInit
    OBVIOUS
  <1>1. InRoot = {}
    BY DEF Init, InRoot
  <1> QED BY <1>1, PhaseValues DEF Init, Contract!ContractInit

\* A new run begins with nothing of its own in place.
LEMMA StartRefines ==
    ASSUME TypeOK, NEW c \in Settings, Start(c)
    PROVE  Contract!Begin
  <1>1. ScriptPhase # "running" /\ ScriptPhase' = "running"
    BY PhaseValues, PhaseValuesNext DEF Start, Idle
  <1>2. InRoot' = {}
    <2>1. \A p \in Parts : root'[p] # "fresh"
      BY DEF Start, Aged
    <2> QED BY <2>1 DEF InRoot
  <1>3. image' = [image EXCEPT !.state = IF @ = "fresh" THEN "stale" ELSE @]
    <2>1. image \in [state : Age, holds : SUBSET Parts]
      BY DEF TypeOK
    <2> QED BY <2>1 DEF Start, Aged
  <1> QED BY <1>1, <1>2, <1>3 DEF Contract!Begin

\* A step that moves neither the phase nor the parts nor the image.
LEMMA QuietRefines ==
    ASSUME stage \notin Idle, stage' \notin Idle, UNCHANGED <<root, image>>
    PROVE  UNCHANGED Contract!cvars
  BY PhaseValues, PhaseValuesNext DEF InRoot, Contract!cvars

\* The end of a run that leaves the image alone and puts nothing in place.
LEMMA FailRefines ==
    ASSUME stage \notin Idle, stage' = "failed", InRoot' \subseteq InRoot, image' = image
    PROVE  Contract!Fail
  BY PhaseValues, PhaseValuesNext DEF Contract!Fail

\* make install puts one package in place, after all it needs.
LEMMA InstallRefines ==
    ASSUME IInv, ImageInv, Install
    PROVE  Contract!Place(Pkg) /\ Pkg \in Parts
  <1>1. /\ stage = "install" /\ stage' = "remove" /\ stage \in Building
        /\ at \in 1..Len(Order) /\ Pkg \in Packages /\ Pkg \in Parts
    BY PkgInPackages DEF IInv, Install, Goto, Building, Parts
  <1>2. ScriptPhase = "running" /\ ScriptPhase' = "running" /\ image' = image
    BY <1>1, PhaseValues, PhaseValuesNext DEF Idle, Install, product
  <1>3. image.state # "fresh"
    BY <1>1 DEF ImageInv
  <1>4. ScriptNeeds[Pkg] \subseteq InRoot
    <2> SUFFICES ASSUME NEW q \in EarlierPackages(Pkg) PROVE q \in InRoot
      BY <1>1 DEF ScriptNeeds
    <2>1. PICK k \in 1..Len(Order) : q = Order[k] /\ \E i \in 1..Len(Order) : Order[i] = Pkg /\ k < i
      BY DEF EarlierPackages
    <2>2. k \in 1..(at - 1)
      BY <1>1, <2>1, OrderFacts DEF Pkg
    <2> QED BY <1>1, <2>1, <2>2, PkgType DEF IInv, BuildInv, InRoot, Parts
  <1>5. InRoot' = InRoot \cup {Pkg}
    BY <1>1 DEF Install, InRoot, IInv, TypeOK
  <1> QED BY <1>1, <1>2, <1>3, <1>4, <1>5 DEF Contract!Place

\* A configuration phase that is on puts one file in place; one that is off does nothing.
LEMMA ConfigureRefines ==
    ASSUME IInv, ImageInv, Configure
    PROVE  (\E p \in Parts : Contract!Place(p)) \/ UNCHANGED Contract!cvars
  <1>1. stage = "configure" /\ stage' \in {"configure", "image"} /\ image' = image /\ at \in 1..5
    BY ConfigFacts DEF Configure, Goto, product, IInv, TypeOK
  <1>2. stage \notin Idle /\ stage' \notin Idle
    BY <1>1 DEF Idle
  <1>3. CASE ~Wanted(Config[at])
    BY <1>1, <1>2, <1>3, QuietRefines DEF Configure
  <1>4. CASE Wanted(Config[at])
    <2> DEFINE f == Config[at]
    <2>1. f \in Files /\ f \in Parts /\ f \notin Packages
      BY <1>1, ConfigFacts, OrderAssumption DEF Files, Parts
    <2>2. ScriptNeeds[f] \subseteq InRoot
      <3>1. ScriptNeeds[f] = Packages \cup EarlierFiles(f)
        BY <2>1 DEF ScriptNeeds
      <3>2. Packages \subseteq InRoot
        BY <1>1 DEF IInv, AfterInv, After, InRoot, Parts
      <3>3. ASSUME NEW g \in EarlierFiles(f) PROVE g \in InRoot
        <4>1. g \in {"system", "boot"} /\ Wanted(g) /\ g \in Parts
          BY <3>3, ConfigFacts DEF EarlierFiles, Wanted, Parts
        <4>2. PICK i \in 1..Len(Config), j \in 1..Len(Config) : Config[i] = g /\ Config[j] = f /\ i < j
          BY <3>3 DEF EarlierFiles
        <4>3. i \in 1..(at - 1)
          BY <1>1, <4>2, ConfigFacts
        <4> QED BY <1>1, <4>1, <4>2, <4>3 DEF IInv, AfterInv, InRoot
      <3> QED BY <3>1, <3>2, <3>3
    <2>3. InRoot' = InRoot \cup {f}
      BY <1>4, <2>1 DEF Configure, InRoot, IInv, TypeOK
    <2>4. ScriptPhase = "running" /\ ScriptPhase' = "running" /\ image.state # "fresh"
      BY <1>1, <1>2, PhaseValues, PhaseValuesNext DEF ImageInv
    <2>5. Contract!Place(f)
      BY <1>1, <2>2, <2>3, <2>4 DEF Contract!Place
    <2> QED BY <2>1, <2>5
  <1> QED BY <1>3, <1>4

\* With every package and the unconditional files in, the artefact may be written.
LEMMA EssentialPlaced ==
    ASSUME IInv, stage \in {"image", "iso"}
    PROVE  Packages \cup {"system", "boot", "release"} \subseteq InRoot
  BY ConfigFacts DEF IInv, AfterInv, After, InRoot, Parts, Wanted

\* create_system_image makes the artefact of a complete installation.
LEMMA DeliverRefines ==
    ASSUME IInv, ImageInv, CreateImage
    PROVE  Contract!Deliver
  <1>1. stage = "image" /\ stage' = "iso" /\ root' = root
    BY DEF CreateImage, Goto, target
  <1>2. ScriptPhase = "running" /\ ScriptPhase' = "running" /\ image.state # "fresh"
    BY <1>1, PhaseValues, PhaseValuesNext DEF Idle, ImageInv
  <1>3. InRoot' = InRoot /\ image' = [state |-> "fresh", holds |-> InRoot]
    BY <1>1 DEF InRoot, CreateImage
  <1> QED BY <1>1, <1>2, <1>3, EssentialPlaced DEF Contract!Deliver

\* The end of the run reports an artefact that is there.
LEMMA SucceedRefines ==
    ASSUME IInv, CreateIso
    PROVE  Contract!Succeed
  <1>1. stage = "iso" /\ stage' = "done" /\ root' = root /\ image' = image
    BY DEF CreateIso, Goto, target
  <1>2. ScriptPhase = "running" /\ ScriptPhase' = "succeeded" /\ image.state = "fresh"
    BY <1>1, PhaseValues, PhaseValuesNext DEF Idle, IInv, AfterInv
  <1>3. InRoot' = InRoot
    BY <1>1 DEF InRoot
  <1> QED BY <1>1, <1>2, <1>3 DEF Contract!Succeed

\* A fault fails the run, and costs an image only while one is being written.
LEMMA BreakRefines ==
    ASSUME IInv, ImageInv, Breakage
    PROVE  Contract!Fail \/ UNCHANGED Contract!cvars
  <1>1. CASE DownloadCorrupt
    BY <1>1, QuietRefines DEF DownloadCorrupt, Idle, target, product
  <1>2. CASE BreakProduct /\ stage = "image"
    <2>1. /\ stage' = "failed" /\ root' = root
          /\ image' = [state |-> "torn", holds |-> {}] /\ image.state # "fresh"
      BY <1>2 DEF BreakProduct, Break, target, ImageInv
    <2>2. ScriptPhase = "running" /\ ScriptPhase' = "failed" /\ InRoot' = InRoot
      BY <1>2, <2>1, PhaseValues, PhaseValuesNext DEF Idle, InRoot
    <2> QED BY <1>2, <2>1, <2>2, EssentialPlaced DEF Contract!Fail
  <1>3. CASE ~DownloadCorrupt /\ ~(BreakProduct /\ stage = "image")
    <2>1. /\ stage \notin Idle /\ stage' = "failed" /\ image' = image
          /\ \/ root' = root
             \/ \E p \in Parts : root' = [root EXCEPT ![p] = "torn"]
      <3>1. CASE BreakQuietly \/ BreakDownload \/ BreakTree
        BY <3>1 DEF BreakQuietly, BreakDownload, BreakTree, Break, Idle, target, product
      <3>2. CASE BreakRoot
        <4>1. stage = "install" => Pkg \in Parts
          BY PkgInPackages DEF IInv, Building, Parts
        <4>2. stage = "configure" => Config[at] \in Parts
          BY ConfigFacts DEF IInv, TypeOK, Files, Parts
        <4> QED BY <3>2, <4>1, <4>2 DEF BreakRoot, Break, Idle, product
      <3>3. CASE BreakProduct
        BY <1>3, <3>3 DEF BreakProduct, Break, Idle, target
      <3> QED BY <1>3, <3>1, <3>2, <3>3 DEF Breakage
    <2>2. InRoot' \subseteq InRoot
      BY <2>1 DEF InRoot, IInv, TypeOK
    <2> QED BY <2>1, <2>2, FailRefines
  <1> QED BY <1>1, <1>2, <1>3

\* What the operator removes is given up between runs.
LEMMA OperatorRefines ==
    ASSUME LfsClean \/ DownVolumes
    PROVE  Contract!Discard
  <1>1. stage \in Idle /\ stage' = "off"
    BY DEF LfsClean, DownVolumes
  <1>2. ScriptPhase # "running" /\ ScriptPhase' = "idle"
    BY <1>1, PhaseValues, PhaseValuesNext
  <1>3. InRoot' \in {InRoot, {}}
    BY DEF LfsClean, DownVolumes, InRoot, target
  <1>4. image' \in {image, [state |-> "none", holds |-> {}]}
    BY DEF LfsClean, DownVolumes, product
  <1> QED BY <1>2, <1>3, <1>4 DEF Contract!Discard

\* Every step of the script is one of the contract, or none.
LEMMA StepRefines ==
    ASSUME IInv, ImageInv, Step
    PROVE  Contract!ContractNext \/ UNCHANGED Contract!cvars
  <1>1. CASE Install
    BY <1>1, InstallRefines DEF Contract!ContractNext
  <1>2. CASE Configure
    BY <1>2, ConfigureRefines DEF Contract!ContractNext
  <1>3. CASE CreateImage
    BY <1>3, DeliverRefines DEF Contract!ContractNext
  <1>4. CASE CreateIso
    BY <1>4, SucceedRefines DEF Contract!ContractNext
  <1>5. CASE Validate \/ Setup \/ Download \/ Unpack \/ Compile \/ Remove
    BY <1>5, QuietRefines
    DEF Validate, Setup, Download, Unpack, Compile, Remove, Goto, Idle, target, product
  <1>6. CASE UnpackDamaged \/ MakeBuildDir \/ CompileDoubtful
    <2>1. /\ stage \notin Idle /\ stage' \in {"failed", "compile"}
          /\ UNCHANGED <<root, image>>
      BY <1>6 DEF UnpackDamaged, MakeBuildDir, CompileDoubtful, Goto, Idle, target, product
    <2>2. CASE stage' = "failed"
      BY <2>1, <2>2, FailRefines DEF Contract!ContractNext, InRoot
    <2>3. CASE stage' = "compile"
      BY <2>1, <2>3, QuietRefines DEF Idle
    <2> QED BY <2>1, <2>2, <2>3
  <1> QED BY <1>1, <1>2, <1>3, <1>4, <1>5, <1>6 DEF Step

\* Every behaviour of the script is one the contract allows: parts in order, an
\* image only of a complete installation, success only with that image.
THEOREM Refinement == Spec => ImplementsContract
  <1>1. IInv /\ ImageInv /\ [Next]_vars => [Contract!ContractNext]_(Contract!cvars)
    <2> SUFFICES ASSUME IInv, ImageInv, [Next]_vars
                 PROVE  Contract!ContractNext \/ UNCHANGED Contract!cvars
      OBVIOUS
    <2>1. CASE UNCHANGED vars
      BY <2>1 DEF vars, Contract!cvars, InRoot, ScriptPhase
    <2>2. CASE \E c \in Settings : Start(c)
      BY <2>2, StartRefines DEF Contract!ContractNext, IInv
    <2>3. CASE Step
      BY <2>3, StepRefines
    <2>4. CASE Breakage
      BY <2>4, BreakRefines DEF Contract!ContractNext
    <2>5. CASE LfsClean \/ DownVolumes
      BY <2>5, OperatorRefines DEF Contract!ContractNext
    <2> QED BY <2>1, <2>2, <2>3, <2>4, <2>5 DEF Next
  <1> QED
    BY <1>1, InitRefines, Invariance, ImageNotYet, PTL
    DEF Spec, ImplementsContract, Contract!ContractSpec

-------------------------------------------------------------------------------
(* LfsBuildFixed: type correctness *)

\* The steps of this script only: every variable keeps its type.
LEMMA FixedStepType ==
    ASSUME TypeOK, FixedStep
    PROVE  TypeOK'
  <1> USE DEF TypeOK, Stages, Idle, Building, Goto, sources, target, product
  <1>1. CASE Validate \/ Setup \/ Download \/ Remove \/ Configure \/ CreateImage \/ CreateIso
    BY <1>1, StepType DEF Step
  <1>2. CASE FixedUnpack
    BY <1>2 DEF FixedUnpack, Leftover, AfterUnpack, TreeState
  <1>3. CASE FixedUnpackDamaged
    <2>1. PICK s \in {Leftover(Pkg), IF Leftover(Pkg) = "none" THEN "source" ELSE Leftover(Pkg)} :
            /\ tree' = [tree EXCEPT ![Pkg] = s]
            /\ Goto(IF Pkg \in Checked \/ s = "none" THEN "failed" ELSE AfterUnpack)
      BY <1>3 DEF FixedUnpackDamaged
    <2>2. Pkg \in Packages
      BY <1>3, PkgInPackages DEF FixedUnpackDamaged
    <2>3. tree' \in [Packages -> TreeState]
      BY <2>1, <2>2 DEF Leftover, TreeState
    <2>4. stage' \in {"failed", "mkdir", "compile"} /\ conf' = conf /\ faults' = faults /\ hit' = hit
      BY <2>1 DEF AfterUnpack
    <2> QED BY <1>3, <2>3, <2>4 DEF FixedUnpackDamaged
  <1>4. CASE PrerequisiteMissing
    BY <1>4 DEF PrerequisiteMissing
  <1>5. CASE FixedMakeBuildDir
    BY <1>5 DEF FixedMakeBuildDir, TreeState
  <1>6. CASE FixedCompile
    BY <1>6 DEF FixedCompile, TreeState
  <1>7. CASE FixedCompileFails
    BY <1>7 DEF FixedCompileFails, TreeState
  <1>8. CASE FixedInstall
    BY <1>8, PkgInPackages DEF FixedInstall, Age
  <1>9. CASE NoHeaders
    BY <1>9 DEF NoHeaders
  <1> QED
    BY <1>1, <1>2, <1>3, <1>4, <1>5, <1>6, <1>7, <1>8, <1>9 DEF FixedStep

\* A command that fails unnoticed.
LEMMA MaskedType ==
    ASSUME TypeOK, Masked
    PROVE  TypeOK' /\ hit' = "yes" /\ conf' = conf
  <1> USE DEF TypeOK, Stages, Idle, Building, sources, target, product
  <1>1. faults' \in 0..MaxFaults /\ hit' = "yes" /\ conf' = conf
    BY FaultsAssumption
    DEF Masked, HeadersCut, UnpackCut, RemoveOldCut, RemoveCut, ConfigureCut, ImageCut, IsoCut,
        Fault
  <1>2. CASE HeadersCut
    BY <1>1, <1>2 DEF HeadersCut, TreeState
  <1>3. CASE UnpackCut
    BY <1>1, <1>3 DEF UnpackCut, AfterUnpack, TreeState
  <1>4. CASE RemoveCut
    <2>1. tree' \in [Packages -> TreeState]
      <3>1. PICK s \in Remains(Pkg) : tree' = [tree EXCEPT ![Pkg] = s]
        BY <1>4 DEF RemoveCut
      <3>2. Pkg \in Packages
        BY <1>4, PkgInPackages DEF RemoveCut
      <3> QED BY <3>1, <3>2 DEF Remains, TreeState
    <2>2. /\ stage' \in {"unpack", "configure"} /\ at' \in Nat \ {0}
          /\ stage' = "unpack" => at' <= Len(Order)
          /\ stage' = "configure" => at' <= Len(Config)
      BY <1>4, OrderFacts, ConfigFacts DEF RemoveCut
    <2> QED BY <1>1, <1>4, <2>1, <2>2 DEF RemoveCut
  <1>5. CASE ConfigureCut
    <2>1. root' \in [Parts -> Age]
      BY <1>5 DEF ConfigureCut, Age
    <2>2. /\ stage' \in {"configure", "image"} /\ at' \in Nat \ {0}
          /\ stage' = "configure" => at' <= Len(Config)
      BY <1>5, ConfigFacts DEF ConfigureCut
    <2> QED BY <1>1, <1>5, <2>1, <2>2 DEF ConfigureCut
  <1>6. CASE ImageCut
    BY <1>1, <1>6 DEF ImageCut, Age
  <1>7. CASE IsoCut
    BY <1>1, <1>7 DEF IsoCut, Age
  <1>8. CASE RemoveOldCut
    <2>1. tree' \in [Packages -> TreeState]
      <3>1. PICK s \in Remains(Pkg) : tree' = [tree EXCEPT ![Pkg] = s]
        BY <1>8 DEF RemoveOldCut
      <3>2. Pkg \in Packages
        BY <1>8, PkgInPackages DEF RemoveOldCut
      <3> QED BY <3>1, <3>2 DEF Remains, TreeState
    <2>2. stage' \in {"mkdir", "compile", "failed"} /\ at' = at /\ stage = "unpack"
      BY <1>8 DEF RemoveOldCut, AfterUnpack
    <2> QED BY <1>1, <1>8, <2>1, <2>2 DEF RemoveOldCut
  <1> QED
    BY <1>1, <1>2, <1>3, <1>4, <1>5, <1>6, <1>7, <1>8 DEF Masked

\* Every variable keeps its type, and every loop stays within its list.
THEOREM FixedTypeCorrect == FixedSpec => []TypeOK
  <1>1. TypeOK /\ [FixedNext]_vars => TypeOK'
    <2> SUFFICES ASSUME TypeOK, [FixedNext]_vars PROVE TypeOK'
      OBVIOUS
    <2>1. CASE UNCHANGED vars
      BY <2>1 DEF vars, TypeOK
    <2> QED
      BY <2>1, StartType, FixedStepType, MaskedType, BreakType, OperatorType DEF FixedNext
  <1> QED BY <1>1, InitType, PTL DEF FixedSpec

-------------------------------------------------------------------------------
(* The inductive invariant *)

\* Installed by this run, but for headers of which a part may be missing.
InPlace(p) == root[p] = "fresh" \/ (p \in Mrproper /\ root[p] = "torn")

\* What "|| return 1" after make install keeps true from phase to phase.
PartsInv ==
    /\ stage \in Building => \A j \in 1..(at - 1) : InPlace(Order[j])
    /\ stage = "remove" => InPlace(Pkg)
    /\ stage \in After => \A p \in Packages : InPlace(p)

\* A package whose tree is removed first is built from a whole archive only, and
\* over an interrupted make only by a run whose removal failed.
CleanInv ==
    stage \in {"mkdir", "compile", "install"} /\ Pkg \in Cleaned =>
        archive[Pkg] = "whole" /\ (hit = "no" => tree[Pkg] # "torn")

\* In a run no fault hit, headers are missing only for a damaged archive: this
\* is what build_glibc's test of its prerequisites depends on.
HeadersInv ==
    hit = "no" =>
        /\ stage = "install" /\ Pkg \in Mrproper /\ tree[Pkg] = "torn" => archive[Pkg] = "damaged"
        /\ stage = "remove" /\ Pkg \in Mrproper /\ root[Pkg] # "fresh" => archive[Pkg] = "damaged"
        /\ stage \in Building =>
             \A j \in 1..(at - 1) :
                Order[j] \in Mrproper /\ root[Order[j]] # "fresh" => archive[Order[j]] = "damaged"

FixedInv ==
    /\ TypeOK /\ DownloadInv /\ PartsInv /\ CleanInv /\ HeadersInv
    /\ CleanedIsSound /\ FixedFailsForACause

\* At the start nothing is built.
LEMMA FixedInitInv == Init => FixedInv
  <1> SUFFICES ASSUME Init PROVE FixedInv
    OBVIOUS
  <1>1. stage = "off" /\ suspect = {}
    BY DEF Init
  <1> QED
    BY <1>1, InitType DEF FixedInv, DownloadInv, PartsInv, CleanInv, HeadersInv, Building, After,
       CleanedIsSound, FixedFailsForACause

\* Outside the build phases nothing is relied on.
LEMMA FixedOutsideInv ==
    ASSUME stage' \in {"off", "failed", "validate", "setup"}
    PROVE  DownloadInv' /\ PartsInv' /\ CleanInv' /\ HeadersInv'
  BY OutsideInv DEF PartsInv, CleanInv, HeadersInv, Building, After

\* A run starts, the operator cleans up, or a fault ends the run.
LEMMA FixedBetweenInv ==
    ASSUME FixedInv,
           \/ \E c \in Settings : Start(c)
           \/ LfsClean \/ DownVolumes
           \/ BreakQuietly \/ BreakDownload \/ BreakTree \/ BreakRoot \/ BreakProduct
    PROVE  FixedInv'
  <1>1. TypeOK'
    BY StartType, OperatorType, BreakType DEF FixedInv, Breakage
  <1>2. /\ stage' \in {"off", "failed", "validate"}
        /\ stage' = "failed" => hit' = "yes"
    BY DEF Start, LfsClean, DownVolumes, BreakQuietly, BreakDownload, BreakTree, BreakRoot,
           BreakProduct, Break, Fault
  <1>3. CleanedIsSound'
    <2>1. CASE \E c \in Settings : Start(c)
      <3>1. \A p \in Cleaned : p \in Parts
        BY CheckedAssumption DEF Parts
      <3>2. \A p \in Parts : root'[p] # "fresh"
        BY <2>1 DEF Start, Aged
      <3> QED BY <3>1, <3>2 DEF CleanedIsSound
    <2>2. CASE LfsClean \/ DownVolumes
      BY <2>2 DEF FixedInv, CleanedIsSound, LfsClean, DownVolumes, target
    <2>3. CASE BreakQuietly \/ BreakDownload \/ BreakTree \/ BreakRoot \/ BreakProduct
      BY <2>3 DEF CleanedIsSound, BreakQuietly, BreakDownload, BreakTree, BreakRoot,
                  BreakProduct, Break, Fault
    <2> QED BY <2>1, <2>2, <2>3
  <1> QED BY <1>1, <1>2, <1>3, FixedOutsideInv DEF FixedInv, FixedFailsForACause

\* The download loop, with or without a corrupt file.
LEMMA FixedFetchInv ==
    ASSUME FixedInv, Validate \/ Setup \/ Download \/ DownloadCorrupt
    PROVE  FixedInv'
  <1>1. TypeOK /\ TypeOK'
    BY FixedStepType, BreakType DEF FixedInv, FixedStep, Breakage
  <1>2. /\ CleanedIsSound'
        /\ stage' \in {"setup", "download", "unpack"}
        /\ stage' = "unpack" => at' = 1
    BY DEF FixedInv, Validate, Setup, Download, DownloadCorrupt, Goto, Fault, target, CleanedIsSound
  <1>3. PartsInv' /\ CleanInv' /\ HeadersInv' /\ FixedFailsForACause'
    BY <1>2 DEF PartsInv, CleanInv, HeadersInv, FixedFailsForACause, Building, After
  <1>4. DownloadInv'
    <2>1. CASE Validate
      BY <2>1, OutsideInv DEF Validate
    <2>2. CASE Setup
      BY <2>2 DEF Setup, Goto, DownloadInv, Building
    <2>3. CASE Download \/ DownloadCorrupt
      <3>1. stage = "download" /\ at \in 1..Len(Downloads)
        BY <1>1, <2>3, DownloadFacts DEF Download, DownloadCorrupt, TypeOK
      <3>2. \A i \in 1..at : archive'[Downloads[i]] # "absent"
        BY <1>1, <2>3, <3>1
        DEF Download, DownloadCorrupt, TypeOK, FixedInv, DownloadInv, Url, Archives
      <3>3. CASE at < Len(Downloads)
        <4>1. stage' = "download" /\ at' = at + 1
          BY <2>3, <3>3 DEF Download, DownloadCorrupt, Goto
        <4> QED BY <3>1, <3>2, <4>1 DEF DownloadInv, Building
      <3>4. CASE ~(at < Len(Downloads))
        <4>1. at = Len(Downloads) /\ stage' = "unpack"
          BY <2>3, <3>1, <3>4, DownloadFacts DEF Download, DownloadCorrupt, Goto
        <4>2. \A a \in Archives : archive'[a] # "absent"
          BY <3>2, <4>1 DEF Archives
        <4> QED BY <4>1, <4>2 DEF DownloadInv, Building
      <3> QED BY <3>3, <3>4
    <2> QED BY <2>1, <2>2, <2>3
  <1> QED BY <1>1, <1>2, <1>3, <1>4 DEF FixedInv

\* The steps that build the current package.
LEMMA FixedBuildInv ==
    ASSUME FixedInv,
           \/ FixedUnpack \/ FixedUnpackDamaged \/ PrerequisiteMissing \/ FixedMakeBuildDir
           \/ FixedCompile \/ FixedCompileFails \/ FixedInstall \/ NoHeaders
           \/ HeadersCut \/ UnpackCut \/ RemoveOldCut
    PROVE  FixedInv'
  <1> USE DEF Goto
  <1>1. TypeOK /\ TypeOK'
    BY FixedStepType, MaskedType DEF FixedInv, FixedStep, Masked
  <1>2. /\ stage \in Building /\ stage' \in Building \cup {"failed"}
        /\ at' = at /\ archive' = archive /\ Pkg' = Pkg
        /\ hit' = "no" => hit = "no"
    BY DEF FixedUnpack, FixedUnpackDamaged, PrerequisiteMissing, FixedMakeBuildDir, FixedCompile,
           FixedCompileFails, FixedInstall, NoHeaders, HeadersCut, UnpackCut, RemoveOldCut, AfterUnpack, Fault,
           Building, sources, Pkg
  <1>3. Pkg \in Packages /\ at \in 1..Len(Order)
    BY <1>1, <1>2, PkgInPackages
  <1>4. archive[Pkg] # "whole" => archive[Pkg] = "damaged"
    BY <1>1, <1>2, <1>3, DownloadsAssumption DEF FixedInv, DownloadInv, TypeOK
  <1>5. \A p \in Packages \ {Pkg} : root'[p] = root[p]
    BY <1>1 DEF TypeOK, Parts, FixedUnpack, FixedUnpackDamaged, PrerequisiteMissing,
                FixedMakeBuildDir, FixedCompile, FixedCompileFails, FixedInstall, NoHeaders,
                HeadersCut, UnpackCut, RemoveOldCut, target
  <1>6. DownloadInv'
    BY <1>2 DEF FixedInv, DownloadInv, Building
  <1>7. stage' = "remove" =>
          /\ FixedInstall /\ stage = "install"
          /\ root'[Pkg] = IF Pkg \in Mrproper /\ tree[Pkg] = "torn" THEN "torn" ELSE "fresh"
    BY <1>1, <1>3
    DEF TypeOK, Parts, FixedUnpack, FixedUnpackDamaged, PrerequisiteMissing, FixedMakeBuildDir,
        FixedCompile, FixedCompileFails, FixedInstall, NoHeaders, HeadersCut, UnpackCut, RemoveOldCut, AfterUnpack
  <1>8. PartsInv'
    <2>1. \A j \in 1..(at - 1) : InPlace(Order[j])'
      BY <1>1, <1>2, <1>5, OthersKept DEF FixedInv, PartsInv, InPlace
    <2> QED BY <1>2, <1>7, <2>1 DEF PartsInv, InPlace, After, Building
  <1>9. CleanInv'
    <2> SUFFICES ASSUME stage' \in {"mkdir", "compile", "install"}, Pkg \in Cleaned
                 PROVE  archive[Pkg] = "whole" /\ (hit' = "no" => tree'[Pkg] # "torn")
      BY <1>2 DEF CleanInv
    <2>1. Pkg \in Checked /\ Pkg \notin Mrproper
      BY CheckedAssumption
    <2>2. CASE FixedUnpack
      BY <1>1, <1>3, <2>2 DEF FixedUnpack, Leftover, TypeOK
    <2>3. CASE FixedMakeBuildDir \/ FixedCompile
      BY <1>1, <1>3, <2>1, <2>3 DEF FixedMakeBuildDir, FixedCompile, FixedInv, CleanInv, TypeOK
    <2>4. ~(FixedUnpackDamaged \/ PrerequisiteMissing \/ FixedCompileFails \/ FixedInstall
            \/ NoHeaders \/ HeadersCut \/ UnpackCut)
      BY <2>1 DEF FixedUnpackDamaged, PrerequisiteMissing, FixedCompileFails, FixedInstall,
                  NoHeaders, HeadersCut, UnpackCut
    <2>5. CASE RemoveOldCut
      BY <2>5 DEF RemoveOldCut, Fault
    <2> QED BY <2>2, <2>3, <2>4, <2>5
  <1>10. HeadersInv'
    <2> SUFFICES ASSUME hit' = "no" PROVE HeadersInv'
      BY DEF HeadersInv
    <2>1. hit = "no"
      BY <1>2
    <2>2. stage' = "install" /\ Pkg \in Mrproper /\ tree'[Pkg] = "torn" => archive[Pkg] = "damaged"
      <3> SUFFICES ASSUME stage' = "install", Pkg \in Mrproper, tree'[Pkg] = "torn"
                   PROVE  archive[Pkg] = "damaged"
        OBVIOUS
      <3>1. FixedCompile
        BY DEF FixedUnpack, FixedUnpackDamaged, PrerequisiteMissing, FixedMakeBuildDir,
               FixedCompile, FixedCompileFails, FixedInstall, NoHeaders, HeadersCut, UnpackCut,
               RemoveOldCut, AfterUnpack, Fault
      <3> QED BY <1>1, <1>3, <1>4, <3>1 DEF FixedCompile, TypeOK
    <2>3. stage' = "remove" /\ Pkg \in Mrproper /\ root'[Pkg] # "fresh" => archive[Pkg] = "damaged"
      BY <1>7, <2>1 DEF FixedInv, HeadersInv
    <2>4. \A j \in 1..(at - 1) :
            Order[j] \in Mrproper /\ root'[Order[j]] # "fresh" => archive[Order[j]] = "damaged"
      BY <1>1, <1>2, <1>5, <2>1, OthersKept DEF FixedInv, HeadersInv
    <2> QED BY <1>2, <2>2, <2>3, <2>4 DEF HeadersInv
  <1>11. CleanedIsSound'
    <2> SUFFICES ASSUME hit' = "no", NEW p \in Cleaned, root'[p] = "fresh"
                 PROVE  p \notin suspect'
      BY DEF CleanedIsSound
    <2>1. hit = "no" /\ p \in Packages
      BY <1>2, CheckedAssumption
    <2>2. CASE FixedInstall
      <3>1. CASE p = Pkg
        <4>1. ~Unsure(Pkg)
          BY <2>1, <2>2, <3>1, CheckedAssumption
          DEF FixedInstall, FixedInv, CleanInv, Unsure, Doubtful
        <4> QED BY <2>2, <3>1, <4>1 DEF FixedInstall
      <3>2. CASE p # Pkg
        <4>1. root[p] = "fresh"
          BY <1>5, <2>1, <3>2
        <4> QED BY <2>1, <2>2, <3>2, <4>1 DEF FixedInstall, FixedInv, CleanedIsSound
      <3> QED BY <3>1, <3>2
    <2>3. CASE ~FixedInstall
      BY <2>1, <2>3 DEF FixedInv, CleanedIsSound, FixedUnpack, FixedUnpackDamaged,
                        PrerequisiteMissing, FixedMakeBuildDir, FixedCompile, FixedCompileFails,
                        NoHeaders, HeadersCut, UnpackCut, RemoveOldCut, target
    <2> QED BY <2>2, <2>3
  <1>12. FixedFailsForACause'
    <2> SUFFICES ASSUME stage' = "failed", hit' = "no"
                 PROVE  \E p \in Archives : archive[p] = "damaged" \/ (p \in Packages /\ tree'[p] = "torn")
      BY <1>2 DEF FixedFailsForACause
    <2>1. hit = "no" /\ Packages \subseteq Archives
      BY <1>2, DownloadsAssumption
    <2>2. CASE FixedUnpackDamaged
      BY <1>3, <1>4, <2>1, <2>2 DEF FixedUnpackDamaged
    <2>3. CASE PrerequisiteMissing
      <3>1. PICK h \in Mrproper : root[h] # "fresh"
        BY <2>3 DEF PrerequisiteMissing
      <3>2. PICK i \in 1..Len(Order) : h = Order[i]
        BY OrderFacts, OrderAssumption
      <3>3. i \in 1..(at - 1)
        <4>1. Pkg \in Cleaned /\ at \in 1..Len(Order)
          BY <1>3, <2>3 DEF PrerequisiteMissing
        <4>2. i < at
          BY <3>1, <3>2, <4>1, CheckedAssumption DEF Pkg
        <4> QED BY <4>1, <4>2
      <3>4. archive[h] = "damaged"
        BY <1>2, <2>1, <3>1, <3>2, <3>3 DEF FixedInv, HeadersInv
      <3> QED BY <2>1, <3>2, <3>4, PkgType
    <2>4. CASE FixedCompileFails
      BY <1>1, <1>3, <2>1, <2>4 DEF FixedCompileFails, TypeOK
    <2>5. CASE NoHeaders
      BY <1>3, <2>1, <2>5 DEF NoHeaders, sources
    <2>6. ~RemoveOldCut
      BY DEF RemoveOldCut, Fault
    <2>7. ~(FixedUnpack \/ FixedMakeBuildDir \/ FixedCompile \/ FixedInstall \/ HeadersCut \/ UnpackCut)
      BY DEF FixedUnpack, FixedMakeBuildDir, FixedCompile, FixedInstall, HeadersCut, UnpackCut,
             AfterUnpack
    <2> QED BY <2>2, <2>3, <2>4, <2>5, <2>6, <2>7
  <1> QED BY <1>1, <1>6, <1>8, <1>9, <1>10, <1>11, <1>12 DEF FixedInv

\* A package is over, and with the last one the build phases.
LEMMA FixedRemoveInv ==
    ASSUME FixedInv, Remove \/ RemoveCut
    PROVE  FixedInv'
  <1>1. TypeOK /\ TypeOK'
    BY FixedStepType, MaskedType DEF FixedInv, FixedStep, Masked
  <1>2. /\ stage = "remove" /\ stage' \in {"unpack", "configure"} /\ stage \in Building
        /\ archive' = archive /\ root' = root /\ suspect' = suspect
        /\ hit' = "no" => hit = "no"
    BY DEF Remove, RemoveCut, Goto, Fault, Building, target
  <1>3. at \in 1..Len(Order) /\ Pkg \in Packages
    BY <1>1, <1>2, PkgInPackages
  <1>4. CleanedIsSound' /\ FixedFailsForACause' /\ CleanInv'
    BY <1>2 DEF FixedInv, CleanedIsSound, FixedFailsForACause, CleanInv
  <1>5. \A j \in 1..at : InPlace(Order[j])'
    <2>1. InPlace(Order[at])
      BY <1>2 DEF FixedInv, PartsInv, Pkg
    <2> QED BY <1>2, <1>3, <2>1 DEF FixedInv, PartsInv, InPlace
  <1>6. hit = "no" => \A j \in 1..at : Order[j] \in Mrproper /\ root[Order[j]] # "fresh"
                                         => archive[Order[j]] = "damaged"
    <2>1. hit = "no" /\ Order[at] \in Mrproper /\ root[Order[at]] # "fresh"
            => archive[Order[at]] = "damaged"
      BY <1>2 DEF FixedInv, HeadersInv, Pkg
    <2> QED BY <1>2, <1>3, <2>1 DEF FixedInv, HeadersInv
  <1>7. CASE at < Len(Order)
    <2>1. stage' = "unpack" /\ at' = at + 1
      BY <1>7 DEF Remove, RemoveCut, Goto
    <2>2. PartsInv' /\ HeadersInv'
      BY <1>2, <1>3, <1>5, <1>6, <2>1 DEF PartsInv, HeadersInv, After
    <2>3. DownloadInv'
      BY <1>2, <2>1 DEF FixedInv, DownloadInv
    <2> QED BY <1>1, <1>4, <2>2, <2>3 DEF FixedInv
  <1>8. CASE ~(at < Len(Order))
    <2>1. stage' = "configure" /\ at = Len(Order)
      BY <1>3, <1>8, OrderFacts DEF Remove, RemoveCut, Goto
    <2>2. PartsInv'
      BY <1>5, <2>1, OrderFacts DEF PartsInv, Building
    <2> QED
      BY <1>1, <1>4, <2>1, <2>2 DEF FixedInv, DownloadInv, HeadersInv, Building
  <1> QED BY <1>7, <1>8

\* The phases after the build: files, image and ISO.
LEMMA FixedAfterInv ==
    ASSUME FixedInv,
           Configure \/ ConfigureCut \/ CreateImage \/ ImageCut \/ CreateIso \/ IsoCut
    PROVE  FixedInv'
  <1>1. TypeOK /\ TypeOK'
    BY FixedStepType, MaskedType DEF FixedInv, FixedStep, Masked
  <1>2. stage \in After /\ stage' \in After /\ suspect' = suspect
    BY DEF Configure, ConfigureCut, CreateImage, ImageCut, CreateIso, IsoCut, Goto, After, target
  <1>3. \A p \in Packages : root'[p] = root[p]
    <2>1. CASE Configure \/ ConfigureCut
      <3>1. Config[at] \in Files
        BY <1>1, <2>1, ConfigFacts DEF Configure, ConfigureCut, TypeOK, Files
      <3> QED BY <1>1, <2>1, <3>1, OrderAssumption DEF Configure, ConfigureCut, TypeOK, Parts
    <2> QED
      BY <2>1 DEF CreateImage, ImageCut, CreateIso, IsoCut, target
  <1>4. PartsInv'
    BY <1>2, <1>3 DEF FixedInv, PartsInv, InPlace, After, Building
  <1>5. CleanedIsSound'
    <2>1. hit' = "no" => hit = "no"
      BY DEF Configure, ConfigureCut, CreateImage, ImageCut, CreateIso, IsoCut, Goto, Fault
    <2> QED BY <1>2, <1>3, <2>1, CheckedAssumption DEF FixedInv, CleanedIsSound
  <1> QED
    BY <1>1, <1>2, <1>4, <1>5
    DEF FixedInv, DownloadInv, CleanInv, HeadersInv, FixedFailsForACause, After, Building

\* The invariant holds in every reachable state.
THEOREM FixedInvariance == FixedSpec => []FixedInv
  <1>1. FixedInv /\ [FixedNext]_vars => FixedInv'
    <2> SUFFICES ASSUME FixedInv, [FixedNext]_vars PROVE FixedInv'
      OBVIOUS
    <2>1. CASE UNCHANGED vars
      BY <2>1 DEF vars, FixedInv, TypeOK, DownloadInv, PartsInv, InPlace, CleanInv, HeadersInv,
                  CleanedIsSound, FixedFailsForACause, Pkg
    <2>2. CASE FixedStep \/ Masked
      BY <2>2, FixedFetchInv, FixedBuildInv, FixedRemoveInv, FixedAfterInv DEF FixedStep, Masked
    <2>3. CASE Breakage
      BY <2>3, FixedFetchInv, FixedBetweenInv DEF Breakage
    <2> QED
      BY <2>1, <2>2, <2>3, FixedBetweenInv DEF FixedNext
  <1> QED BY <1>1, FixedInitInv, PTL DEF FixedSpec

-------------------------------------------------------------------------------
(* The safety properties of LfsBuildFixed *)

\* "|| return 1" after make install is enough for this much: later packages, and
\* everything after them, find all packages installed, the headers in part.
THEOREM ChecksHold == FixedSpec => []CheckedPartsInstalled
  <1>1. FixedInv => CheckedPartsInstalled
    <2> SUFFICES ASSUME FixedInv, stage \in Building \cup After, NEW p \in Packages,
                        stage \in Building => \E j \in 1..(at - 1) : Order[j] = p
                 PROVE  InPlace(p)
      BY DEF CheckedPartsInstalled, InPlace
    <2>1. CASE stage \in Building
      BY <2>1 DEF FixedInv, PartsInv
    <2>2. CASE stage \in After
      BY <2>2 DEF FixedInv, PartsInv
    <2> QED BY <2>1, <2>2
  <1> QED BY <1>1, FixedInvariance, PTL

\* glibc, whose tree is removed first, is compiled from an interrupted make's
\* objects only by a run that a fault hit itself, whatever earlier runs left and
\* whatever commands failed unnoticed in them.
THEOREM CleanedSound == FixedSpec => []CleanedIsSound
  <1>1. FixedInv => CleanedIsSound
    BY DEF FixedInv
  <1> QED BY <1>1, FixedInvariance, PTL

\* A leftover build directory alone never stops this script.
THEOREM FixedFailureHasCause == FixedSpec => []FixedFailsForACause
  <1>1. FixedInv => FixedFailsForACause
    BY DEF FixedInv
  <1> QED BY <1>1, FixedInvariance, PTL
===============================================================================
