------------------------------- MODULE LfsBuild -------------------------------
(***************************************************************************)
(* The build pipeline of lfs-build.sh, with the files that outlive a run.  *)
(*                                                                         *)
(* One run of the script is a sequence of steps; the script runs under     *)
(* "set -e", so the first command that fails ends the run.  The container  *)
(* (or the user) starts the script again on whatever the last run left in  *)
(* the sources directory and in $LFS: archives, unpacked trees, installed  *)
(* components, the system image and the ISO.  What a run finds there is    *)
(* the whole difficulty, so the model keeps those files and abstracts the  *)
(* contents of every one of them to how far its making got.                *)
(***************************************************************************)
EXTENDS Naturals, Sequences

CONSTANTS
    Downloads,   \* the archives download_packages fetches, in its order
    Order,       \* the packages the build phases build, in their order
    OutOfTree,   \* those whose recipe runs "mkdir -v build": binutils, gcc, glibc
    Mrproper,    \* those whose recipe first cleans the tree: linux
    Host,        \* the package that also unpacks the bundled libraries: gcc
    Bundled,     \* the libraries unpacked inside Host: mpfr, gmp, mpc
    Settings,    \* the settings runs are started with, see Conf
    MaxFaults    \* bound on the faults (failed commands, kills) of a behaviour

Archives == {Downloads[i] : i \in 1..Len(Downloads)}
Packages == {Order[i] : i \in 1..Len(Order)}

\* The phases that only write files under $LFS, in the order main calls them.
Config == <<"system", "network", "gnome", "boot", "release">>
Files  == {Config[i] : i \in 1..Len(Config)}
Parts  == Packages \cup Files

ASSUME DownloadsAssumption ==
    /\ Downloads \in Seq(Archives)
    /\ Archives = Packages \cup Bundled
    /\ Len(Downloads) > 0
ASSUME OrderAssumption ==
    /\ Order \in Seq(Packages)
    /\ Len(Order) > 0
    /\ \A i, j \in 1..Len(Order) : Order[i] = Order[j] => i = j
    /\ OutOfTree \subseteq Packages /\ Mrproper \subseteq Packages \ OutOfTree
    /\ Host \in OutOfTree /\ Bundled \cap Packages = {}
    /\ Packages \cap Files = {}

\* CREATE_ISO, NETWORKING_ENABLED, GNOME_ENABLED, and how the script is started:
\* lfs-build gives it an absolute $0, the container's wrapper ./lfs-build.sh.
Switch == {"true", "false"}
Conf == [iso : Switch, net : Switch, gnome : Switch, entry : {"wrapper", "docker"}]

ASSUME SettingsAssumption == Settings \subseteq Conf /\ Settings # {}
ASSUME FaultsAssumption  == MaxFaults \in Nat

VARIABLES
    stage,    \* the step the script is at, or how its last run ended
    at,       \* the position of the loop that step belongs to
    conf,     \* the settings of the run
    archive,  \* sources/<archive>: absent, damaged (cut short or corrupt) or whole
    tree,     \* sources/<package>/: see TreeState
    root,     \* what $LFS holds of each part: none, torn, stale (of an earlier run), fresh
    suspect,  \* components in $LFS compiled from damaged input or torn objects (observer)
    image,    \* lfs-system.tar.gz and the parts its run had installed in it
    iso,      \* $ISO_OUTPUT
    faults,   \* faults so far (bound)
    hit       \* has a fault hit this run? (observer)

control == <<stage, at, conf>>
sources == <<archive, tree>>
target  == <<root, suspect>>
product == <<image, iso>>
vars    == <<stage, at, conf, archive, tree, root, suspect, image, iso, faults, hit>>

Age == {"none", "torn", "stale", "fresh"}

\* none: no directory; source: what tar unpacks; build: and an empty build
\* directory; torn: and objects of an interrupted make; made: of a finished one.
TreeState == {"none", "source", "build", "torn", "made"}

Idle     == {"off", "done", "failed"}
Building == {"unpack", "mkdir", "compile", "install", "remove"}
Stages   == Idle \cup Building \cup {"validate", "setup", "download", "configure", "image", "iso"}

TypeOK ==
    /\ stage \in Stages
    /\ at \in Nat \ {0}
    /\ stage = "download" => at <= Len(Downloads)
    /\ stage \in Building => at <= Len(Order)
    /\ stage = "configure" => at <= Len(Config)
    /\ conf \in Conf
    /\ archive \in [Archives -> {"absent", "damaged", "whole"}]
    /\ tree \in [Packages -> TreeState]
    /\ root \in [Parts -> Age]
    /\ suspect \subseteq Packages
    /\ image \in [state : Age, holds : SUBSET Parts]
    /\ iso \in Age
    /\ faults \in 0..MaxFaults
    /\ hit \in {"yes", "no"}

Init ==
    /\ stage = "off" /\ at = 1 /\ conf \in Settings
    /\ archive = [a \in Archives |-> "absent"]
    /\ tree = [p \in Packages |-> "none"]
    /\ root = [p \in Parts |-> "none"] /\ suspect = {}
    /\ image = [state |-> "none", holds |-> {}] /\ iso = "none"
    /\ faults = 0 /\ hit = "no"

-------------------------------------------------------------------------------
(* Helpers *)

Url == Downloads[at]      \* the archive the download loop is at
Pkg == Order[at]          \* the package the build phases are at

\* What a file made by an earlier run is to the run that starts now.
Aged(s) == IF s = "fresh" THEN "stale" ELSE s

\* mkdir without -p fails when the directory is there.
HasBuildDir(p) == tree[p] \in {"build", "torn", "made"}

BundleDamaged == \E b \in Bundled : archive[b] = "damaged"

\* The component may not be what its sources say: an interrupted make left
\* objects that this make takes for finished ones, or the unpacking of a
\* bundled library failed and "|| true" hid it.
Doubtful(p) == tree[p] = "torn" \/ (p = Host /\ BundleDamaged)

\* install_networking and install_gnome do nothing when switched off.
Wanted(f) == (f = "network" => conf.net = "true") /\ (f = "gnome" => conf.gnome = "true")

\* create_bootable_iso looks for iso-creator.sh beside $0 after the run has
\* changed to $LFS: only an absolute $0 still leads to it.
MakesIso == conf.iso = "true" /\ conf.entry = "wrapper"

Goto(s) == stage' = s /\ UNCHANGED <<conf, faults, hit>>

-------------------------------------------------------------------------------
(* The steps of a run *)

\* Mutant of Start: what earlier runs left is taken for this run's own.
StartForgetsAge(c) ==
    /\ stage \in Idle
    /\ stage' = "validate" /\ at' = 1 /\ conf' = c /\ hit' = "no"
    /\ UNCHANGED <<sources, target, product, faults>>

\* The script is started: by the user, or by the container that starts again
\* after every exit (restart: unless-stopped).
Start(c) ==
    /\ stage \in Idle
    /\ stage' = "validate" /\ at' = 1 /\ conf' = c /\ hit' = "no"
    /\ root' = [p \in Parts |-> Aged(root[p])]
    /\ image' = [state |-> Aged(image.state), holds |-> image.holds]
    /\ iso' = Aged(iso)
    /\ UNCHANGED <<sources, suspect, faults>>

\* validate_environment: the checks pass; without xorriso and genisoimage the
\* run goes on with CREATE_ISO switched off.
Validate ==
    /\ stage = "validate"
    /\ conf' \in {conf, [iso |-> "false", net |-> conf.net, gnome |-> conf.gnome, entry |-> conf.entry]}
    /\ stage' = "setup"
    /\ UNCHANGED <<at, sources, target, product, faults, hit>>

\* setup_lfs_environment: directories only.
Setup ==
    /\ stage = "setup"
    /\ at' = 1 /\ Goto("download")
    /\ UNCHANGED <<sources, target, product>>

\* One turn of the loop of download_packages: a file that is there is taken as
\* it is, whatever is in it; otherwise wget fetches it.
Download ==
    /\ stage = "download"
    /\ archive' = [archive EXCEPT ![Url] = IF @ = "absent" THEN "whole" ELSE @]
    /\ IF at < Len(Downloads) THEN at' = at + 1 /\ Goto("download")
                              ELSE at' = 1 /\ Goto("unpack")
    /\ UNCHANGED <<tree, target, product>>

\* Mutant of Unpack: tar -k, which fails over a leftover tree.
UnpackKeepingOld ==
    /\ stage = "unpack" /\ archive[Pkg] = "whole"
    /\ tree' = [tree EXCEPT ![Pkg] = IF @ = "none" THEN "source" ELSE @]
    /\ at' = at
    /\ Goto(IF tree[Pkg] # "none" THEN "failed"
            ELSE IF Pkg \in OutOfTree THEN "mkdir" ELSE "compile")
    /\ UNCHANGED <<archive, target, product>>

\* tar -xf <archive>; cd <tree>, and for Host the bundled libraries, whose
\* failures are ignored.  Over a leftover tree tar only renews the sources.
Unpack ==
    /\ stage = "unpack" /\ archive[Pkg] = "whole"
    /\ tree' = [tree EXCEPT ![Pkg] = IF @ = "none" THEN "source" ELSE @]
    /\ at' = at /\ Goto(IF Pkg \in OutOfTree THEN "mkdir" ELSE "compile")
    /\ UNCHANGED <<archive, target, product>>

\* tar fails on a damaged archive, and set -e ends the run.
UnpackDamaged ==
    /\ stage = "unpack" /\ archive[Pkg] # "whole"
    /\ tree' \in {tree, [tree EXCEPT ![Pkg] = IF @ = "none" THEN "source" ELSE @]}
    /\ at' = at /\ Goto("failed")
    /\ UNCHANGED <<archive, target, product>>

\* Mutant of MakeBuildDir: mkdir -p, which takes a leftover directory.
MakeBuildDirAnyway ==
    /\ stage = "mkdir"
    /\ tree' = [tree EXCEPT ![Pkg] = IF HasBuildDir(Pkg) THEN @ ELSE "build"]
    /\ Goto("compile")
    /\ UNCHANGED <<at, archive, target, product>>

\* mkdir -v build; cd build.
MakeBuildDir ==
    /\ stage = "mkdir"
    /\ IF HasBuildDir(Pkg)
       THEN tree' = tree /\ Goto("failed")
       ELSE tree' = [tree EXCEPT ![Pkg] = "build"] /\ Goto("compile")
    /\ UNCHANGED <<at, archive, target, product>>

\* configure and make_build (for linux: make mrproper; make headers).
Compile ==
    /\ stage = "compile"
    /\ tree' = [tree EXCEPT ![Pkg] = IF @ = "torn" /\ Pkg \notin Mrproper THEN "torn" ELSE "made"]
    /\ at' = at /\ Goto("install")
    /\ UNCHANGED <<archive, target, product>>

\* Torn objects or a missing bundled library may also make it fail.
CompileDoubtful ==
    /\ stage = "compile" /\ Doubtful(Pkg) /\ Pkg \notin Mrproper
    /\ tree' = [tree EXCEPT ![Pkg] = "torn"]
    /\ at' = at /\ Goto("failed")
    /\ UNCHANGED <<archive, target, product>>

\* Mutant of Install: the exit status of make install is lost in a pipeline.
InstallUnchecked ==
    /\ stage = "install"
    /\ root' \in {[root EXCEPT ![Pkg] = s] : s \in {"fresh", "torn"}}
    /\ suspect' = IF Doubtful(Pkg) THEN suspect \cup {Pkg} ELSE suspect \ {Pkg}
    /\ at' = at /\ Goto("remove")
    /\ UNCHANGED <<sources, product>>

\* make install (for linux cp -rv usr/include, for glibc also the ldd fix).
Install ==
    /\ stage = "install"
    /\ root' = [root EXCEPT ![Pkg] = "fresh"]
    /\ suspect' = IF Doubtful(Pkg) THEN suspect \cup {Pkg} ELSE suspect \ {Pkg}
    /\ at' = at /\ Goto("remove")
    /\ UNCHANGED <<sources, product>>

\* Mutant of Remove: rm -rf of every tree.
RemoveAll ==
    /\ stage = "remove"
    /\ tree' = [p \in Packages |-> "none"]
    /\ IF at < Len(Order) THEN at' = at + 1 /\ Goto("unpack")
                          ELSE at' = 1 /\ Goto("configure")
    /\ UNCHANGED <<archive, target, product>>

\* cd sources; rm -rf <tree>, and on to the next package.
Remove ==
    /\ stage = "remove"
    /\ tree' = [tree EXCEPT ![Pkg] = "none"]
    /\ IF at < Len(Order) THEN at' = at + 1 /\ Goto("unpack")
                          ELSE at' = 1 /\ Goto("configure")
    /\ UNCHANGED <<archive, target, product>>

\* Mutants of Configure: a file that is there is kept; the last phase is left out.
ConfigureOnce ==
    /\ stage = "configure"
    /\ root' = IF Wanted(Config[at]) /\ root[Config[at]] = "none"
               THEN [root EXCEPT ![Config[at]] = "fresh"] ELSE root
    /\ IF at < Len(Config) THEN at' = at + 1 /\ Goto("configure")
                           ELSE at' = 1 /\ Goto("image")
    /\ UNCHANGED <<sources, suspect, product>>
ConfigureAllButRelease ==
    /\ stage = "configure"
    /\ root' = IF Wanted(Config[at]) THEN [root EXCEPT ![Config[at]] = "fresh"] ELSE root
    /\ IF at + 1 < Len(Config) THEN at' = at + 1 /\ Goto("configure")
                               ELSE at' = 1 /\ Goto("image")
    /\ UNCHANGED <<sources, suspect, product>>

\* configure_system, install_networking, install_gnome, create_boot_config and
\* finalize_system write their files, one phase after the other.
Configure ==
    /\ stage = "configure"
    /\ root' = IF Wanted(Config[at]) THEN [root EXCEPT ![Config[at]] = "fresh"] ELSE root
    /\ IF at < Len(Config) THEN at' = at + 1 /\ Goto("configure")
                           ELSE at' = 1 /\ Goto("image")
    /\ UNCHANGED <<sources, suspect, product>>

\* create_system_image: tar of all of $LFS over the previous image.
CreateImage ==
    /\ stage = "image"
    /\ image' = [state |-> "fresh", holds |-> {p \in Parts : root[p] = "fresh"}]
    /\ at' = at /\ Goto("iso")
    /\ UNCHANGED <<sources, target, iso>>

\* create_bootable_iso, and main reports the end of the build.
CreateIso ==
    /\ stage = "iso"
    /\ iso' = IF MakesIso THEN "fresh" ELSE iso
    /\ at' = at /\ Goto("done")
    /\ UNCHANGED <<sources, target, image>>

Step ==
    \/ Validate \/ Setup \/ Download \/ Unpack \/ UnpackDamaged \/ MakeBuildDir
    \/ Compile \/ CompileDoubtful \/ Install \/ Remove \/ Configure
    \/ CreateImage \/ CreateIso

-------------------------------------------------------------------------------
(* Faults: a command fails (network, disk, compiler), or the container is   *)
(* stopped or killed.  Either way the run is over; what differs is what the *)
(* command had already written.                                             *)

Fault ==
    /\ faults < MaxFaults
    /\ faults' = faults + 1 /\ hit' = "yes"
    /\ UNCHANGED conf

Break(s) == stage = s /\ Fault /\ stage' = "failed" /\ at' = at

\* The failing command leaves nothing behind that a later run would notice.
BreakQuietly ==
    /\ \E s \in Stages \ Idle : Break(s)
    /\ UNCHANGED <<sources, target, product>>

\* wget is cut short, or gives up after its tries, and leaves a part of the file.
BreakDownload ==
    /\ Break("download") /\ archive[Url] = "absent"
    /\ archive' = [archive EXCEPT ![Url] = "damaged"]
    /\ UNCHANGED <<tree, target, product>>

\* wget ends well but what it wrote is corrupt: nothing checks, the run goes on.
DownloadCorrupt ==
    /\ stage = "download" /\ archive[Url] = "absent" /\ Fault
    /\ archive' = [archive EXCEPT ![Url] = "damaged"]
    /\ IF at < Len(Downloads) THEN at' = at + 1 /\ stage' = "download"
                              ELSE at' = 1 /\ stage' = "unpack"
    /\ UNCHANGED <<tree, target, product>>

\* tar, configure or make, or rm is cut short inside the tree.
BreakTree ==
    /\ \/ /\ Break("unpack")
          /\ tree' = [tree EXCEPT ![Pkg] = IF @ = "none" THEN "source" ELSE @]
       \/ /\ Break("compile")
          /\ tree' = [tree EXCEPT ![Pkg] = "torn"]
       \/ /\ Break("remove")
          /\ \E s \in {"none", "source"} \cup (IF Pkg \in OutOfTree THEN {"build"} ELSE {}) :
                tree' = [tree EXCEPT ![Pkg] = s]
    /\ UNCHANGED <<archive, target, product>>

\* make install, or the writing of a configuration file, stops half way.
BreakRoot ==
    /\ \/ Break("install") /\ root' = [root EXCEPT ![Pkg] = "torn"]
       \/ /\ Break("configure") /\ Wanted(Config[at])
          /\ root' = [root EXCEPT ![Config[at]] = "torn"]
    /\ UNCHANGED <<sources, suspect, product>>

\* tar or xorriso stops half way; the file it was overwriting is lost.
BreakProduct ==
    /\ \/ Break("image") /\ image' = [state |-> "torn", holds |-> {}] /\ iso' = iso
       \/ Break("iso") /\ MakesIso /\ iso' = "torn" /\ image' = image
    /\ UNCHANGED <<sources, target>>

Breakage ==
    \/ BreakQuietly \/ BreakDownload \/ DownloadCorrupt
    \/ BreakTree \/ BreakRoot \/ BreakProduct

-------------------------------------------------------------------------------
(* The operator, between runs *)

\* Mutant of LfsClean: only the archives are removed.
LfsCleanArchives ==
    /\ stage \in Idle /\ stage' = "off"
    /\ archive' = [a \in Archives |-> "absent"]
    /\ image' = [state |-> "none", holds |-> {}]
    /\ UNCHANGED <<at, conf, tree, target, iso, faults, hit>>

\* lfs-clean: removes the sources directory and the image, not $LFS, not the ISO.
LfsClean ==
    /\ stage \in Idle /\ stage' = "off"
    /\ archive' = [a \in Archives |-> "absent"]
    /\ tree' = [p \in Packages |-> "none"]
    /\ image' = [state |-> "none", holds |-> {}]
    /\ UNCHANGED <<at, conf, target, iso, faults, hit>>

\* docker compose down -v: the container goes, and so do the volumes by name.  All
\* of them, and the workspace, are bind mounts: what is in them stays.
DownVolumes ==
    /\ stage \in Idle /\ stage' = "off"
    /\ UNCHANGED <<at, conf, sources, target, product, faults, hit>>

Rerun == stage \in {"off", "failed"} /\ \E c \in Settings : Start(c)

Next == (\E c \in Settings : Start(c)) \/ Step \/ Breakage \/ LfsClean \/ DownVolumes

Spec == Init /\ [][Next]_vars

\* The container (restart: unless-stopped), or the user, starts a run that
\* stopped again, and a running script goes on.  Nobody cleans up.
RestartSpec == Spec /\ WF_vars(Step) /\ WF_vars(Rerun)

\* Besides, an operator who keeps seeing the build fail runs lfs-clean.
OperatedSpec == RestartSpec /\ SF_vars(stage = "failed" /\ LfsClean)

\* Nobody runs lfs-clean, but the user follows DOCKER.md: stops the build, cleans
\* with docker compose down -v, and starts it again.
ComposedSpec ==
    /\ Init /\ [][(\E c \in Settings : Start(c)) \/ Step \/ Breakage \/ DownVolumes]_vars
    /\ WF_vars(Step) /\ WF_vars(Rerun) /\ SF_vars(stage = "failed" /\ DownVolumes)

-------------------------------------------------------------------------------
(* Properties *)

After == {"configure", "image", "iso", "done"}   \* the build phases are over

\* While a package is built, everything before it in the order was installed by
\* this run and its tree is gone (set -e: no phase starts after a failed one).
PrerequisitesInstalled ==
    stage \in Building =>
        \A j \in 1..(at - 1) : root[Order[j]] = "fresh" /\ tree[Order[j]] = "none"

\* What the run is to deliver: every package and the files of its settings.
Required == Packages \cup {f \in Files : Wanted(f)}

\* "Build completed successfully" is said only of a run that installed every
\* required part itself and whose image holds them all.
SuccessIsWhole ==
    stage = "done" =>
        /\ \A p \in Required : root[p] = "fresh"
        /\ image.state = "fresh" /\ Required \subseteq image.holds

\* An image that is not cut short, of whichever run, holds every package and the
\* unconditional configuration of the run that made it.
WholeImageIsComplete ==
    image.state \in {"fresh", "stale"} =>
        Packages \cup {"system", "boot", "release"} \subseteq image.holds

\* A component built in a directory of its own (or after mrproper) never contains
\* objects of an interrupted make; the one exception is Host, whose bundled
\* libraries may be missing.
CleanBuildsAreSound == suspect \cap (OutOfTree \cup Mrproper) \subseteq {Host}

\* A run that no fault hit fails only over leftovers of an earlier one: a damaged
\* archive or a tree with a build in it.
FailsForACause ==
    stage = "failed" /\ hit = "no" =>
        \/ \E a \in Archives : archive[a] = "damaged"
        \/ \E p \in Packages : HasBuildDir(p)

\* A build directory the present run did not make, or an archive that cannot be
\* unpacked: the run that comes to p will fail there.
LeftBehind(p) ==
    /\ p \in OutOfTree /\ HasBuildDir(p)
    /\ ~(stage \in {"compile", "install", "remove"} /\ Pkg = p)
Wedged(p) == LeftBehind(p) \/ archive[p] = "damaged"

\* No run gets past the build phases while a package is wedged ...
NoSuccessWhileWedged == stage \in After => \A p \in Packages : ~Wedged(p)

\* ... and nothing the script does, in any number of runs, ends that: only
\* lfs-clean does.  (The documentation promises otherwise: see Resumable.)
WedgedUntilCleaned ==
    [][\A p \in Packages : Wedged(p) /\ ~LfsClean => Wedged(p)']_vars

\* With lfs-clean after failures and finitely many faults, a failed build is
\* followed by a completed one.
FailedBuildRecovers == (stage = "failed") ~> (stage = "done")

\* README.md:41, "Resumable: Can continue from interruptions", and DOCKER.md:138-146,
\* where docker compose down "preserves progress", up resumes it and down -v cleans:
\* a run that was stopped, with every archive it had fetched whole, is followed by
\* a completed one.  The code does not do this (lfs-build.sh:255).
Resumable ==
    (stage = "failed" /\ hit = "yes" /\ \A a \in Archives : archive[a] # "damaged")
        ~> (stage = "done")
===============================================================================
