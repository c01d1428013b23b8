----------------------------- MODULE LfsBuildFixed -----------------------------
(***************************************************************************)
(* lfs-build-fixed.sh: the phases and files of LfsBuild, with another way  *)
(* of handling errors.                                                     *)
(*                                                                         *)
(* main calls every phase as "if ! phase; then return 1": bash suspends -e *)
(* (and the ERR trap) in a phase called so.  A command that fails ends the *)
(* phase only where the script says "|| return 1"; after any other it goes *)
(* on.  Steps that are those of lfs-build.sh are taken from LfsBuild.      *)
(***************************************************************************)
EXTENDS LfsBuild

CONSTANTS
    Checked,     \* the packages whose tar is checked: glibc and the core tools
    Cleaned      \* those whose tree is removed before it is unpacked: glibc

ASSUME CheckedAssumption ==
    /\ Checked \subseteq Packages \ (Mrproper \cup {Host})
    /\ Cleaned \subseteq Checked
    \* build_kernel_headers comes before build_glibc
    /\ \A i, j \in 1..Len(Order) : Order[i] \in Mrproper /\ Order[j] \in Cleaned => i < j

\* Objects of an interrupted make, a bundled library or a part of the sources
\* that did not unpack (a tree is "torn" then too): what the phase does not check.
Unsure(p) == Doubtful(p) \/ archive[p] = "damaged"

\* The leftover tree the package is unpacked over.
Leftover(p) == IF p \in Cleaned THEN "none" ELSE tree[p]

AfterUnpack == IF Pkg \in OutOfTree THEN "mkdir" ELSE "compile"

-------------------------------------------------------------------------------

\* Mutant of FixedUnpack: the tree of an earlier attempt is kept.
FixedUnpackOver ==
    /\ stage = "unpack" /\ archive[Pkg] = "whole"
    /\ tree' = [tree EXCEPT ![Pkg] = IF @ = "none" THEN "source" ELSE @]
    /\ at' = at /\ Goto(AfterUnpack)
    /\ UNCHANGED <<archive, target, product>>

\* (rm -rf <tree>;) tar -xf <archive>; cd <tree>, and the bundled libraries.
\* A removal that fails is RemoveOldCut.
FixedUnpack ==
    /\ stage = "unpack" /\ archive[Pkg] = "whole"
    /\ tree' = [tree EXCEPT ![Pkg] = IF Leftover(Pkg) = "none" THEN "source" ELSE @]
    /\ at' = at /\ Goto(AfterUnpack)
    /\ UNCHANGED <<archive, target, product>>

\* A damaged archive ends a phase that checks tar.  Elsewhere the script goes on
\* in the part that was unpacked; with none, cd fails and there is no configure.
FixedUnpackDamaged ==
    /\ stage = "unpack" /\ archive[Pkg] # "whole"
    /\ \E s \in {Leftover(Pkg), IF Leftover(Pkg) = "none" THEN "source" ELSE Leftover(Pkg)} :
        /\ tree' = [tree EXCEPT ![Pkg] = s]
        /\ Goto(IF Pkg \in Checked \/ s = "none" THEN "failed" ELSE AfterUnpack)
    /\ at' = at
    /\ UNCHANGED <<archive, target, product>>

\* build_glibc first looks for directories of the headers: it may find them
\* missing when not all headers were installed.
PrerequisiteMissing ==
    /\ stage = "unpack" /\ Pkg \in Cleaned
    /\ \E h \in Mrproper : root[h] # "fresh"
    /\ at' = at /\ Goto("failed")
    /\ UNCHANGED <<sources, target, product>>

\* Mutant of FixedMakeBuildDir: mkdir -v build || return 1.
FixedMakeBuildDirChecked ==
    /\ stage = "mkdir"
    /\ IF HasBuildDir(Pkg)
       THEN tree' = tree /\ Goto("failed")
       ELSE tree' = [tree EXCEPT ![Pkg] = "build"] /\ Goto("compile")
    /\ UNCHANGED <<at, archive, target, product>>

\* mkdir -v build; cd build: a directory that is there is built in again.
FixedMakeBuildDir ==
    /\ stage = "mkdir"
    /\ tree' = [tree EXCEPT ![Pkg] = IF HasBuildDir(Pkg) THEN @ ELSE "build"]
    /\ Goto("compile")
    /\ UNCHANGED <<at, archive, target, product>>

\* configure || return 1; make_build || return 1.  The status of "make headers"
\* is lost in run_verbose: with damaged sources it may have made only a part.
FixedCompile ==
    /\ stage = "compile"
    /\ \E s \in {"made", "torn"} :
        /\ s = "torn" => (IF Pkg \in Mrproper THEN archive[Pkg] # "whole" ELSE tree[Pkg] = "torn")
        /\ s = "made" => (tree[Pkg] # "torn" \/ Pkg \in Mrproper)
        /\ tree' = [tree EXCEPT ![Pkg] = s]
    /\ at' = at /\ Goto("install")
    /\ UNCHANGED <<archive, target, product>>

\* They may fail on what was left or is missing.
FixedCompileFails ==
    /\ stage = "compile" /\ Unsure(Pkg)
    /\ (Pkg \in Mrproper => archive[Pkg] # "whole")
    /\ tree' = [tree EXCEPT ![Pkg] = "torn"]
    /\ at' = at /\ Goto("failed")
    /\ UNCHANGED <<archive, target, product>>

\* make headers fails, and run_verbose returns the status of "set +x".
HeadersCut ==
    /\ stage = "compile" /\ Pkg \in Mrproper /\ Fault
    /\ tree' = [tree EXCEPT ![Pkg] = "torn"]
    /\ stage' = "install" /\ at' = at
    /\ UNCHANGED <<archive, target, product>>

\* Mutant of FixedInstall: "make install" without "|| return 1".
FixedInstallUnchecked ==
    /\ stage = "install"
    /\ \E s \in {"fresh", "torn"} : root' = [root EXCEPT ![Pkg] = s]
    /\ suspect' = IF Unsure(Pkg) THEN suspect \cup {Pkg} ELSE suspect \ {Pkg}
    /\ at' = at /\ Goto("remove")
    /\ UNCHANGED <<sources, product>>

\* make install || return 1; for the headers cp -rv of what there is.
FixedInstall ==
    /\ stage = "install"
    /\ root' = [root EXCEPT ![Pkg] = IF Pkg \in Mrproper /\ tree[Pkg] = "torn" THEN "torn" ELSE "fresh"]
    /\ suspect' = IF Unsure(Pkg) THEN suspect \cup {Pkg} ELSE suspect \ {Pkg}
    /\ at' = at /\ Goto("remove")
    /\ UNCHANGED <<sources, product>>

\* There are no headers at all, and cp fails.
NoHeaders ==
    /\ stage = "install" /\ Pkg \in Mrproper /\ tree[Pkg] = "torn"
    /\ at' = at /\ Goto("failed")
    /\ UNCHANGED <<sources, target, product>>

\* tar fails half way where nobody looks, and the script builds what there is.
\* (For the headers that is HeadersCut.)
UnpackCut ==
    /\ stage = "unpack" /\ Pkg \notin Checked \cup Mrproper /\ Fault
    /\ tree' = [tree EXCEPT ![Pkg] = "torn"]
    /\ stage' = AfterUnpack /\ at' = at
    /\ UNCHANGED <<archive, target, product>>

\* What rm -rf, failing half way, may leave of a tree: all of it or some of its
\* objects, only sources, or an empty build directory.
Remains(p) ==
    {tree[p], "source"} \cup (IF p \in OutOfTree /\ HasBuildDir(p) THEN {"build"} ELSE {})

\* "rm -rf glibc-2.39" fails, which build_glibc does not look at: tar, which it
\* does look at, unpacks over what is left of an earlier attempt, and then
\* "mkdir -v build" may fail unnoticed too.
RemoveOldCut ==
    /\ stage = "unpack" /\ Pkg \in Cleaned /\ tree[Pkg] # "none" /\ Fault
    /\ \E s \in Remains(Pkg) : tree' = [tree EXCEPT ![Pkg] = s]
    /\ stage' = (IF archive[Pkg] = "whole" THEN AfterUnpack ELSE "failed") /\ at' = at
    /\ UNCHANGED <<archive, target, product>>

\* rm -rf, a file of the system, the image or the ISO fails, and the phase goes
\* on to return 0.
RemoveCut ==
    /\ stage = "remove" /\ Fault
    /\ \E s \in Remains(Pkg) : tree' = [tree EXCEPT ![Pkg] = s]
    /\ IF at < Len(Order) THEN at' = at + 1 /\ stage' = "unpack"
                          ELSE at' = 1 /\ stage' = "configure"
    /\ UNCHANGED <<archive, target, product>>
ConfigureCut ==
    /\ stage = "configure" /\ Wanted(Config[at]) /\ Fault
    /\ root' = [root EXCEPT ![Config[at]] = "torn"]
    /\ IF at < Len(Config) THEN at' = at + 1 /\ stage' = "configure"
                           ELSE at' = 1 /\ stage' = "image"
    /\ UNCHANGED <<sources, suspect, product>>
ImageCut ==
    /\ stage = "image" /\ Fault
    /\ image' = [state |-> "torn", holds |-> {}]
    /\ stage' = "iso" /\ at' = at
    /\ UNCHANGED <<sources, target, iso>>
IsoCut ==
    /\ stage = "iso" /\ MakesIso /\ Fault
    /\ iso' = "torn"
    /\ stage' = "done" /\ at' = at
    /\ UNCHANGED <<sources, target, image>>

Masked == HeadersCut \/ UnpackCut \/ RemoveOldCut \/ RemoveCut \/ ConfigureCut \/ ImageCut \/ IsoCut

FixedStep ==
    \/ Validate \/ Setup \/ Download \/ FixedUnpack \/ FixedUnpackDamaged
    \/ PrerequisiteMissing \/ FixedMakeBuildDir \/ FixedCompile \/ FixedCompileFails
    \/ FixedInstall \/ NoHeaders \/ Remove \/ Configure \/ CreateImage \/ CreateIso

FixedNext ==
    \/ \E c \in Settings : Start(c)
    \/ FixedStep \/ Masked \/ Breakage \/ LfsClean \/ DownVolumes

FixedSpec == Init /\ [][FixedNext]_vars

\* As OperatedSpec: restarts, and an operator who runs lfs-clean when it fails.
FixedOperatedSpec ==
    FixedSpec /\ WF_vars(FixedStep) /\ WF_vars(Rerun) /\ SF_vars(stage = "failed" /\ LfsClean)

-------------------------------------------------------------------------------
(* Properties *)

\* What "|| return 1" does guarantee: while a package is built every package
\* before it has been installed by this run, but for the kernel headers, of
\* which only a part may be there.
CheckedPartsInstalled ==
    stage \in Building \cup After =>
        \A p \in Packages :
            (stage \in Building => \E j \in 1..(at - 1) : Order[j] = p)
            => root[p] = "fresh" \/ (p \in Mrproper /\ root[p] = "torn")

\* What earlier runs left, whole or cut short by a fault that went unnoticed, does
\* not get into a package whose tree is removed first: a run that no fault hits
\* never makes it of an interrupted make's objects or of a damaged archive.  (A
\* run whose own "rm -rf" fails does: see RemoveOldCut.)
CleanedIsSound ==
    hit = "no" => \A p \in Cleaned : root[p] = "fresh" => p \notin suspect

\* A run that no fault hit fails only for a damaged archive or objects of an
\* interrupted make: a leftover build directory alone, which stops lfs-build.sh
\* for ever, does not stop it.
FixedFailsForACause ==
    stage = "failed" /\ hit = "no" =>
        \E p \in Archives :
            archive[p] = "damaged" \/ (p \in Packages /\ tree[p] = "torn")

\* With lfs-clean after failures, a failed build is followed by one that reports
\* success once the faults end.
FixedRecovers == FailedBuildRecovers
===============================================================================
