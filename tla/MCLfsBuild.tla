----------------------------- MODULE MCLfsBuild -----------------------------
(* LfsBuild, and that it implements BuildContract, on a small instance:    *)
(* two packages that are built in a directory of their own, the kernel     *)
(* headers, one core tool, one bundled library; names as in the source.    *)
EXTENDS LfsBuildRefines

MCDownloads == <<"gcc", "mpfr", "linux", "glibc", "bash">>
MCOrder     == <<"gcc", "linux", "glibc", "bash">>

\* The container's settings, and a way to use lfs-build on a host that leaves two
\* phases out.
MCSettings == {[iso |-> "true", net |-> "true",  gnome |-> "true",  entry |-> "docker"],
               [iso |-> "true", net |-> "false", gnome |-> "false", entry |-> "wrapper"]}

\* A smaller instance for the claim TLC refutes, started as in the container.
SmallDownloads == <<"gcc", "mpfr", "linux", "bash">>
SmallOrder     == <<"gcc", "linux", "bash">>
SmallSettings  == {[iso |-> "true", net |-> "true",  gnome |-> "true",  entry |-> "docker"]}
===============================================================================
