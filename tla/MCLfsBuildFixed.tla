--------------------------- MODULE MCLfsBuildFixed ---------------------------
(* LfsBuildFixed with one package of each kind: a cross tool, the kernel   *)
(* headers, glibc and a core tool.                                         *)
EXTENDS LfsBuildFixed

MCDownloads == <<"gcc", "mpfr", "linux", "glibc", "bash">>
MCOrder     == <<"gcc", "linux", "glibc", "bash">>

\* For the checks that must hold, one way to start it that makes the ISO and
\* leaves one phase out; for the claims, also the container's.
OneSetting  == {[iso |-> "true",  net |-> "true",  gnome |-> "false", entry |-> "wrapper"]}
MCSettings  == OneSetting \cup
               {[iso |-> "false", net |-> "true",  gnome |-> "true",  entry |-> "docker"]}
===============================================================================
