------------------------ MODULE MCDependencyResolver ------------------------
(* DependencyResolver on every book about three packages with lists of at  *)
(* most two entries, and requests in the book's spelling and in another.   *)
EXTENDS DependencyResolver

MCHeadings == {"Bash", "Gcc", "Glibc"}
MCNames    == MCHeadings \cup {"bash"}
MCKey      == [n \in MCNames |-> IF n = "Bash" THEN "bash" ELSE n]
MCLists    == {<<>>} \cup {<<a>> : a \in MCHeadings} \cup {<<a, b>> : a, b \in MCHeadings}
MCBooks    == [MCHeadings -> MCLists]
MCRequests == {<<"Bash", "Gcc", "Glibc">>, <<"Glibc", "Gcc">>, <<"Gcc", "bash">>, <<"bash", "Bash">>}
===============================================================================
