-------------------------- MODULE DependencyResolver --------------------------
(***************************************************************************)
(* dependency_resolver.py: build_dependency_graph reads the dependencies   *)
(* of the requested packages from the book, topological_sort orders them.  *)
(*                                                                         *)
(* The sort is a recursive depth-first search; its call stack is the       *)
(* variable stack, and next[n] is where the loop of the call visit(n) is.  *)
(* (Each node is visited by at most one call that reaches the loop.)       *)
(***************************************************************************)
EXTENDS Naturals, Sequences

CONSTANTS
    Names,       \* package names as the user or the book spells them
    Key,         \* Key[n]: n in lower case
    Requests,    \* the lists of packages asked for (the keys of a dict: no repetition)
    Books        \* the books: dependency lists by heading

ASSUME RequestsAssumption ==
    \A r \in Requests :
        /\ r \in Seq(Names)
        /\ \A i, j \in 1..Len(r) : r[i] = r[j] => i = j
ASSUME BooksAssumption ==
    \A b \in Books : DOMAIN b \subseteq Names /\ \A h \in DOMAIN b : b[h] \in Seq(Names)

VARIABLES
    packages,    \* the list asked for
    book,        \* the book read
    graph,       \* packages -> list of names, in the book's spelling
    visited,     \* new (no entry), visiting or visited
    stack,       \* the active calls of visit, the innermost last
    next,        \* the position of each call's loop over its dependencies
    todo,        \* the position of the outer loop over the packages
    order,       \* the order found so far
    result       \* parsing, running, sorted, or cycle (ValueError)

vars == <<packages, book, graph, visited, stack, next, todo, order, result>>
inputs == <<packages, book>>

Nodes == {packages[i] : i \in 1..Len(packages)}

TypeOK ==
    /\ packages \in Requests /\ book \in Books
    /\ graph \in [Nodes -> Seq(Names)]
    /\ visited \in [Nodes -> {"new", "visiting", "visited"}]
    /\ stack \in Seq(Nodes)
    /\ next \in [Nodes -> Nat \ {0}]
    /\ todo \in 1..(Len(packages) + 1)
    /\ order \in Seq(Nodes)
    /\ result \in {"parsing", "running", "sorted", "cycle"}

Init ==
    /\ packages \in Requests /\ book \in Books
    /\ graph = [n \in Nodes |-> <<>>]
    /\ visited = [n \in Nodes |-> "new"] /\ next = [n \in Nodes |-> 1]
    /\ stack = <<>> /\ todo = 1 /\ order = <<>>
    /\ result = "parsing"

-------------------------------------------------------------------------------

\* The headings that are the package's, whatever their case; the first is taken.
Headings(n) == {h \in DOMAIN book : Key[h] = Key[n]}

\* build_dependency_graph: the list under the package's heading as the book
\* spells it, or no dependencies when there is no heading.
BuildGraph ==
    /\ result = "parsing" /\ result' = "running"
    /\ graph' = [n \in Nodes |-> IF Headings(n) = {} THEN <<>>
                                 ELSE book[CHOOSE h \in Headings(n) : TRUE]]
    /\ UNCHANGED <<inputs, visited, stack, next, todo, order>>

Top == stack[Len(stack)]

\* Mutants of Enter: a node is appended on entry; a node that is being visited
\* is left alone.
EnterAppending(n) ==
    /\ visited' = IF visited[n] = "new" THEN [visited EXCEPT ![n] = "visiting"] ELSE visited
    /\ stack' = IF visited[n] = "new" THEN Append(stack, n) ELSE stack
    /\ order' = IF visited[n] = "new" THEN Append(order, n) ELSE order
    /\ result' = IF visited[n] = "visiting" THEN "cycle" ELSE result
EnterTolerant(n) ==
    /\ visited' = IF visited[n] = "new" THEN [visited EXCEPT ![n] = "visiting"] ELSE visited
    /\ stack' = IF visited[n] = "new" THEN Append(stack, n) ELSE stack
    /\ UNCHANGED <<order, result>>

\* visit(n) up to its loop: an error for a node that is being visited, nothing
\* for one that has been.
Enter(n) ==
    /\ visited' = IF visited[n] = "new" THEN [visited EXCEPT ![n] = "visiting"] ELSE visited
    /\ stack' = IF visited[n] = "new" THEN Append(stack, n) ELSE stack
    /\ result' = IF visited[n] = "visiting" THEN "cycle" ELSE result
    /\ order' = order

\* The outer loop: for node in graph: visit(node).
Root ==
    /\ result = "running" /\ stack = <<>> /\ todo <= Len(packages)
    /\ todo' = todo + 1
    /\ Enter(packages[todo])
    /\ UNCHANGED <<inputs, graph, next>>

\* Mutant of Descend: a name outside the graph is looked at again and again.
DescendStuck ==
    /\ result = "running" /\ stack # <<>> /\ next[Top] <= Len(graph[Top])
    /\ LET dep == graph[Top][next[Top]] IN
       IF dep \in Nodes THEN Enter(dep) /\ next' = [next EXCEPT ![Top] = @ + 1]
                        ELSE UNCHANGED <<visited, stack, order, result, next>>
    /\ UNCHANGED <<inputs, graph, todo>>

\* for dep in graph.get(node, []): if dep in graph: visit(dep)
Descend ==
    /\ result = "running" /\ stack # <<>> /\ next[Top] <= Len(graph[Top])
    /\ next' = [next EXCEPT ![Top] = @ + 1]
    /\ LET dep == graph[Top][next[Top]] IN
       IF dep \in Nodes THEN Enter(dep) ELSE UNCHANGED <<visited, stack, order, result>>
    /\ UNCHANGED <<inputs, graph, todo>>

\* Mutant of Return: the node stays marked as being visited.
ReturnUnmarked ==
    /\ result = "running" /\ stack # <<>> /\ next[Top] > Len(graph[Top])
    /\ order' = Append(order, Top)
    /\ stack' = SubSeq(stack, 1, Len(stack) - 1)
    /\ UNCHANGED <<inputs, graph, visited, next, todo, result>>

\* The loop is over: the node has been visited and is next in the order.
Return ==
    /\ result = "running" /\ stack # <<>> /\ next[Top] > Len(graph[Top])
    /\ visited' = [visited EXCEPT ![Top] = "visited"]
    /\ order' = Append(order, Top)
    /\ stack' = SubSeq(stack, 1, Len(stack) - 1)
    /\ UNCHANGED <<inputs, graph, next, todo, result>>

\* return order
Finish ==
    /\ result = "running" /\ stack = <<>> /\ todo > Len(packages)
    /\ result' = "sorted"
    /\ UNCHANGED <<inputs, graph, visited, stack, next, todo, order>>

Next == BuildGraph \/ Root \/ Descend \/ Return \/ Finish

Spec == Init /\ [][Next]_vars

\* The interpreter runs the call to its end.
FairSpec == Spec /\ WF_vars(Next)

-------------------------------------------------------------------------------
(* Properties *)

Deps(n) == {d \in Nodes : \E k \in 1..Len(graph[n]) : graph[n][k] = d}

\* A set of packages that wait for one another: each depends on one of the set.
\* A graph has one exactly when it has a cycle.
Circular(S) == S # {} /\ \A n \in S : Deps(n) \cap S # {}

\* At every moment the order lists each package once, after all it depends on.
DependenciesFirst ==
    \A i \in 1..Len(order) :
        \A d \in Deps(order[i]) : \E j \in 1..(i - 1) : order[j] = d
NoRepetition == \A i, j \in 1..Len(order) : order[i] = order[j] => i = j

\* An order is returned only when it has every package, and only for a graph
\* without a cycle ...
SortedIsRight ==
    result = "sorted" =>
        /\ \A n \in Nodes : \E i \in 1..Len(order) : order[i] = n
        /\ NoRepetition
        /\ \A S \in SUBSET Nodes : ~Circular(S)

\* ... and the error is raised only for a graph with one.
CycleIsReal == result = "cycle" => \E S \in SUBSET Nodes : Circular(S)

\* Whichever way a call ends, its result is right.
ResultIsRight == SortedIsRight /\ CycleIsReal

\* Every call ends, with an order or the error.
Terminates == <>(result \in {"sorted", "cycle"})
===============================================================================
