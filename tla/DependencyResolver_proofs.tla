----------------------- MODULE DependencyResolver_proofs -----------------------
(***************************************************************************)
(* What topological_sort returns, for every graph: proofs about            *)
(* DependencyResolver.  The inductive invariant follows the recursion:     *)
(* which nodes the active calls visit (Calls), what their loops have done  *)
(* (Explored), and what a finished call leaves (Settled, Ordered).         *)
(***************************************************************************)
EXTENDS DependencyResolver, TLAPS

\* The active calls are those of the nodes marked visiting, each node once.
Calls ==
    /\ \A i \in 1..Len(stack) : visited[stack[i]] = "visiting"
    /\ \A i, j \in 1..Len(stack) : stack[i] = stack[j] => i = j
    /\ \A n \in Nodes : visited[n] = "visiting" => \E i \in 1..Len(stack) : stack[i] = n

\* Every active call but the innermost has called the next one for a dependency.
Chained == \A i \in 1..(Len(stack) - 1) : stack[i + 1] \in Deps(stack[i])

\* What a loop is past has been visited; for an outer call, but for what it is at.
Explored ==
    result # "cycle" =>
        \A i \in 1..Len(stack) : \A k \in 1..Len(graph[stack[i]]) :
            k < next[stack[i]] /\ graph[stack[i]][k] \in Nodes =>
                \/ visited[graph[stack[i]][k]] = "visited"
                \/ i < Len(stack) /\ graph[stack[i]][k] = stack[i + 1]

\* What has been visited depends on nothing that has not.
Settled == \A n \in Nodes : visited[n] = "visited" => \A d \in Deps(n) : visited[d] = "visited"

\* Nothing circular has been visited.
SettledIsAcyclic ==
    \A S \in SUBSET Nodes : (\A n \in S : visited[n] = "visited") => ~Circular(S)

\* The order holds what has been visited.
Ordered ==
    /\ \A i \in 1..Len(order) : visited[order[i]] = "visited"
    /\ \A n \in Nodes : visited[n] = "visited" => \E i \in 1..Len(order) : order[i] = n
    /\ NoRepetition
    /\ DependenciesFirst

\* Before the graph is built nothing is visited; the outer loop leaves nothing out;
\* no loop starts before its call.
Progressed ==
    /\ result = "parsing" => \A n \in Nodes : visited[n] = "new"
    /\ \A i \in 1..Len(packages) : i < todo => visited[packages[i]] # "new"
    /\ \A n \in Nodes : visited[n] = "new" => next[n] = 1
    /\ result = "sorted" => stack = <<>> /\ todo > Len(packages)

IInv ==
    /\ TypeOK /\ Calls /\ Chained /\ Explored /\ Settled
    /\ SettledIsAcyclic /\ Ordered /\ Progressed /\ CycleIsReal

-------------------------------------------------------------------------------

\* Facts about the requested list and the innermost call.
LEMMA Indices ==
    ASSUME TypeOK
    PROVE  /\ packages \in Seq(Names) /\ Len(packages) \in Nat
           /\ \A i \in 1..Len(packages) : packages[i] \in Nodes
           /\ Len(stack) \in Nat
           /\ stack # <<>> => Len(stack) > 0 /\ Top \in Nodes /\ graph[Top] \in Seq(Names)
                              /\ Len(graph[Top]) \in Nat /\ next[Top] \in Nat \ {0}
BY RequestsAssumption DEF TypeOK, Nodes, Top

\* What is left of a sequence when its end is cut off.
LEMMA Prefix ==
    ASSUME NEW S, NEW s \in Seq(S), NEW n \in Nat, n <= Len(s)
    PROVE  /\ Len(SubSeq(s, 1, n)) = n
           /\ \A i \in 1..n : SubSeq(s, 1, n)[i] = s[i]
OBVIOUS

\* The graph stays as it is during the search.
LEMMA Frame ==
    ASSUME packages' = packages, graph' = graph
    PROVE  /\ Nodes' = Nodes
           /\ \A n : Deps(n)' = Deps(n)
           /\ \A S : Circular(S)' <=> Circular(S)
<1>1. Nodes' = Nodes
  BY DEF Nodes
<1>2. \A n : Deps(n)' = Deps(n)
  BY <1>1 DEF Deps
<1> QED
  BY <1>1, <1>2 DEF Circular

\* Entering a node keeps the types.
LEMMA EnterType ==
    ASSUME TypeOK, NEW n \in Nodes, Enter(n), packages' = packages, result = "running"
    PROVE  /\ visited' \in [Nodes -> {"new", "visiting", "visited"}]
           /\ stack' \in Seq(Nodes)
           /\ order' \in Seq(Nodes)
           /\ result' \in {"parsing", "running", "sorted", "cycle"}
BY DEF TypeOK, Enter

\* Every step of the search keeps the types.
LEMMA TypeStep == TypeOK /\ [Next]_vars => TypeOK'
<1> SUFFICES ASSUME TypeOK, [Next]_vars PROVE TypeOK'
  OBVIOUS
<1> USE Indices
<1>1. CASE BuildGraph
  <2>1. Nodes' = Nodes
    BY <1>1 DEF BuildGraph, inputs, Nodes
  <2>2. \A n \in Nodes : Headings(n) # {} => book[CHOOSE h \in Headings(n) : TRUE] \in Seq(Names)
    BY BooksAssumption DEF Headings, TypeOK
  <2>3. graph' \in [Nodes -> Seq(Names)]
    BY <1>1, <2>2 DEF BuildGraph
  <2> QED
    BY <1>1, <2>1, <2>3 DEF BuildGraph, inputs, TypeOK
<1>2. CASE Root
  <2>1. packages[todo] \in Nodes
    BY <1>2 DEF Root, TypeOK
  <2>2. Nodes' = Nodes
    BY <1>2 DEF Root, inputs, Nodes
  <2> QED
    BY <1>2, <2>1, <2>2, EnterType DEF Root, inputs, TypeOK
<1>3. CASE Descend
  <2>1. Nodes' = Nodes
    BY <1>3 DEF Descend, inputs, Nodes
  <2> DEFINE N == Nat \ {0}
  <2>5. Top \in Nodes /\ next[Top] + 1 \in N /\ next \in [Nodes -> N]
    BY <1>3 DEF Descend, TypeOK
  <2>6. next' = [next EXCEPT ![Top] = next[Top] + 1]
    BY <1>3 DEF Descend
  <2>2. next' \in [Nodes -> N]
    <3> HIDE DEF N
    <3> QED
      BY <2>5, <2>6
  <2>3. CASE graph[Top][next[Top]] \in Nodes
    <3>1. Enter(graph[Top][next[Top]])
      BY <1>3, <2>3 DEF Descend
    <3> QED
      BY <1>3, <2>1, <2>2, <2>3, <3>1, EnterType DEF Descend, inputs, TypeOK
  <2>4. CASE graph[Top][next[Top]] \notin Nodes
    BY <1>3, <2>1, <2>2, <2>4 DEF Descend, inputs, TypeOK
  <2> QED
    BY <2>3, <2>4
<1>4. CASE Return
  <2>1. Nodes' = Nodes
    BY <1>4 DEF Return, inputs, Nodes
  <2>2. order' \in Seq(Nodes) /\ stack' \in Seq(Nodes)
    BY <1>4 DEF Return, TypeOK
  <2> QED
    BY <1>4, <2>1, <2>2 DEF Return, inputs, TypeOK
<1>5. CASE Finish
  <2>1. Nodes' = Nodes
    BY <1>5 DEF Finish, inputs, Nodes
  <2> QED
    BY <1>5, <2>1 DEF Finish, inputs, TypeOK
<1>6. CASE UNCHANGED vars
  <2>1. Nodes' = Nodes
    BY <1>6 DEF vars, Nodes
  <2> QED
    BY <1>6, <2>1 DEF vars, TypeOK
<1> QED
  BY <1>1, <1>2, <1>3, <1>4, <1>5, <1>6 DEF Next

\* Before the search the invariant holds.
LEMMA InitInv == Init => IInv
<1> SUFFICES ASSUME Init PROVE IInv
  OBVIOUS
<1>1. TypeOK
  BY RequestsAssumption DEF Init, TypeOK, Nodes
<1>2. Calls /\ Chained /\ Explored /\ Settled /\ Progressed /\ CycleIsReal
  BY RequestsAssumption DEF Init, Calls, Chained, Explored, Settled, Progressed, CycleIsReal, Nodes
<1>3. SettledIsAcyclic
  BY DEF Init, SettledIsAcyclic, Circular
<1>4. Ordered
  BY DEF Init, Ordered, NoRepetition, DependenciesFirst
<1> QED
  BY <1>1, <1>2, <1>3, <1>4 DEF IInv

\* Building the graph: nothing has been visited yet.
LEMMA BuildInv == IInv /\ BuildGraph => IInv'
<1> SUFFICES ASSUME IInv, BuildGraph PROVE IInv'
  OBVIOUS
<1>1. Nodes' = Nodes
  BY DEF BuildGraph, inputs, Nodes
<1>2. TypeOK'
  BY TypeStep DEF IInv, Next
<1>3. \A n \in Nodes : visited[n] = "new"
  BY DEF IInv, Progressed, BuildGraph
<1>4. Len(stack) = 0 /\ Len(order) = 0
  <2>1. \A i \in 1..Len(stack) : stack[i] \in Nodes /\ visited[stack[i]] = "visiting"
    BY DEF IInv, Calls, TypeOK
  <2>2. \A i \in 1..Len(order) : order[i] \in Nodes /\ visited[order[i]] = "visited"
    BY DEF IInv, Ordered, TypeOK
  <2>3. Len(stack) \in Nat /\ Len(order) \in Nat
    BY DEF IInv, TypeOK
  <2>4. 1..Len(stack) = {} /\ 1..Len(order) = {}
    BY <1>3, <2>1, <2>2
  <2> QED
    BY <2>3, <2>4
<1>5. Calls' /\ Chained' /\ Explored' /\ Settled' /\ CycleIsReal'
  <2>1. stack' = stack /\ visited' = visited /\ result' = "running"
    BY DEF BuildGraph
  <2>2. Calls'
    BY <1>1, <2>1 DEF IInv, Calls
  <2>3. Chained' /\ Explored'
    BY <1>4, <2>1 DEF Chained, Explored
  <2>4. Settled' /\ CycleIsReal'
    BY <1>1, <1>3, <2>1 DEF Settled, CycleIsReal
  <2> QED
    BY <2>2, <2>3, <2>4
<1>6. SettledIsAcyclic'
  BY <1>1, <1>3 DEF BuildGraph, SettledIsAcyclic, Circular
<1>7. Ordered'
  BY <1>1, <1>3, <1>4 DEF BuildGraph, Ordered, NoRepetition, DependenciesFirst
<1>8. Progressed'
  <2>1. /\ packages' = packages /\ visited' = visited /\ todo' = todo /\ next' = next
        /\ result' = "running"
    BY DEF BuildGraph, inputs
  <2> QED
    BY <1>1, <2>1 DEF IInv, Progressed
<1> QED
  BY <1>2, <1>5, <1>6, <1>7, <1>8 DEF IInv

\* While the nodes that have been visited stay the same, so does what holds of them.
LEMMA SettledFrame ==
    ASSUME IInv, packages' = packages, graph' = graph, order' = order,
           \A n \in Nodes : visited'[n] = "visited" <=> visited[n] = "visited"
    PROVE  Settled' /\ SettledIsAcyclic' /\ Ordered'
<1> USE Frame
<1>1. Settled'
  <2>1. \A n \in Nodes : Deps(n) \subseteq Nodes
    BY DEF Deps
  <2> QED
    BY <2>1 DEF IInv, Settled
<1>2. SettledIsAcyclic'
  BY DEF IInv, SettledIsAcyclic
<1>3. (\A i \in 1..Len(order) : visited[order[i]] = "visited")'
  BY DEF IInv, Ordered, TypeOK
<1>4. NoRepetition'
  BY DEF IInv, Ordered, NoRepetition
<1>5. DependenciesFirst'
  BY DEF IInv, Ordered, DependenciesFirst
<1> QED
  BY <1>1, <1>2, <1>3, <1>4, <1>5 DEF IInv, Ordered

\* The outer loop visits a package.
LEMMA RootInv == IInv /\ Root => IInv'
<1> SUFFICES ASSUME IInv, Root PROVE IInv'
  OBVIOUS
<1> DEFINE n == packages[todo]
<1>1. TypeOK /\ TypeOK'
  BY TypeStep DEF IInv, Next
<1>2. packages' = packages /\ graph' = graph /\ next' = next /\ order' = order
      /\ result = "running" /\ todo' = todo + 1 /\ Len(stack) = 0 /\ stack = <<>> /\ todo <= Len(packages)
  BY DEF Root, inputs, Enter
<1>3. n \in Nodes
  BY <1>1, <1>2, Indices DEF TypeOK
<1>4. Nodes' = Nodes
  BY <1>2, Frame
<1>5. \A m \in Nodes : visited[m] \in {"new", "visited"}
  BY <1>1, <1>2 DEF IInv, Calls, TypeOK
<1>6. result' = "running"
  BY <1>2, <1>3, <1>5 DEF Root, Enter
<1>7. CASE visited[n] = "new"
  <2>1. visited' = [visited EXCEPT ![n] = "visiting"] /\ stack' = <<n>>
    BY <1>2, <1>7 DEF Root, Enter
  <2>2. Len(stack') = 1 /\ stack'[1] = n
    BY <2>1
  <2>3. \A m \in Nodes : visited'[m] = IF m = n THEN "visiting" ELSE visited[m]
    BY <2>1, <1>1 DEF TypeOK
  <2>4. Calls' /\ Chained'
    BY <2>2, <2>3, <1>3, <1>4, <1>5 DEF Calls, Chained
  <2>5. next[n] = 1
    BY <1>3, <1>7 DEF IInv, Progressed
  <2>6. Explored'
    BY <2>2, <2>5, <1>2, <1>4 DEF Explored
  <2>7. Settled' /\ SettledIsAcyclic' /\ Ordered'
    BY <1>2, <1>7, <2>3, SettledFrame
  <2>8. Progressed'
    <3>1. \A i \in 1..Len(packages) : packages[i] \in Nodes /\ (i < todo => visited[packages[i]] # "new")
      BY Indices DEF IInv, Progressed
    <3>2. \A i \in 1..Len(packages) : i < todo + 1 => visited'[packages[i]] # "new"
      <4>1. \A i \in 1..Len(packages) : i < todo + 1 => i < todo \/ i = todo
        BY <1>1 DEF TypeOK
      <4>2. visited'[n] # "new"
        BY <1>3, <2>3
      <4> QED
        BY <4>1, <4>2, <3>1, <2>3
    <3>3. \A m \in Nodes : visited'[m] = "new" => next[m] = 1
      BY <2>3 DEF IInv, Progressed
    <3> QED
      BY <1>2, <1>4, <1>6, <3>2, <3>3 DEF Progressed
  <2> QED
    BY <1>1, <1>6, <2>4, <2>6, <2>7, <2>8 DEF IInv, CycleIsReal
<1>8. CASE visited[n] = "visited"
  <2>1. visited' = visited /\ stack' = stack
    BY <1>8 DEF Root, Enter
  <2>2. Calls' /\ Chained' /\ Explored'
    BY <1>2, <1>4, <2>1 DEF IInv, Calls, Chained, Explored
  <2>3. Settled' /\ SettledIsAcyclic' /\ Ordered'
    BY <1>2, <2>1, SettledFrame
  <2>4. Progressed'
    <3>1. \A i \in 1..Len(packages) : packages[i] \in Nodes /\ (i < todo => visited[packages[i]] # "new")
      BY Indices DEF IInv, Progressed
    <3>2. \A i \in 1..Len(packages) : i < todo + 1 => visited[packages[i]] # "new"
      <4>1. \A i \in 1..Len(packages) : i < todo + 1 => i < todo \/ i = todo
        BY <1>1 DEF TypeOK
      <4>2. visited[n] # "new"
        BY <1>8
      <4> QED
        BY <4>1, <4>2, <3>1
    <3>3. \A m \in Nodes : visited[m] = "new" => next[m] = 1
      BY DEF IInv, Progressed
    <3> QED
      BY <1>2, <1>4, <1>6, <2>1, <3>2, <3>3 DEF Progressed
  <2> QED
    BY <1>1, <1>6, <2>2, <2>3, <2>4 DEF IInv, CycleIsReal
<1> QED
  BY <1>3, <1>5, <1>7, <1>8

\* The innermost call looks at a dependency.
LEMMA DescendInv == IInv /\ Descend => IInv'
<1> SUFFICES ASSUME IInv, Descend PROVE IInv'
  OBVIOUS
<1> DEFINE L == Len(stack)
           d == graph[Top][next[Top]]
<1>1. TypeOK /\ TypeOK'
  BY TypeStep DEF IInv, Next
<1>2. /\ packages' = packages /\ graph' = graph /\ order' = order /\ todo' = todo
      /\ result = "running" /\ stack # <<>> /\ next[Top] <= Len(graph[Top])
  BY DEF Descend, inputs, Enter
<1>3. /\ Top \in Nodes /\ L \in Nat \ {0} /\ Top = stack[L]
      /\ next[Top] \in Nat \ {0} /\ Len(graph[Top]) \in Nat
  BY <1>1, <1>2, Indices DEF Top
<1>4. Nodes' = Nodes /\ \A m : Deps(m)' = Deps(m)
  BY <1>2, Frame
<1>5. visited[Top] = "visiting"
  BY <1>3 DEF IInv, Calls
<1>6. \A m \in Nodes : next'[m] = IF m = Top THEN next[Top] + 1 ELSE next[m]
  BY <1>1 DEF Descend, TypeOK
<1>7. \A i \in 1..L : stack[i] \in Nodes /\ (i < L => stack[i] # Top)
  <2>1. \A i \in 1..L : stack[i] \in Nodes
    BY <1>1 DEF TypeOK
  <2>2. L \in 1..L
    BY <1>3
  <2>3. \A i \in 1..L : stack[i] = stack[L] => i = L
    BY <2>2 DEF IInv, Calls
  <2> QED
    BY <1>3, <2>1, <2>3
<1>8. d \in Nodes => d \in Deps(Top)
  BY <1>2, <1>3 DEF Deps
<1>9. CASE d \in Nodes /\ visited[d] = "new"
  <2>1. /\ visited' = [visited EXCEPT ![d] = "visiting"] /\ stack' = Append(stack, d)
        /\ result' = "running"
    BY <1>2, <1>9 DEF Descend, Enter
  <2>2. /\ Len(stack') = L + 1 /\ stack'[L + 1] = d
        /\ \A i \in 1..L : stack'[i] = stack[i]
    BY <1>1, <2>1 DEF TypeOK
  <2>3. \A m \in Nodes : visited'[m] = IF m = d THEN "visiting" ELSE visited[m]
    BY <1>1, <2>1 DEF TypeOK
  <2>4. \A i \in 1..L : stack[i] # d
    BY <1>9 DEF IInv, Calls
  <2>5. Calls'
    <3>1. \A i \in 1..(L + 1) : visited'[stack'[i]] = "visiting"
      BY <1>3, <1>7, <1>9, <2>2, <2>3 DEF IInv, Calls
    <3>2. \A i, j \in 1..(L + 1) : stack'[i] = stack'[j] => i = j
      BY <1>3, <2>2, <2>4 DEF IInv, Calls
    <3>3. \A m \in Nodes : visited'[m] = "visiting" => \E i \in 1..(L + 1) : stack'[i] = m
      <4> SUFFICES ASSUME NEW m \in Nodes, visited'[m] = "visiting"
                   PROVE  \E i \in 1..(L + 1) : stack'[i] = m
        OBVIOUS
      <4>1. CASE m = d
        BY <4>1, <1>3, <2>2
      <4>2. CASE m # d
        <5>1. PICK i \in 1..L : stack[i] = m
          BY <4>2, <2>3 DEF IInv, Calls
        <5> QED
          BY <5>1, <1>3, <2>2
      <4> QED
        BY <4>1, <4>2
    <3> QED
      BY <3>1, <3>2, <3>3, <2>2, <1>4 DEF Calls
  <2>6. Chained'
    <3>1. \A i \in 1..L : stack'[i + 1] \in Deps(stack'[i])
      <4> TAKE i \in 1..L
      <4>1. CASE i = L
        BY <4>1, <1>3, <1>8, <1>9, <2>2
      <4>2. CASE i < L
        BY <4>2, <1>3, <2>2 DEF IInv, Chained
      <4> QED
        BY <4>1, <4>2, <1>3
    <3> QED
      BY <3>1, <2>2, <1>3, <1>4 DEF Chained
  <2>7. Explored'
    <3> SUFFICES ASSUME NEW i \in 1..(L + 1), NEW k \in 1..Len(graph[stack'[i]]),
                        k < next'[stack'[i]], graph[stack'[i]][k] \in Nodes
                 PROVE  \/ visited'[graph[stack'[i]][k]] = "visited"
                        \/ i < L + 1 /\ graph[stack'[i]][k] = stack'[i + 1]
      BY <1>2, <1>4, <2>2 DEF Explored
    <3>1. CASE i = L + 1
      <4>1. next'[d] = 1
        BY <1>5, <1>6, <1>9 DEF IInv, Progressed
      <4>2. graph[d] \in Seq(Names)
        BY <1>1, <1>9 DEF TypeOK
      <4> QED
        BY <3>1, <4>1, <4>2, <2>2
    <3>2. CASE i = L
      <4>1. stack'[i] = Top /\ stack'[i + 1] = d
        BY <3>2, <1>3, <2>2
      <4>2. CASE k = next[Top]
        BY <4>1, <4>2, <3>2, <1>3
      <4>3. CASE k < next[Top]
        <5>1. visited[graph[Top][k]] = "visited"
          BY <4>1, <4>3, <3>2, <1>2, <1>3 DEF IInv, Explored
        <5> QED
          BY <5>1, <4>1, <2>3, <1>9
      <4> QED
        BY <4>1, <4>2, <4>3, <1>3, <1>6
    <3>3. CASE i < L
      <4>1. stack'[i] = stack[i] /\ stack'[i + 1] = stack[i + 1] /\ next'[stack[i]] = next[stack[i]] /\ i \in 1..L
        BY <3>3, <1>3, <1>6, <1>7, <2>2
      <4>2. \/ visited[graph[stack[i]][k]] = "visited"
            \/ graph[stack[i]][k] = stack[i + 1]
        BY <4>1, <1>2 DEF IInv, Explored
      <4> QED
        BY <4>1, <4>2, <3>3, <2>3, <1>9, <1>3
    <3> QED
      BY <3>1, <3>2, <3>3, <1>3
  <2>8. Settled' /\ SettledIsAcyclic' /\ Ordered'
    BY <1>2, <1>9, <2>3, SettledFrame
  <2>9. Progressed'
    <3>1. \A i \in 1..Len(packages) : packages[i] \in Nodes /\ (i < todo => visited[packages[i]] # "new")
      BY Indices DEF IInv, Progressed
    <3>2. \A i \in 1..Len(packages) : i < todo => visited'[packages[i]] # "new"
      BY <2>3, <3>1
    <3>3. \A m \in Nodes : visited'[m] = "new" => next'[m] = 1
      BY <1>3, <1>5, <1>6, <2>3 DEF IInv, Progressed
    <3> QED
      BY <1>2, <1>4, <2>1, <3>2, <3>3 DEF Progressed
  <2> QED
    BY <1>1, <2>1, <2>5, <2>6, <2>7, <2>8, <2>9 DEF IInv, CycleIsReal
<1>10. CASE d \in Nodes /\ visited[d] = "visiting"
  <2>1. visited' = visited /\ stack' = stack /\ result' = "cycle"
    BY <1>10 DEF Descend, Enter
  <2>2. Calls' /\ Chained' /\ Explored'
    BY <1>4, <2>1 DEF IInv, Calls, Chained, Explored
  <2>3. Settled' /\ SettledIsAcyclic' /\ Ordered'
    BY <1>2, <2>1, SettledFrame
  <2>4. Progressed'
    BY <1>1, <1>2, <1>4, <1>5, <1>6, <2>1 DEF IInv, Progressed
  <2>5. \E S \in SUBSET Nodes : Circular(S)
    <3>1. PICK i \in 1..L : stack[i] = d
      BY <1>10 DEF IInv, Calls
    <3> DEFINE S == {stack[j] : j \in i..L}
    <3>2. S \in SUBSET Nodes /\ S # {}
      BY <3>1, <1>3, <1>7
    <3>3. ASSUME NEW j \in i..L
          PROVE  Deps(stack[j]) \cap S # {}
      <4>1. CASE j = L
        <5>1. d \in S
          BY <3>1, <1>3
        <5> QED
          BY <5>1, <4>1, <1>3, <1>8, <1>10
      <4>2. CASE j < L
        <5>1. stack[j + 1] \in S
          BY <4>2, <3>1, <1>3
        <5>2. stack[j + 1] \in Deps(stack[j])
          <6>1. j \in 1..(L - 1)
            BY <4>2, <3>1, <1>3
          <6> QED
            BY <6>1 DEF IInv, Chained
        <5> QED
          BY <5>1, <5>2
      <4> QED
        BY <4>1, <4>2, <3>1, <1>3
    <3> QED
      <4>1. \A n \in S : Deps(n) \cap S # {}
        BY <3>3
      <4> QED
        BY <3>2, <4>1 DEF Circular
  <2>6. CycleIsReal'
    BY <2>5, <1>2, <1>4, Frame DEF CycleIsReal
  <2> QED
    BY <1>1, <2>2, <2>3, <2>4, <2>6 DEF IInv
<1>11. CASE d \notin Nodes \/ visited[d] = "visited"
  <2>1. visited' = visited /\ stack' = stack /\ result' = "running"
    BY <1>2, <1>11 DEF Descend, Enter
  <2>2. Calls' /\ Chained'
    BY <1>4, <2>1 DEF IInv, Calls, Chained
  <2>3. Explored'
    <3> SUFFICES ASSUME NEW i \in 1..L, NEW k \in 1..Len(graph[stack[i]]),
                        k < next'[stack[i]], graph[stack[i]][k] \in Nodes
                 PROVE  \/ visited[graph[stack[i]][k]] = "visited"
                        \/ i < L /\ graph[stack[i]][k] = stack[i + 1]
      BY <1>2, <1>4, <2>1 DEF Explored
    <3>1. CASE k < next[stack[i]]
      BY <3>1, <1>2 DEF IInv, Explored
    <3>2. CASE ~(k < next[stack[i]])
      <4>1. stack[i] = Top /\ k = next[Top]
        <5>1. next[stack[i]] \in Nat /\ graph[stack[i]] \in Seq(Names) /\ k \in Nat
          BY <1>1, <1>7 DEF TypeOK
        <5>2. next'[stack[i]] = IF stack[i] = Top THEN next[Top] + 1 ELSE next[stack[i]]
          BY <1>6, <1>7
        <5> QED
          BY <3>2, <5>1, <5>2, <1>3
      <4> QED
        BY <4>1, <1>11
    <3> QED
      BY <3>1, <3>2
  <2>4. Settled' /\ SettledIsAcyclic' /\ Ordered'
    BY <1>2, <2>1, SettledFrame
  <2>5. Progressed'
    BY <1>1, <1>2, <1>4, <1>5, <1>6, <2>1 DEF IInv, Progressed
  <2> QED
    BY <1>1, <2>1, <2>2, <2>3, <2>4, <2>5 DEF IInv, CycleIsReal
<1> QED
  BY <1>1, <1>9, <1>10, <1>11 DEF TypeOK

\* The innermost call ends: all its node depends on has been visited.
LEMMA ReturnInv == IInv /\ Return => IInv'
<1> SUFFICES ASSUME IInv, Return PROVE IInv'
  OBVIOUS
<1> DEFINE L == Len(stack)
           V == {n \in Nodes : visited[n] = "visited"}
<1>1. TypeOK /\ TypeOK'
  BY TypeStep DEF IInv, Next
<1>2. /\ packages' = packages /\ graph' = graph /\ next' = next /\ todo' = todo
      /\ result = "running" /\ result' = "running" /\ stack # <<>> /\ next[Top] > Len(graph[Top])
      /\ visited' = [visited EXCEPT ![Top] = "visited"] /\ order' = Append(order, Top)
      /\ stack' = SubSeq(stack, 1, L - 1)
  BY DEF Return, inputs
<1>3. /\ Top \in Nodes /\ L \in Nat \ {0} /\ Top = stack[L]
      /\ next[Top] \in Nat \ {0} /\ Len(graph[Top]) \in Nat
  BY <1>1, <1>2, Indices DEF Top
<1>4. Nodes' = Nodes /\ \A m : Deps(m)' = Deps(m)
  BY <1>2, Frame
<1>5. visited[Top] = "visiting"
  BY <1>3 DEF IInv, Calls
<1>6. \A m \in Nodes : visited'[m] = IF m = Top THEN "visited" ELSE visited[m]
  BY <1>1, <1>2 DEF TypeOK
<1>7. Len(stack') = L - 1 /\ \A i \in 1..(L - 1) : stack'[i] = stack[i]
  <2>1. L - 1 \in Nat /\ L - 1 <= Len(stack) /\ stack \in Seq(Nodes)
    BY <1>1, <1>3 DEF TypeOK
  <2> QED
    BY <2>1, <1>2, Prefix
<1>8. \A i \in 1..L : stack[i] \in Nodes
  BY <1>1 DEF TypeOK
<1>9. \A i \in 1..(L - 1) : stack[i] # Top
  <2>1. L \in 1..L
    BY <1>3
  <2> QED
    BY <1>3, <2>1 DEF IInv, Calls
<1>10. Deps(Top) \subseteq V
  <2> SUFFICES ASSUME NEW k \in 1..Len(graph[Top]), graph[Top][k] \in Nodes
               PROVE  visited[graph[Top][k]] = "visited"
    BY DEF Deps
  <2>1. L \in 1..L /\ k < next[Top] /\ result # "cycle"
    BY <1>2, <1>3
  <2> QED
    BY <2>1, <1>3 DEF IInv, Explored
<1>11. Calls'
  <2>1. \A i \in 1..(L - 1) : visited'[stack'[i]] = "visiting"
    BY <1>3, <1>6, <1>7, <1>8, <1>9 DEF IInv, Calls
  <2>2. \A i, j \in 1..(L - 1) : stack'[i] = stack'[j] => i = j
    <3>1. \A i \in 1..(L - 1) : i \in 1..L
      BY <1>3
    <3> QED
      BY <3>1, <1>7 DEF IInv, Calls
  <2>3. \A m \in Nodes : visited'[m] = "visiting" => \E i \in 1..(L - 1) : stack'[i] = m
    <3> SUFFICES ASSUME NEW m \in Nodes, visited'[m] = "visiting"
                 PROVE  \E i \in 1..(L - 1) : stack'[i] = m
      OBVIOUS
    <3>1. m # Top /\ visited[m] = "visiting"
      BY <1>6
    <3>2. PICK i \in 1..L : stack[i] = m
      BY <3>1 DEF IInv, Calls
    <3> QED
      BY <3>1, <3>2, <1>3, <1>7
  <2> QED
    BY <2>1, <2>2, <2>3, <1>4, <1>7 DEF Calls
<1>12. Chained'
  <2>1. \A i \in 1..(L - 1 - 1) : stack'[i + 1] \in Deps(stack'[i])
    BY <1>3, <1>7 DEF IInv, Chained
  <2> QED
    BY <2>1, <1>4, <1>7 DEF Chained
<1>13. Explored'
  <2> SUFFICES ASSUME NEW i \in 1..(L - 1), NEW k \in 1..Len(graph[stack[i]]),
                      k < next[stack[i]], graph[stack[i]][k] \in Nodes
               PROVE  \/ visited'[graph[stack[i]][k]] = "visited"
                      \/ i < L - 1 /\ graph[stack[i]][k] = stack'[i + 1]
    BY <1>2, <1>4, <1>7 DEF Explored
  <2>1. i \in 1..L
    BY <1>3
  <2>2. \/ visited[graph[stack[i]][k]] = "visited"
        \/ graph[stack[i]][k] = stack[i + 1]
    BY <2>1, <1>2 DEF IInv, Explored
  <2>3. CASE i < L - 1
    BY <2>2, <2>3, <1>3, <1>6, <1>7
  <2>4. CASE i = L - 1
    BY <2>2, <2>4, <1>3, <1>6
  <2> QED
    BY <2>3, <2>4, <1>3
<1>14. Settled'
  <2>1. \A n \in Nodes : Deps(n) \subseteq Nodes
    BY DEF Deps
  <2> QED
    BY <2>1, <1>4, <1>6, <1>10 DEF IInv, Settled
<1>15. SettledIsAcyclic'
  <2> SUFFICES ASSUME NEW S \in SUBSET Nodes, \A n \in S : n \in V \/ n = Top, Circular(S)
               PROVE  FALSE
    <3>1. \A S \in SUBSET Nodes : Circular(S)' <=> Circular(S)
      BY <1>2, Frame
    <3> QED
      BY <3>1, <1>4, <1>6 DEF SettledIsAcyclic
  <2> DEFINE R == S \ {Top}
  <2>1. \A n \in R : Deps(n) \cap R # {}
    <3> TAKE n \in R
    <3>1. Deps(n) \subseteq V
      BY DEF IInv, Settled, Deps
    <3> QED
      BY <3>1, <1>5 DEF Circular
  <2>2. R # {}
    BY <1>5, <1>10 DEF Circular
  <2>3. Circular(R) /\ R \in SUBSET Nodes /\ \A n \in R : visited[n] = "visited"
    BY <2>1, <2>2 DEF Circular
  <2> QED
    BY <2>3 DEF IInv, SettledIsAcyclic
<1>16. Ordered'
  <2> DEFINE M == Len(order)
  <2>1. /\ M \in Nat /\ Len(order') = M + 1 /\ order'[M + 1] = Top
        /\ \A i \in 1..M : order'[i] = order[i] /\ order[i] \in Nodes
    BY <1>1, <1>2, <1>3 DEF TypeOK
  <2>2. \A i \in 1..(M + 1) : visited'[order'[i]] = "visited"
    BY <2>1, <1>3, <1>6 DEF IInv, Ordered
  <2>3. \A m \in V : \E i \in 1..M : order[i] = m
    BY DEF IInv, Ordered
  <2>4. \A m \in Nodes : visited'[m] = "visited" => \E i \in 1..(M + 1) : order'[i] = m
    <3> SUFFICES ASSUME NEW m \in Nodes, visited'[m] = "visited"
                 PROVE  \E i \in 1..(M + 1) : order'[i] = m
      OBVIOUS
    <3>1. CASE m = Top
      BY <3>1, <2>1
    <3>2. CASE m # Top
      <4>1. PICK i \in 1..M : order[i] = m
        BY <3>2, <2>3, <1>6
      <4> QED
        BY <4>1, <2>1
    <3> QED
      BY <3>1, <3>2
  <2>5. \A i \in 1..M : order[i] # Top
    BY <1>5 DEF IInv, Ordered
  <2>6. NoRepetition'
    BY <2>1, <2>5 DEF IInv, Ordered, NoRepetition
  <2>7. DependenciesFirst'
    <3> SUFFICES ASSUME NEW i \in 1..(M + 1), NEW d \in Deps(order'[i])
                 PROVE  \E j \in 1..(i - 1) : order'[j] = d
      BY <1>4, <2>1 DEF DependenciesFirst
    <3>1. CASE i = M + 1
      <4>1. PICK j \in 1..M : order[j] = d
        BY <3>1, <2>1, <2>3, <1>10
      <4> QED
        BY <4>1, <3>1, <2>1
    <3>2. CASE i <= M
      <4>1. i \in 1..M /\ order'[i] = order[i]
        BY <3>2, <2>1
      <4>2. PICK j \in 1..(i - 1) : order[j] = d
        BY <4>1 DEF IInv, Ordered, DependenciesFirst
      <4>3. j \in 1..M
        BY <4>1, <4>2, <2>1
      <4> QED
        BY <4>2, <4>3, <2>1
    <3> QED
      BY <3>1, <3>2, <2>1
  <2> QED
    BY <2>1, <2>2, <2>4, <2>6, <2>7, <1>4 DEF Ordered
<1>17. Progressed'
  BY <1>1, <1>2, <1>4, <1>6, Indices DEF IInv, Progressed
<1> QED
  BY <1>1, <1>2, <1>11, <1>12, <1>13, <1>14, <1>15, <1>16, <1>17 DEF IInv, CycleIsReal

\* The search is over.
LEMMA FinishInv == IInv /\ Finish => IInv'
<1> SUFFICES ASSUME IInv, Finish PROVE IInv'
  OBVIOUS
<1>1. /\ packages' = packages /\ graph' = graph /\ order' = order /\ visited' = visited
      /\ stack' = stack /\ next' = next /\ todo' = todo /\ todo > Len(packages) /\ stack = <<>>
      /\ result = "running" /\ result' = "sorted"
  BY DEF Finish, inputs
<1>2. Nodes' = Nodes /\ \A m : Deps(m)' = Deps(m)
  BY <1>1, Frame
<1>3. TypeOK'
  BY TypeStep DEF IInv, Next
<1>4. Calls' /\ Chained' /\ Explored' /\ Progressed' /\ CycleIsReal'
  BY <1>1, <1>2 DEF IInv, Calls, Chained, Explored, Progressed, CycleIsReal
<1>5. Settled' /\ SettledIsAcyclic' /\ Ordered'
  BY <1>1, SettledFrame
<1> QED
  BY <1>3, <1>4, <1>5 DEF IInv

\* A step that changes nothing keeps the invariant.
LEMMA StutterInv == IInv /\ UNCHANGED vars => IInv'
<1> SUFFICES ASSUME IInv, UNCHANGED vars PROVE IInv'
  OBVIOUS
<1>1. /\ packages' = packages /\ graph' = graph /\ order' = order /\ visited' = visited
      /\ stack' = stack /\ next' = next /\ todo' = todo /\ result' = result
  BY DEF vars
<1>2. Nodes' = Nodes /\ \A m : Deps(m)' = Deps(m)
  BY <1>1, Frame
<1>3. TypeOK'
  BY TypeStep DEF IInv
<1>4. Calls' /\ Chained' /\ Explored' /\ Progressed'
  BY <1>1, <1>2 DEF IInv, Calls, Chained, Explored, Progressed
<1>5. CycleIsReal'
  BY <1>1, <1>2, Frame DEF IInv, CycleIsReal
<1>6. Settled' /\ SettledIsAcyclic' /\ Ordered'
  BY <1>1, SettledFrame
<1> QED
  BY <1>3, <1>4, <1>5, <1>6 DEF IInv

\* The invariant of the search.
THEOREM Invariance == Spec => []IInv
<1>1. IInv /\ [Next]_vars => IInv'
  BY BuildInv, RootInv, DescendInv, ReturnInv, FinishInv, StutterInv DEF Next
<1> QED
  BY InitInv, <1>1, PTL DEF Spec

-------------------------------------------------------------------------------

\* Every reachable state is well typed: the search never leaves the graph.
THEOREM TypeCorrect == Spec => []TypeOK
<1>1. IInv => TypeOK
  BY DEF IInv
<1> QED
  BY Invariance, <1>1, PTL

\* At every moment of the search, what is in the order comes after all it
\* depends on: for every graph, whatever the order of its packages and lists.
THEOREM DependenciesComeFirst == Spec => []DependenciesFirst
<1>1. IInv => DependenciesFirst
  BY DEF IInv, Ordered
<1> QED
  BY Invariance, <1>1, PTL

\* topological_sort returns an order only for a graph without a cycle, and the
\* order then has every package exactly once.
THEOREM SortIsRight == Spec => []SortedIsRight
<1>1. IInv => SortedIsRight
  <2> SUFFICES ASSUME IInv, result = "sorted"
               PROVE  /\ \A n \in Nodes : \E i \in 1..Len(order) : order[i] = n
                      /\ NoRepetition
                      /\ \A S \in SUBSET Nodes : ~Circular(S)
    BY DEF SortedIsRight
  <2>1. \A n \in Nodes : visited[n] # "new"
    <3> SUFFICES ASSUME NEW i \in 1..Len(packages) PROVE visited[packages[i]] # "new"
      BY DEF Nodes
    <3>1. todo > Len(packages) /\ todo \in Nat /\ Len(packages) \in Nat
      BY Indices DEF IInv, TypeOK, Progressed
    <3> QED
      BY <3>1 DEF IInv, Progressed
  <2>2. \A n \in Nodes : visited[n] # "visiting"
    BY DEF IInv, Progressed, Calls
  <2>3. \A n \in Nodes : visited[n] = "visited"
    BY <2>1, <2>2 DEF IInv, TypeOK
  <2> QED
    BY <2>3 DEF IInv, Ordered, SettledIsAcyclic
<1> QED
  BY Invariance, <1>1, PTL

\* topological_sort raises its error only for a graph that has a cycle.
THEOREM ErrorIsRight == Spec => []CycleIsReal
<1>1. IInv => CycleIsReal
  BY DEF IInv
<1> QED
  BY Invariance, <1>1, PTL

\* Whichever way a call ends, with an order or with the error, it is right.
THEOREM ResultRight == Spec => []ResultIsRight
<1>1. SortedIsRight /\ CycleIsReal => ResultIsRight
  BY DEF ResultIsRight
<1> QED
  BY SortIsRight, ErrorIsRight, <1>1, PTL
===============================================================================
