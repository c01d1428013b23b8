----------------------------- MODULE KconfigLoops -----------------------------
(***************************************************************************)
(* The search for dependency loops, with which kconfiglib rejects files    *)
(* whose values would depend on themselves: _check_dep_loop_sym and        *)
(* _check_dep_loop_choice call each other along the dependents of symbols, *)
(* and from a choice symbol to the other symbols of its choice.            *)
(*                                                                         *)
(* A call has an item, and where it is from: a choice is entered from one  *)
(* of its symbols, which it skips, and a symbol from its choice, which it  *)
(* then ignores; from is NoItem for other calls.                           *)
(***************************************************************************)
EXTENDS Integers, Sequences

CONSTANT NoItem     \* no choice

VARIABLES
    g,          \* the graph that is searched: syms, choices, order (the
                \* symbols in the order of their definitions), dependents,
                \* choiceOf and members (the symbols of a choice, in order)
    visited,    \* _visited: 0, 1 while the call runs, 2 after it
    stack,      \* the calls that run: the item, where the call is from, the
                \* dependents and then the further items left to call
    loop,       \* what the last call returned: a loop's items so far
    next,       \* the position in order of the next symbol to check
    outcome,    \* "search", "loop" (the error is raised) or "accepted", and in
                \* KconfigLoad "malformed" (an error before the search)
    finished    \* history: the items in the order their calls ended

loopVars == <<g, visited, stack, loop, next, outcome, finished>>

Items(gr) == gr.syms \cup gr.choices
ToRange(seq) == {seq[i] : i \in DOMAIN seq}

(* What the passes over a file make, whatever the file *)
IsGraph(gr) ==
    /\ gr.syms \cap gr.choices = {}
    /\ gr.order \in Seq(gr.syms) /\ ToRange(gr.order) = gr.syms
    /\ gr.dependents \in [gr.syms -> SUBSET Items(gr)]
    /\ gr.choiceOf \in [gr.syms -> gr.choices \cup {NoItem}]
    /\ gr.members \in [gr.choices -> Seq(gr.syms)]
    /\ NoItem \notin Items(gr)

SearchInit ==
    /\ visited = [i \in Items(g) |-> 0]
    /\ stack = <<>> /\ loop = <<>> /\ next = 1
    /\ outcome = "search" /\ finished = <<>>

SearchStart == IsGraph(g) /\ SearchInit

Running == stack[Len(stack)]
Below == SubSeq(stack, 1, Len(stack) - 1)

(* The calls a call makes of its own, after those for the dependents: of   *)
(* the choice, unless the call is from there, or of the symbols            *)
Further(i, from) ==
    CASE i \in g.choices -> g.members[i]
      [] i \in g.syms /\ g.choiceOf[i] # NoItem /\ from = NoItem -> <<g.choiceOf[i]>>
      [] i \in g.syms /\ ~(g.choiceOf[i] # NoItem /\ from = NoItem) -> <<>>

\* Mutant of Frame: a choice does not skip the symbol it came from.
FrameNoSkip(i, from) ==
    [item |-> i, skip |-> NoItem,
     deps |-> IF i \in g.syms THEN g.dependents[i] ELSE {}, rest |-> Further(i, from)]

(* What a call that finds its item unvisited has to do *)
Frame(i, from) ==
    [item |-> i, skip |-> from,
     deps |-> IF i \in g.syms THEN g.dependents[i] ELSE {}, rest |-> Further(i, from)]

\* Mutant of Visit: a call marks its item as done when it begins.
VisitDone(i, from, frames) ==
    IF visited[i] = 0
    THEN /\ visited' = [visited EXCEPT ![i] = 2]
         /\ stack' = Append(frames, Frame(i, from))
         /\ UNCHANGED loop
    ELSE stack' = frames /\ UNCHANGED <<visited, loop>>

(* A call from the calls in frames: a running one's item closes a loop. *)
Visit(i, from, frames) ==
    CASE visited[i] = 0 ->
            /\ visited' = [visited EXCEPT ![i] = 1]
            /\ stack' = Append(frames, Frame(i, from))
            /\ UNCHANGED loop
      [] visited[i] = 1 -> loop' = <<i>> /\ stack' = frames /\ UNCHANGED visited
      [] visited[i] = 2 -> stack' = frames /\ UNCHANGED <<visited, loop>>

Searching == outcome = "search" /\ loop = <<>>

(* "for sym in self.unique_defined_syms: check_dep_loop_sym(sym, False)" *)
CheckNext ==
    /\ Searching /\ stack = <<>> /\ next <= Len(g.order)
    /\ Visit(g.order[next], NoItem, <<>>)
    /\ next' = next + 1
    /\ UNCHANGED <<g, outcome, finished>>

(* The dependents are a set, in no order the code knows. *)
CallDependent(d) ==
    /\ Searching /\ stack # <<>> /\ d \in Running.deps
    /\ Visit(d, NoItem, [stack EXCEPT ![Len(stack)].deps = @ \ {d}])
    /\ UNCHANGED <<g, next, outcome, finished>>

(* "if sym is not skip" *)
CallRest ==
    /\ Searching /\ stack # <<>> /\ Running.deps = {} /\ Running.rest # <<>>
    /\ \E rest \in {[stack EXCEPT ![Len(stack)].rest = Tail(@)]} :
          IF Head(Running.rest) = Running.skip THEN stack' = rest /\ UNCHANGED <<visited, loop>>
          ELSE Visit(Head(Running.rest), Running.item, rest)
    /\ UNCHANGED <<g, next, outcome, finished>>

\* Mutant of Return: the item is not marked as done.
ReturnUnmarked ==
    /\ Searching /\ stack # <<>> /\ Running.deps = {} /\ Running.rest = <<>>
    /\ stack' = Below
    /\ finished' = Append(finished, Running.item)
    /\ UNCHANGED <<g, visited, loop, next, outcome>>

(* "not part of a dependency loop" *)
Return ==
    /\ Searching /\ stack # <<>> /\ Running.deps = {} /\ Running.rest = <<>>
    /\ visited' = [visited EXCEPT ![Running.item] = 2]
    /\ stack' = Below
    /\ finished' = Append(finished, Running.item)
    /\ UNCHANGED <<g, loop, next, outcome>>

\* Mutant of ReturnLoop: the items on the way back are not added.
ReturnLoopShort ==
    /\ outcome = "search" /\ loop # <<>> /\ stack # <<>>
    /\ IF Running.item = loop[1] THEN outcome' = "loop" /\ UNCHANGED stack
       ELSE stack' = Below /\ UNCHANGED outcome
    /\ UNCHANGED <<g, visited, next, finished, loop>>

(* _found_dep_loop, "on the way back" *)
ReturnLoop ==
    /\ outcome = "search" /\ loop # <<>> /\ stack # <<>>
    /\ IF Running.item = loop[1] THEN outcome' = "loop" /\ UNCHANGED <<stack, loop>>
       ELSE stack' = Below /\ loop' = Append(loop, Running.item) /\ UNCHANGED outcome
    /\ UNCHANGED <<g, visited, next, finished>>

Accept ==
    /\ Searching /\ stack = <<>> /\ next > Len(g.order)
    /\ outcome' = "accepted"
    /\ UNCHANGED <<g, visited, stack, loop, next, finished>>

SearchNext ==
    \/ CheckNext
    \/ \E d \in Items(g) : CallDependent(d)
    \/ CallRest \/ Return \/ ReturnLoop \/ Accept

SearchSpec == SearchStart /\ [][SearchNext]_loopVars

-----------------------------------------------------------------------------
(* An item's value goes into the values of those after it: its dependents, *)
(* and by way of the choice the other symbols of the choice.               *)
Edge(a, b) ==
    \/ a \in g.syms /\ (b \in g.dependents[a] \/ b = g.choiceOf[a])
    \/ a \in g.choices /\ b \in ToRange(g.members[a])

(* The loop that is reported is one: every item comes after the next, and  *)
(* the last after the first.  It is not only that a choice has symbols.    *)
LoopIsReal ==
    outcome = "loop" =>
        /\ \A n \in 1..(Len(loop) - 1) : Edge(loop[n + 1], loop[n])
        /\ Edge(loop[1], loop[Len(loop)])

LoopHasDependency ==
    outcome = "loop" =>
        LET before(n) == IF n = Len(loop) THEN loop[1] ELSE loop[n + 1] IN
        \E n \in DOMAIN loop :
            before(n) \in g.syms /\ loop[n] \in g.dependents[before(n)]

(* A loop that was met is raised: its first item's call runs still. *)
LoopIsRaised ==
    loop # <<>> => \E n \in DOMAIN stack : stack[n].item = loop[1]

(* A loop that is met is raised, is one, and is of dependencies. *)
LoopReported == LoopIsRaised /\ LoopIsReal /\ LoopHasDependency

(* What is accepted can be evaluated symbol after symbol: in the reverse   *)
(* of the order they were finished in, each comes before its dependents.   *)
EvaluationOrder ==
    outcome = "accepted" =>
        /\ g.syms \subseteq ToRange(finished)
        /\ \A n \in DOMAIN finished :
              finished[n] \in g.syms =>
                  \A d \in g.dependents[finished[n]] :
                      \E m \in 1..(n - 1) : finished[m] = d
=============================================================================
