------------------------- MODULE KconfigLoad_proofs -------------------------
(***************************************************************************)
(* What loading Kconfig files accepts, rejects and reports, for every      *)
(* file, every nesting and every graph.                                    *)
(*                                                                         *)
(* The first part is about the parser.  Its invariant relates the open     *)
(* files and the running calls to the text that was read: P and R are the  *)
(* open files and how many lines were read of each, B the calls, K the     *)
(* line and the depth at which each of them opened its block.  What files  *)
(* source are edges of a path that PathOK follows, and a file is done with *)
(* only when all it sources is.                                            *)
(*                                                                         *)
(* The second part is about the search for loops.  Its invariant says what *)
(* the running calls are: each item has an edge to the next one's, an item *)
(* marked 1 has a call that runs, the dependents a call is through with    *)
(* are marked 2, and what is marked 2 finished after all its dependents.   *)
(***************************************************************************)
EXTENDS KconfigParse, KconfigLoops, FiniteSetTheorems, WellFoundedInduction, TLAPS

-----------------------------------------------------------------------------
(* What the assumption on the lines says of one of them *)
LEMMA ParserAssumptions ==
    ASSUME NEW line \in Line
    PROVE  IsLine(line)
BY LineAssumption

(* Sequences, and what is done to them *)
LEMMA FrontIs ==
    ASSUME NEW S, NEW s \in Seq(S), Len(s) > 0
    PROVE  /\ Front(s) \in Seq(S) /\ Len(Front(s)) = Len(s) - 1
           /\ \A m \in 1..(Len(s) - 1) : Front(s)[m] = s[m]
<1>1. Len(s) - 1 \in Nat /\ Len(s) - 1 <= Len(s) /\ \A m \in 1..(Len(s) - 1) : s[m] \in S
  OBVIOUS
<1>2. Front(s) = [m \in 1..(Len(s) - 1) |-> s[m]]
  BY <1>1 DEF Front
<1> QED
  BY <1>1, <1>2

(* One element of a sequence is replaced. *)
LEMMA ExceptIs ==
    ASSUME NEW S, NEW s \in Seq(S), NEW n \in 1..Len(s), NEW x \in S
    PROVE  /\ [s EXCEPT ![n] = x] \in Seq(S) /\ Len([s EXCEPT ![n] = x]) = Len(s)
           /\ [s EXCEPT ![n] = x][n] = x
           /\ \A m \in 1..Len(s) : m # n => [s EXCEPT ![n] = x][m] = s[m]
OBVIOUS

(* One element more *)
LEMMA AppendIs ==
    ASSUME NEW S, NEW s \in Seq(S), NEW x \in S
    PROVE  /\ Append(s, x) \in Seq(S) /\ Len(Append(s, x)) = Len(s) + 1
           /\ Append(s, x)[Len(s) + 1] = x
           /\ \A m \in 1..Len(s) : Append(s, x)[m] = s[m]
OBVIOUS

(* The words that open and end blocks *)
LEMMA KindsDiffer ==
    ASSUME NEW t
    PROVE  /\ t \in Blocks <=> t \in {"if", "menu", "choice"}
           /\ t \in Ends <=> t \in {"endif", "endmenu", "endchoice"}
BY DEF Ends, Blocks, EndOf

(* How deep the blocks are, line after line *)
LEMMA DepthStep ==
    ASSUME NEW lines, NEW i \in Nat
    PROVE  /\ Depth(lines, i) \in Int
           /\ Depth(lines, 0) = 0
           /\ lines[i + 1].t \in Blocks => Depth(lines, i + 1) = Depth(lines, i) + 1
           /\ lines[i + 1].t \in Ends => Depth(lines, i + 1) = Depth(lines, i) - 1
           /\ lines[i + 1].t \notin Blocks \cup Ends => Depth(lines, i + 1) = Depth(lines, i)
<1> DEFINE Of(S, n) == {j \in 1..n : lines[j].t \in S}
<1>1. ASSUME NEW S, NEW n \in Nat PROVE IsFiniteSet(Of(S, n))
  <2>1. IsFiniteSet(1..n)
    BY FS_Interval
  <2> QED
    BY <2>1, FS_Subset
<1>2. ASSUME NEW S PROVE Cardinality(Of(S, i)) \in Nat
  BY <1>1, FS_CardinalityType
<1>3. ASSUME NEW S, lines[i + 1].t \in S PROVE Cardinality(Of(S, i + 1)) = Cardinality(Of(S, i)) + 1
  <2>1. Of(S, i + 1) = Of(S, i) \cup {i + 1} /\ i + 1 \notin Of(S, i)
    BY <1>3
  <2> HIDE DEF Of
  <2> QED
    BY <1>1, <2>1, FS_AddElement
<1>4. ASSUME NEW S, lines[i + 1].t \notin S PROVE Cardinality(Of(S, i + 1)) = Cardinality(Of(S, i))
  <2>1. Of(S, i + 1) = Of(S, i)
    BY <1>4
  <2> QED
    BY <2>1
<1>5. Cardinality(Of(Blocks, 0)) = 0 /\ Cardinality(Of(Ends, 0)) = 0
  <2>1. Of(Blocks, 0) = {} /\ Of(Ends, 0) = {}
    OBVIOUS
  <2> QED
    BY <2>1, FS_EmptySet
<1>7. ASSUME NEW n PROVE Depth(lines, n) = Cardinality(Of(Blocks, n)) - Cardinality(Of(Ends, n))
  BY DEF Depth
<1>8. lines[i + 1].t \in Blocks => lines[i + 1].t \notin Ends
  BY KindsDiffer
<1>9. Cardinality(Of(Blocks, i)) \in Nat /\ Cardinality(Of(Ends, i)) \in Nat
  BY <1>2
<1>10. /\ lines[i + 1].t \in Blocks =>
              Cardinality(Of(Blocks, i + 1)) = Cardinality(Of(Blocks, i)) + 1
       /\ lines[i + 1].t \notin Blocks =>
              Cardinality(Of(Blocks, i + 1)) = Cardinality(Of(Blocks, i))
       /\ lines[i + 1].t \in Ends =>
              Cardinality(Of(Ends, i + 1)) = Cardinality(Of(Ends, i)) + 1
       /\ lines[i + 1].t \notin Ends =>
              Cardinality(Of(Ends, i + 1)) = Cardinality(Of(Ends, i))
  BY <1>3, <1>4
<1>11. /\ Depth(lines, 0) = Cardinality(Of(Blocks, 0)) - Cardinality(Of(Ends, 0))
       /\ Depth(lines, i) = Cardinality(Of(Blocks, i)) - Cardinality(Of(Ends, i))
       /\ Depth(lines, i + 1) = Cardinality(Of(Blocks, i + 1)) - Cardinality(Of(Ends, i + 1))
  BY <1>7
<1> HIDE DEF Of
<1> QED
  BY <1>5, <1>8, <1>9, <1>10, <1>11

Agree(lines, more, n) == \A j \in 1..n : more[j] = lines[j]

(* The depth after i lines is a matter of those lines, *)
LEMMA DepthSame ==
    ASSUME NEW lines, NEW more, NEW n \in Nat, Agree(lines, more, n), NEW i \in 0..n
    PROVE  Depth(more, i) = Depth(lines, i)
<1>1. \A S : {j \in 1..i : more[j].t \in S} = {j \in 1..i : lines[j].t \in S}
  BY DEF Agree
<1> QED
  BY <1>1 DEF Depth

(* and so is which end ends which block. *)
LEMMA MatchingSame ==
    ASSUME NEW lines, NEW more, NEW n \in Nat, Agree(lines, more, n),
           NEW i \in 1..n, NEW j \in 1..n
    PROVE  Matching(more, i, j) <=> Matching(lines, i, j)
<1>1. \A l \in 0..n : Depth(more, l) = Depth(lines, l)
  BY DepthSame
<1>2. more[i] = lines[i] /\ more[j] = lines[j]
  BY DEF Agree
<1>3. \A l \in i..(j - 1) : l \in 0..n
  OBVIOUS
<1> QED
  BY <1>1, <1>2, <1>3 DEF Matching

(* Every set of numbers has a least one, *)
LEMMA MinOfNats ==
    ASSUME NEW S, S \subseteq Nat, S # {}
    PROVE  \E x \in S : \A y \in S : x <= y
<1>1. PICK x \in S : \A y \in S : ~(<<y, x>> \in OpToRel(<, Nat))
  BY NatLessThanWellFounded, WFMin
<1>2. ASSUME NEW y \in S PROVE x <= y
  <2>1. ~(y < x)
    BY <1>1 DEF OpToRel
  <2> QED
    BY <2>1
<1> QED
  BY <1>2

(* and a bounded one the greatest, which Max chooses. *)
LEMMA MaxUpTo ==
    ASSUME NEW n \in Nat, NEW S, S \subseteq 1..n, S # {}
    PROVE  Max(S) \in S /\ \A j \in S : j <= Max(S)
<1> DEFINE T == {n - i : i \in S}
<1>1. T \subseteq Nat /\ T # {}
  <2>1. \A i \in S : n - i \in Nat
    OBVIOUS
  <2> QED
    BY <2>1
<1>2. PICK x \in S : \A y \in T : n - x <= y
  BY <1>1, MinOfNats
<1>3. ASSUME NEW y \in S PROVE x >= y
  <2>1. n - x <= n - y
    BY <1>2
  <2> QED
    BY <2>1
<1> QED
  BY <1>3 DEF Max

(* The line that the properties after line i are of *)
KindAt(lines, i) ==
    LET before == {j \in 1..i : lines[j].t \notin Properties} IN
    IF before = {} THEN "none" ELSE lines[Max(before)].t

InPlace(lines, i) ==
    lines[i].t \in Properties =>
        /\ KindAt(lines, i) \in {"config", "choice", "menu", "comment"}
        /\ lines[i].t = "optional" => KindAt(lines, i) = "choice"
        /\ lines[i].t = "visible" => KindAt(lines, i) = "menu"
        /\ lines[i].t \in {"select", "imply"} => KindAt(lines, i) = "config"
        /\ lines[i].t \in {"type", "prompt"} => KindAt(lines, i) \in {"config", "choice"}

(* All properties are in place if each line is. *)
LEMMA InPlaceEverywhere ==
    ASSUME NEW lines
    PROVE  PropertiesInPlace(lines) <=> \A i \in DOMAIN lines : InPlace(lines, i)
<1>1. "none" \notin {"config", "choice", "menu", "comment"}
  OBVIOUS
<1> QED
  BY <1>1 DEF PropertiesInPlace, InPlace, KindAt

(* What a property after a line is said of: what the line opened, or the   *)
(* same as before it                                                       *)
LEMMA KindAtStep ==
    ASSUME NEW lines, NEW i \in Nat
    PROVE  /\ KindAt(lines, 0) = "none"
           /\ KindAt(lines, i + 1) = IF lines[i + 1].t \in Properties THEN KindAt(lines, i)
                                      ELSE lines[i + 1].t
<1> DEFINE Before(n) == {j \in 1..n : lines[j].t \notin Properties}
<1>1. CASE lines[i + 1].t \in Properties
  <2>1. Before(i + 1) = Before(i)
    BY <1>1
  <2> QED
    BY <1>1, <2>1 DEF KindAt
<1>2. CASE lines[i + 1].t \notin Properties
  <2>1. i + 1 \in Before(i + 1) /\ Before(i + 1) \subseteq 1..(i + 1)
    BY <1>2
  <2> HIDE DEF Before
  <2>2. Max(Before(i + 1)) \in Before(i + 1) /\ i + 1 <= Max(Before(i + 1))
    BY <2>1, MaxUpTo
  <2>3. Max(Before(i + 1)) = i + 1
    BY <2>1, <2>2
  <2> USE DEF Before
  <2> QED
    BY <1>2, <2>1, <2>3 DEF KindAt
<1> QED
  BY <1>1, <1>2 DEF KindAt

(* Where a property may be is a matter of the lines up to it. *)
LEMMA KindAtSame ==
    ASSUME NEW lines, NEW more, NEW n \in Nat, Agree(lines, more, n), NEW i \in 0..n
    PROVE  /\ KindAt(more, i) = KindAt(lines, i)
           /\ i # 0 => (InPlace(more, i) <=> InPlace(lines, i))
<1> DEFINE Before(ls) == {j \in 1..i : ls[j].t \notin Properties}
<1>1. Before(more) = Before(lines) /\ Before(lines) \subseteq 1..i
  BY DEF Agree
<1>2. Before(lines) # {} => Max(Before(lines)) \in 1..n
  <2> HIDE DEF Before
  <2>1. Before(lines) # {} => Max(Before(lines)) \in Before(lines)
    BY <1>1, MaxUpTo
  <2> QED
    BY <1>1, <2>1
<1>3. KindAt(more, i) = KindAt(lines, i)
  <2>1. CASE Before(lines) = {}
    BY <1>1, <2>1 DEF KindAt
  <2>2. CASE Before(lines) # {}
    <3>1. more[Max(Before(lines))] = lines[Max(Before(lines))]
      BY <1>2, <2>2 DEF Agree
    <3> QED
      BY <1>1, <2>2, <3>1 DEF KindAt
  <2> QED
    BY <2>1, <2>2
<1>4. i # 0 => more[i] = lines[i]
  BY DEF Agree
<1> QED
  BY <1>3, <1>4 DEF InPlace

-----------------------------------------------------------------------------
(* Texts that may have been read of the files, and the files read to the   *)
(* end                                                                     *)
Texts == [Files -> Seq(Line)]
Dones(t) == {f \in Files : t[f] # <<>> /\ t[f][Len(t[f])].t = "eof"}

Matched(lines, upto, i) == \E j \in 1..upto : Matching(lines, i, j)

(* What is true of the lines that were accepted, of one file and of all *)
LinesOK(lines) ==
    /\ \A i \in 1..Len(lines) : lines[i].t = "eof" => i = Len(lines)
    /\ \A i \in 1..Len(lines) : InPlace(lines, i)
    /\ \A j \in 1..Len(lines) : lines[j].t \in Ends =>
          \E i \in 1..Len(lines) : Matching(lines, i, j)
    /\ \A i \in 1..Len(lines) : lines[i].t = "source" /\ lines[i].obligatory =>
                                  lines[i].files # <<>>
    /\ lines # <<>> /\ lines[Len(lines)].t = "eof" =>
          \A i \in 1..Len(lines) : lines[i].t \in Blocks => Matched(lines, Len(lines), i)

Acyclic(t, f) ==
    \E S \in SUBSET Dones(t) : f \notin S /\ Sourced(t, S \cup {f}) \subseteq S

TextOK(t) ==
    /\ t \in Texts
    /\ \A f \in Files : LinesOK(t[f])
    /\ \A f \in Dones(t) : Sourced(t, {f}) \subseteq Dones(t) /\ Acyclic(t, f)

(* The files that some of the files source, line by line *)
LEMMA InSourced ==
    ASSUME NEW t \in Texts, NEW fs \in SUBSET Files, NEW h
    PROVE  h \in Sourced(t, fs) <=>
              \E f \in fs : \E i \in 1..Len(t[f]) :
                 t[f][i].t = "source" /\ h \in ToSet(t[f][i].files)
<1> DEFINE Sources(f) == {l \in ToSet(t[f]) : l.t = "source"}
           Of(f) == UNION {ToSet(line.files) : line \in Sources(f)}
<1>1. ASSUME NEW f \in fs PROVE \A line : line \in ToSet(t[f]) <=> \E i \in 1..Len(t[f]) : line = t[f][i]
  BY DEF ToSet, Texts
<1>2. Sourced(t, fs) = UNION {Of(f) : f \in fs}
  BY DEF Sourced
<1>3. h \in Sourced(t, fs) <=> \E f \in fs : h \in Of(f)
  <2> HIDE DEF Of
  <2> QED
    BY <1>2
<1>4. ASSUME NEW f \in fs
      PROVE  h \in Of(f) <=> \E i \in 1..Len(t[f]) : t[f][i].t = "source" /\ h \in ToSet(t[f][i].files)
  <2>1. h \in Of(f) <=> \E line \in Sources(f) : h \in ToSet(line.files)
    <3> HIDE DEF Sources
    <3> QED
      OBVIOUS
  <2>2. \A line : line \in Sources(f) <=> line \in ToSet(t[f]) /\ line.t = "source"
    OBVIOUS
  <2>3. \A line : line \in ToSet(t[f]) <=> \E i \in 1..Len(t[f]) : line = t[f][i]
    BY <1>1
  <2> HIDE DEF Of, Sources
  <2>4. ASSUME h \in Of(f)
        PROVE  \E i \in 1..Len(t[f]) : t[f][i].t = "source" /\ h \in ToSet(t[f][i].files)
    <3>1. PICK line \in Sources(f) : h \in ToSet(line.files)
      BY <2>1, <2>4
    <3>2. PICK i \in 1..Len(t[f]) : line = t[f][i]
      BY <2>2, <2>3
    <3> QED
      BY <2>2, <3>1, <3>2
  <2>5. ASSUME NEW i \in 1..Len(t[f]), t[f][i].t = "source", h \in ToSet(t[f][i].files)
        PROVE  h \in Of(f)
    <3>1. t[f][i] \in Sources(f)
      BY <2>2, <2>3, <2>5
    <3> QED
      BY <2>1, <2>5, <3>1
  <2> QED
    BY <2>4, <2>5
<1> HIDE DEF Of
<1> QED
  BY <1>3, <1>4

(* The lines there are, by what the parser does with them *)
LEMMA LineKinds ==
    ASSUME NEW line \in Line
    PROVE  /\ line.t \in {"config", "comment"} \cup {"if", "menu", "choice"}
                           \cup {"endif", "endmenu", "endchoice"} \cup Properties
                           \cup {"source", "eof"}
           /\ line.t = "source" => line.files \in Seq(Files)
BY LineAssumption, KindsDiffer DEF IsLine, Entries

(* The lines of a file stay right when one that is accepted is appended.   *)
LEMMA LinesGrow ==
    ASSUME NEW lines \in Seq(Line), NEW line \in Line, LinesOK(lines),
           \A i \in 1..Len(lines) : lines[i].t # "eof",
           NEW more, more = Append(lines, line),
           InPlace(more, Len(lines) + 1),
           line.t \in Ends => \E i \in 1..Len(lines) : Matching(more, i, Len(lines) + 1),
           line.t = "source" /\ line.obligatory => line.files # <<>>,
           line.t = "eof" => \A i \in 1..Len(lines) : more[i].t \in Blocks =>
                                Matched(more, Len(lines), i)
    PROVE  LinesOK(more)
<1> DEFINE n == Len(lines)
<1>1. n \in Nat /\ Len(more) = n + 1 /\ more[n + 1] = line
  OBVIOUS
<1>2. Agree(lines, more, n)
  BY DEF Agree
<1>3. \A i \in 1..n : more[i] = lines[i]
  OBVIOUS
<1> HIDE DEF n
<1>4. \A i \in 1..Len(more) : i = n + 1 \/ i \in 1..n
  BY <1>1
<1>5. \A i, j \in 1..n : Matching(more, i, j) <=> Matching(lines, i, j)
  BY <1>1, <1>2, MatchingSame
<1>6. \A i \in 1..n : InPlace(more, i) <=> InPlace(lines, i)
  BY <1>1, <1>2, KindAtSame
<1>7. \A i \in 1..Len(more) : more[i].t = "eof" => i = Len(more)
  BY <1>1, <1>3, <1>4 DEF n
<1>8. \A i \in 1..Len(more) : InPlace(more, i)
  BY <1>1, <1>4, <1>6 DEF LinesOK, n
<1>9. ASSUME NEW j \in 1..Len(more), more[j].t \in Ends
      PROVE  \E i \in 1..Len(more) : Matching(more, i, j)
  <2>1. CASE j = n + 1
    BY <1>1, <1>9, <2>1 DEF n
  <2>2. CASE j \in 1..n
    <3>1. PICK i \in 1..n : Matching(lines, i, j)
      BY <1>3, <1>9, <2>2 DEF LinesOK, n
    <3> QED
      BY <1>1, <1>5, <2>2, <3>1
  <2> QED
    BY <1>4, <2>1, <2>2
<1>10. \A i \in 1..Len(more) : more[i].t = "source" /\ more[i].obligatory => more[i].files # <<>>
  BY <1>1, <1>3, <1>4 DEF LinesOK, n
<1>11. ASSUME more[Len(more)].t = "eof", NEW i \in 1..Len(more), more[i].t \in Blocks
       PROVE  Matched(more, Len(more), i)
  <2>1. i # n + 1
    BY <1>1, <1>11, KindsDiffer
  <2>2. Matched(more, n, i)
    BY <1>1, <1>4, <1>11, <2>1 DEF n
  <2> QED
    BY <1>1, <2>2 DEF Matched
<1> QED
  BY <1>7, <1>8, <1>9, <1>10, <1>11 DEF LinesOK

(* The texts after one more line of f is read: a new one, or one that was  *)
(* read before                                                             *)
Read(t, u, f, n, line) ==
    /\ line \in Line /\ n \in 0..Len(t[f])
    /\ \/ u = t /\ n + 1 \in 1..Len(t[f]) /\ line = t[f][n + 1]
       \/ u = [t EXCEPT ![f] = Append(t[f], line)] /\ n = Len(t[f])

(* Reading a line leaves the lines before it, and those of the other       *)
(* files, as they were.                                                    *)
LEMMA ReadAgrees ==
    ASSUME NEW t \in Texts, NEW f \in Files, NEW u, NEW n, NEW line, Read(t, u, f, n, line)
    PROVE  /\ u \in Texts
           /\ n \in Nat /\ n + 1 \in 1..Len(u[f]) /\ u[f][n + 1] = line
           /\ \A h \in Files : /\ Len(t[h]) \in Nat
                               /\ Len(t[h]) \in 0..Len(u[h])
                               /\ Agree(t[h], u[h], Len(t[h]))
                               /\ h # f => u[h] = t[h]
<1>1. t[f] \in Seq(Line) /\ line \in Line /\ n \in 0..Len(t[f])
  BY DEF Texts, Read
<1>2. CASE u = t /\ n + 1 \in 1..Len(t[f]) /\ line = t[f][n + 1]
  BY <1>1, <1>2 DEF Texts, Agree
<1>3. CASE u = [t EXCEPT ![f] = Append(t[f], line)] /\ n = Len(t[f])
  <2>1. u[f] = Append(t[f], line) /\ \A h \in Files \ {f} : u[h] = t[h]
    BY <1>3 DEF Texts
  <2>2. u \in Texts
    BY <1>1, <1>3 DEF Texts
  <2>3. Len(u[f]) = Len(t[f]) + 1 /\ u[f][n + 1] = line /\ Agree(t[f], u[f], Len(t[f]))
    BY <1>1, <1>3, <2>1 DEF Agree
  <2>4. \A h \in Files : Len(t[h]) \in Nat /\ Agree(t[h], t[h], Len(t[h]))
    BY DEF Texts, Agree
  <2>5. \A h \in Files \ {f} : Len(t[h]) \in 0..Len(u[h]) /\ Agree(t[h], u[h], Len(t[h]))
    BY <2>1, <2>4
  <2>6. Len(t[f]) \in 0..Len(u[f]) /\ n \in Nat /\ n + 1 \in 1..Len(u[f])
    BY <1>1, <1>3, <2>3, <2>4
  <2> QED
    BY <2>1, <2>2, <2>3, <2>4, <2>5, <2>6
<1> QED
  BY <1>2, <1>3 DEF Read

(* A line that may follow keeps the text right. *)
LEMMA TextGrows ==
    ASSUME NEW t, TextOK(t), NEW f \in Files, NEW u, NEW n, NEW line,
           Read(t, u, f, n, line),
           \A i \in 1..n : t[f][i].t # "eof",
           InPlace(u[f], n + 1),
           line.t \in Ends => \E i \in 1..n : Matching(u[f], i, n + 1),
           line.t = "source" /\ line.obligatory => line.files # <<>>,
           line.t = "eof" =>
              /\ \A i \in 1..n : u[f][i].t \in Blocks => Matched(u[f], n, i)
              /\ \A i \in 1..n : u[f][i].t = "source" => ToSet(u[f][i].files) \subseteq Dones(t)
    PROVE  /\ TextOK(u)
           /\ Dones(t) \subseteq Dones(u)
           /\ line.t = "eof" => f \in Dones(u)
<1>1. t \in Texts /\ t[f] \in Seq(Line) /\ line \in Line
  BY DEF TextOK, Texts, Read
<1>2. CASE u = t /\ n + 1 \in 1..Len(t[f]) /\ line = t[f][n + 1]
  <2>1. line.t = "eof" => n + 1 = Len(t[f])
    BY <1>2 DEF TextOK, LinesOK
  <2>2. t[f] # <<>>
    BY <1>1, <1>2
  <2> QED
    BY <1>2, <2>1, <2>2 DEF Dones
<1>3. CASE u = [t EXCEPT ![f] = Append(t[f], line)] /\ n = Len(t[f])
  <2>1. u[f] = Append(t[f], line) /\ \A h \in Files \ {f} : u[h] = t[h]
    BY <1>1, <1>3 DEF Texts
  <2>2. u \in Texts
    BY <1>1, ReadAgrees
  <2>3. f \notin Dones(t)
    BY <1>1, <1>3 DEF Dones
  <2>4. u[f] # <<>> /\ u[f][Len(u[f])] = line
    BY <1>1, <2>1
  <2>5. Dones(u) = IF line.t = "eof" THEN Dones(t) \cup {f} ELSE Dones(t)
    BY <2>1, <2>3, <2>4 DEF Dones
  <2>6. LinesOK(u[f])
    BY <1>1, <1>3, <2>1, LinesGrow DEF TextOK
  <2>7. \A h \in Files : LinesOK(u[h])
    BY <2>1, <2>6 DEF TextOK
  <2>8. \A fs \in SUBSET Dones(t) : Sourced(u, fs) = Sourced(t, fs)
    BY <2>1, <2>3 DEF Sourced, Dones
  <2>9. ASSUME NEW h \in Dones(t) PROVE Sourced(u, {h}) \subseteq Dones(u) /\ Acyclic(u, h)
    <3>1. PICK S \in SUBSET Dones(t) : h \notin S /\ Sourced(t, S \cup {h}) \subseteq S
      BY <2>9 DEF TextOK, Acyclic
    <3>2. Sourced(u, S \cup {h}) = Sourced(t, S \cup {h}) /\ Sourced(u, {h}) = Sourced(t, {h})
      BY <2>8, <2>9
    <3> QED
      BY <2>5, <2>9, <3>1, <3>2 DEF TextOK, Acyclic
  <2>10. ASSUME line.t = "eof" PROVE Sourced(u, {f}) \subseteq Dones(u) /\ Acyclic(u, f)
    <3>1. Sourced(u, {f}) \subseteq Dones(t)
      <4>1. ASSUME NEW h \in Sourced(u, {f}) PROVE h \in Dones(t)
        <5>1. PICK i \in 1..Len(u[f]) : u[f][i].t = "source" /\ h \in ToSet(u[f][i].files)
          BY <2>2, <4>1, InSourced
        <5>2. i \in 1..n
          BY <1>1, <1>3, <2>1, <2>4, <2>10, <5>1
        <5> QED
          BY <2>10, <5>1, <5>2
      <4> QED
        BY <4>1
    <3>2. ASSUME NEW h \in Sourced(u, Dones(t) \cup {f}) PROVE h \in Dones(t)
      <4>1. PICK e \in Dones(t) \cup {f} : \E i \in 1..Len(u[e]) :
               u[e][i].t = "source" /\ h \in ToSet(u[e][i].files)
        BY <2>2, <3>2, InSourced DEF Dones
      <4>2. h \in Sourced(u, {e})
        BY <2>2, <4>1, InSourced DEF Dones
      <4>3. e # f => h \in Sourced(t, {e}) /\ e \in Dones(t)
        BY <2>8, <4>1, <4>2
      <4> QED
        BY <3>1, <4>2, <4>3 DEF TextOK
    <3> QED
      BY <2>3, <2>5, <3>1, <3>2 DEF Acyclic
  <2> QED
    BY <2>2, <2>5, <2>7, <2>9, <2>10 DEF TextOK
<1> QED
  BY <1>2, <1>3 DEF Read

-----------------------------------------------------------------------------
(* The open files P, from the first to the current one, and how many lines *)
(* R were read of each                                                     *)
IsSource(t, f, i) == t[f][i].t = "source"
Asked(t, f, i) == ToSet(t[f][i].files)

PathTyped(P, R) == P \in Seq(Files) /\ R \in Seq(Nat) /\ Len(P) = Len(R) /\ Len(P) > 0

ReadTo(t, f, n) == n <= Len(t[f]) /\ \A i \in 1..n : t[f][i].t # "eof"
PathRead(t, P, R) == \A m \in 1..Len(P) : ReadTo(t, P[m], R[m])

Sources(t, f, n, h) == n > 0 /\ IsSource(t, f, n) /\ h \in Asked(t, f, n)
PathSourced(t, P, R) == \A m \in 1..(Len(P) - 1) : Sources(t, P[m], R[m], P[m + 1])

PathDistinct(P) == \A m, l \in 1..Len(P) : P[m] = P[l] => m = l

(* The files asked for by the first n lines were read to the end. *)
DoneTo(t, f, n) == \A i \in 1..n : IsSource(t, f, i) => Asked(t, f, i) \subseteq Dones(t)
PathDone(t, P, R) ==
    /\ \A m \in 1..(Len(P) - 1) : DoneTo(t, P[m], R[m] - 1)
    /\ DoneTo(t, P[Len(P)], R[Len(P)])

PathCovers(t, P) == \A f \in Files : t[f] # <<>> => f \in Dones(t) \/ \E m \in 1..Len(P) : P[m] = f

PathOK(t, P, R) ==
    /\ PathTyped(P, R) /\ PathDistinct(P)
    /\ PathRead(t, P, R) /\ PathSourced(t, P, R) /\ PathDone(t, P, R) /\ PathCovers(t, P)

(* _next_line: the open files stay open in the text with the line that was *)
(* read.                                                                   *)
LEMMA PathGrows ==
    ASSUME NEW t \in Texts, NEW P, NEW R, PathOK(t, P, R), NEW u, NEW n, NEW line,
           Read(t, u, P[Len(P)], n, line), Dones(t) \subseteq Dones(u)
    PROVE  PathOK(u, P, R)
<1> DEFINE f == P[Len(P)]
<1>1. f \in Files /\ P \in Seq(Files) /\ R \in Seq(Nat) /\ Len(P) = Len(R) /\ Len(P) \in Nat \ {0}
  BY DEF PathOK, PathTyped
<1>2. \A h \in Files : /\ Len(t[h]) \in Nat /\ Len(t[h]) \in 0..Len(u[h])
                       /\ Agree(t[h], u[h], Len(t[h])) /\ (h # f => u[h] = t[h])
  BY <1>1, ReadAgrees
<1> HIDE DEF f
<1>3. \A m \in 1..Len(P) : P[m] \in Files /\ R[m] \in Nat
  BY <1>1
<1>4. ASSUME NEW m \in 1..Len(P)
      PROVE  ReadTo(u, P[m], R[m]) /\ \A i \in 1..R[m] : u[P[m]][i] = t[P[m]][i]
  <2>1. R[m] <= Len(t[P[m]]) /\ \A i \in 1..R[m] : t[P[m]][i].t # "eof"
    BY DEF PathOK, PathRead, ReadTo
  <2>2. P[m] \in Files /\ R[m] \in Nat
    BY <1>3
  <2>3. \A i \in 1..Len(t[P[m]]) : u[P[m]][i] = t[P[m]][i]
    BY <1>2, <2>2 DEF Agree
  <2> QED
    BY SMTT(30), <1>2, <2>1, <2>2, <2>3 DEF ReadTo
<1>5. PathSourced(u, P, R)
  <2>1. ASSUME NEW m \in 1..(Len(P) - 1) PROVE Sources(u, P[m], R[m], P[m + 1])
    <3>1. Sources(t, P[m], R[m], P[m + 1]) /\ m \in 1..Len(P)
      BY <1>1 DEF PathOK, PathSourced
    <3>2. u[P[m]][R[m]] = t[P[m]][R[m]]
      BY <1>3, <1>4, <3>1 DEF Sources
    <3> QED
      BY <3>1, <3>2 DEF Sources, IsSource, Asked
  <2> QED
    BY <2>1 DEF PathSourced
<1>6. PathDone(u, P, R)
  <2>1. ASSUME NEW m \in 1..Len(P), NEW k \in Int, k <= R[m], DoneTo(t, P[m], k)
        PROVE  DoneTo(u, P[m], k)
    <3>1. \A i \in 1..k : u[P[m]][i] = t[P[m]][i]
      BY <1>3, <1>4, <2>1
    <3> QED
      BY <2>1, <3>1 DEF DoneTo, IsSource, Asked
  <2>2. ASSUME NEW m \in 1..(Len(P) - 1) PROVE DoneTo(u, P[m], R[m] - 1)
    <3>1. m \in 1..Len(P) /\ R[m] - 1 \in Int /\ R[m] - 1 <= R[m]
      BY <1>1, <1>3
    <3>2. DoneTo(t, P[m], R[m] - 1)
      BY DEF PathOK, PathDone
    <3> QED
      BY <2>1, <3>1, <3>2
  <2>3. DoneTo(u, P[Len(P)], R[Len(P)])
    <3>1. DoneTo(t, P[Len(P)], R[Len(P)])
      BY DEF PathOK, PathDone
    <3>2. Len(P) \in 1..Len(P) /\ R[Len(P)] \in Int /\ R[Len(P)] <= R[Len(P)]
      BY <1>1
    <3> QED
      BY <2>1, <3>1, <3>2
  <2> QED
    BY <2>2, <2>3 DEF PathDone
<1>7. PathCovers(u, P)
  <2>1. ASSUME NEW h \in Files, u[h] # <<>>, h # f PROVE h \in Dones(u) \/ \E m \in 1..Len(P) : P[m] = h
    BY <1>2, <2>1 DEF PathOK, PathCovers
  <2>2. \E m \in 1..Len(P) : P[m] = f
    BY <1>1 DEF f
  <2> QED
    BY <2>1, <2>2 DEF PathCovers
<1> QED
  BY <1>4, <1>5, <1>6, <1>7 DEF PathOK, PathRead

(* A line that opens no file is passed. *)
LEMMA PathAdvances ==
    ASSUME NEW t \in Texts, NEW P, NEW R, PathOK(t, P, R), NEW f, f = P[Len(P)],
           NEW n, n = R[Len(R)], n + 1 <= Len(t[f]), t[f][n + 1].t # "eof",
           IsSource(t, f, n + 1) => Asked(t, f, n + 1) \subseteq Dones(t)
    PROVE  PathOK(t, P, [R EXCEPT ![Len(R)] = n + 1])
<1> DEFINE Q == [R EXCEPT ![Len(R)] = n + 1]
<1>1. P \in Seq(Files) /\ R \in Seq(Nat) /\ Len(P) = Len(R) /\ Len(P) \in Nat \ {0} /\ n \in Nat
  BY DEF PathOK, PathTyped
<1>2. Q \in Seq(Nat) /\ Len(Q) = Len(P) /\ Q[Len(P)] = n + 1
      /\ \A m \in 1..(Len(P) - 1) : Q[m] = R[m]
  BY <1>1
<1> HIDE DEF Q
<1>3. \A i \in 1..(n + 1) : i = n + 1 \/ i \in 1..n
  BY <1>1
<1>4. \A m \in 1..Len(P) : m = Len(P) \/ m \in 1..(Len(P) - 1)
  BY <1>1
<1>5. PathRead(t, P, Q)
  <2>1. ReadTo(t, f, n)
    BY <1>1 DEF PathOK, PathRead
  <2>2. ReadTo(t, f, n + 1)
    BY <1>3, <2>1 DEF ReadTo
  <2>3. \A m \in 1..(Len(P) - 1) : ReadTo(t, P[m], R[m])
    BY <1>1 DEF PathOK, PathRead
  <2> QED
    BY <1>2, <1>4, <2>2, <2>3 DEF PathRead
<1>6. PathDone(t, P, Q)
  <2>1. DoneTo(t, f, n)
    BY <1>1 DEF PathOK, PathDone
  <2>2. DoneTo(t, f, n + 1)
    BY <1>3, <2>1 DEF DoneTo
  <2> QED
    BY <1>2, <2>2 DEF PathOK, PathDone
<1>7. PathSourced(t, P, Q)
  BY <1>2 DEF PathOK, PathSourced
<1>8. PathTyped(P, Q)
  BY <1>1, <1>2 DEF PathTyped
<1> QED
  BY <1>5, <1>6, <1>7, <1>8 DEF PathOK, Q

(* _enter_file at a source line: one open file more, if it is not open yet *)
LEMMA PathEnters ==
    ASSUME NEW t \in Texts, NEW P, NEW R, PathOK(t, P, R), NEW f, f = P[Len(P)],
           NEW n, n = R[Len(R)], n + 1 <= Len(t[f]), IsSource(t, f, n + 1),
           NEW h \in Files, h \in Asked(t, f, n + 1), \A m \in 1..Len(P) : P[m] # h
    PROVE  PathOK(t, Append(P, h), Append([R EXCEPT ![Len(R)] = n + 1], 0))
<1> DEFINE Q == Append(P, h)
           S == Append([R EXCEPT ![Len(R)] = n + 1], 0)
           L == Len(P)
<1>1. P \in Seq(Files) /\ R \in Seq(Nat) /\ L = Len(R) /\ L \in Nat \ {0} /\ n \in Nat
  BY DEF PathOK, PathTyped
<1>2. /\ Q \in Seq(Files) /\ Len(Q) = L + 1 /\ Q[L + 1] = h
      /\ \A m \in 1..L : Q[m] = P[m]
  BY <1>1
<1>3. /\ S \in Seq(Nat) /\ Len(S) = L + 1 /\ S[L + 1] = 0 /\ S[L] = n + 1
      /\ \A m \in 1..(L - 1) : S[m] = R[m]
  BY <1>1
<1>4. f = P[L] /\ n = R[L] /\ Q[L] = f
  BY <1>1, <1>2
<1> HIDE DEF Q, S
<1>5. \A m \in 1..(L - 1) : m \in 1..L /\ Q[m] = P[m] /\ Q[m + 1] = P[m + 1] /\ S[m] = R[m]
  BY SMTT(30), <1>1, <1>2, <1>3
<1>6. \A m \in 1..(L + 1) : m = L + 1 \/ m = L \/ m \in 1..(L - 1)
  BY <1>1
<1>7. PathRead(t, Q, S)
  <2>1. ReadTo(t, h, 0)
    BY DEF ReadTo, Texts
  <2>2. ReadTo(t, f, n)
    BY <1>1, <1>4 DEF PathOK, PathRead
  <2>3. ReadTo(t, f, n + 1)
    <3>1. \A i \in 1..(n + 1) : i = n + 1 \/ i \in 1..n
      BY <1>1
    <3> QED
      BY <2>2, <3>1 DEF ReadTo, IsSource
  <2>4. \A m \in 1..(L - 1) : ReadTo(t, P[m], R[m])
    BY <1>5 DEF PathOK, PathRead
  <2> QED
    BY <1>2, <1>3, <1>4, <1>5, <1>6, <2>1, <2>3, <2>4 DEF PathRead
<1>8. PathSourced(t, Q, S)
  <2>1. Sources(t, f, n + 1, h)
    BY <1>1 DEF Sources
  <2>2. \A m \in 1..(L - 1) : Sources(t, P[m], R[m], P[m + 1])
    BY DEF PathOK, PathSourced
  <2>3. \A m \in 1..(Len(Q) - 1) : m = L \/ m \in 1..(L - 1)
    BY <1>1, <1>2
  <2> HIDE DEF L
  <2> QED
    BY <1>2, <1>3, <1>4, <1>5, <2>1, <2>2, <2>3 DEF PathSourced
<1>9. PathDistinct(Q)
  <2>1. \A m, l \in 1..L : P[m] = P[l] => m = l
    BY DEF PathOK, PathDistinct
  <2>2. \A m \in 1..L : P[m] # h
    OBVIOUS
  <2>3. \A m \in 1..Len(Q) : m = L + 1 \/ m \in 1..L
    BY <1>1, <1>2
  <2> HIDE DEF L
  <2> QED
    BY <1>2, <2>1, <2>2, <2>3 DEF PathDistinct
<1>10. PathDone(t, Q, S)
  <2>1. DoneTo(t, h, 0)
    BY DEF DoneTo
  <2>2. DoneTo(t, f, n) /\ n = (n + 1) - 1
    BY <1>1, <1>4 DEF PathOK, PathDone
  <2>3. \A m \in 1..(L - 1) : DoneTo(t, P[m], R[m] - 1)
    BY DEF PathOK, PathDone
  <2>4. \A m \in 1..(Len(Q) - 1) : m = L \/ m \in 1..(L - 1)
    BY <1>1, <1>2
  <2> HIDE DEF L
  <2> QED
    BY <1>2, <1>3, <1>4, <1>5, <2>1, <2>2, <2>3, <2>4 DEF PathDone
<1>11. PathCovers(t, Q)
  <2>1. ASSUME NEW e \in Files, t[e] # <<>>, e \notin Dones(t) PROVE \E m \in 1..Len(Q) : Q[m] = e
    <3>1. PICK m \in 1..L : P[m] = e
      BY <2>1 DEF PathOK, PathCovers
    <3> QED
      BY <1>1, <1>2, <3>1
  <2> QED
    BY <2>1 DEF PathCovers
<1>12. PathTyped(Q, S)
  BY <1>1, <1>2, <1>3 DEF PathTyped
<1> QED
  BY <1>7, <1>8, <1>9, <1>10, <1>11, <1>12 DEF PathOK, Q, S

(* _leave_file: the last file was read to the end, and all those of the    *)
(* source line with it.                                                    *)
LEMMA PathLeaves ==
    ASSUME NEW t \in Texts, NEW P, NEW R, PathOK(t, P, R), NEW L, L = Len(P), L > 1,
           P[L] \in Dones(t), Asked(t, P[L - 1], R[L - 1]) \subseteq Dones(t)
    PROVE  PathOK(t, Front(P), Front(R))
<1> DEFINE Q == Front(P)
           S == Front(R)
<1>1. P \in Seq(Files) /\ R \in Seq(Nat) /\ L = Len(R) /\ L = Len(P) /\ L \in Nat \ {0, 1}
  BY DEF PathOK, PathTyped
<1>2. Q \in Seq(Files) /\ Len(Q) = L - 1 /\ \A m \in 1..(L - 1) : Q[m] = P[m]
  BY <1>1, FrontIs
<1>3. S \in Seq(Nat) /\ Len(S) = L - 1 /\ \A m \in 1..(L - 1) : S[m] = R[m]
  <2>1. Len(R) > 0 /\ Len(R) - 1 = L - 1
    BY <1>1
  <2> QED
    BY <1>1, <2>1, FrontIs
<1> HIDE DEF Q, S
<1>4. \A m \in 1..(L - 2) : m \in 1..(L - 1) /\ m + 1 \in 1..(L - 1)
  BY <1>1
<1>5. L - 1 \in 1..(L - 1) /\ (L - 1) - 1 = L - 2 /\ \A m \in 1..(L - 1) : m \in 1..L
  BY <1>1
<1>6. PathRead(t, Q, S)
  BY <1>2, <1>3, <1>5 DEF PathOK, PathRead
<1>7. PathSourced(t, Q, S)
  BY <1>2, <1>3, <1>4, <1>5 DEF PathOK, PathSourced
<1>8. PathDistinct(Q)
  BY <1>2, <1>5 DEF PathOK, PathDistinct
<1>9. PathDone(t, Q, S)
  <2>1. \A m \in 1..(L - 1) : DoneTo(t, P[m], R[m] - 1)
    BY DEF PathOK, PathDone
  <2>2. DoneTo(t, P[L - 1], R[L - 1])
    <3>0. R[L - 1] \in Nat
      <4>1. R \in Seq(Nat) /\ Len(R) > 1 /\ L = Len(R)
        BY <1>1
      <4>2. R[Len(R) - 1] \in Nat
        BY <4>1
      <4> QED
        BY <4>1, <4>2
    <3>1. \A i \in 1..R[L - 1] : i = R[L - 1] \/ i \in 1..(R[L - 1] - 1)
      BY <3>0
    <3>2. DoneTo(t, P[L - 1], R[L - 1] - 1)
      BY <1>5, <2>1
    <3> QED
      BY <3>1, <3>2 DEF DoneTo
  <2> QED
    BY <1>2, <1>3, <1>4, <1>5, <2>1, <2>2 DEF PathDone
<1>10. PathCovers(t, Q)
  <2>1. ASSUME NEW e \in Files, t[e] # <<>>, e \notin Dones(t) PROVE \E m \in 1..Len(Q) : Q[m] = e
    <3>1. PICK m \in 1..L : P[m] = e
      BY <2>1 DEF PathOK, PathCovers
    <3>2. m # L
      BY <2>1, <3>1
    <3> QED
      BY <1>1, <1>2, <3>1, <3>2
  <2> QED
    BY <2>1 DEF PathCovers
<1>11. PathTyped(Q, S)
  BY <1>1, <1>2, <1>3 DEF PathTyped
<1> QED
  BY <1>6, <1>7, <1>8, <1>9, <1>10, <1>11 DEF PathOK, Q, S

(* _enter_file for the next file of a source line, in place of the one     *)
(* that was read                                                           *)
LEMMA PathTurns ==
    ASSUME NEW t \in Texts, NEW P, NEW R, PathOK(t, P, R), NEW L, L = Len(P), L > 1,
           P[L] \in Dones(t),
           NEW h \in Files, h \in Asked(t, P[L - 1], R[L - 1]), \A m \in 1..(L - 1) : P[m] # h
    PROVE  PathOK(t, [P EXCEPT ![L] = h], [R EXCEPT ![L] = 0])
<1> DEFINE Q == [P EXCEPT ![L] = h]
           S == [R EXCEPT ![L] = 0]
<1>1. P \in Seq(Files) /\ R \in Seq(Nat) /\ L = Len(R) /\ L = Len(P) /\ L \in Nat \ {0, 1}
  BY DEF PathOK, PathTyped
<1>0. L \in 1..Len(P) /\ \A m \in 1..(L - 1) : m \in 1..Len(P) /\ m # L
  BY <1>1
<1>2. Q \in Seq(Files) /\ Len(Q) = L /\ Q[L] = h /\ \A m \in 1..(L - 1) : Q[m] = P[m]
  BY <1>1, <1>0, ExceptIs
<1>3. S \in Seq(Nat) /\ Len(S) = L /\ S[L] = 0 /\ \A m \in 1..(L - 1) : S[m] = R[m]
  <2>1. L \in 1..Len(R) /\ 0 \in Nat /\ \A m \in 1..(L - 1) : m \in 1..Len(R) /\ m # L
    BY <1>1
  <2>2. /\ S \in Seq(Nat) /\ Len(S) = Len(R) /\ S[L] = 0
        /\ \A m \in 1..Len(R) : m # L => S[m] = R[m]
    <3>1. R \in Seq(Nat)
      BY <1>1
    <3> QED
      BY <2>1, <3>1, ExceptIs
  <2> QED
    BY <1>1, <2>1, <2>2
<1> HIDE DEF Q, S
<1>4. \A m \in 1..(L - 1) : m \in 1..L /\ (m = L - 1 \/ m + 1 \in 1..(L - 1))
  BY <1>1
<1>5. L - 1 \in 1..(L - 1) /\ (L - 1) + 1 = L /\ \A m \in 1..L : m = L \/ m \in 1..(L - 1)
  BY <1>1
<1>6. PathRead(t, Q, S)
  <2>1. ReadTo(t, h, 0)
    BY DEF ReadTo, Texts
  <2>2. \A m \in 1..(L - 1) : ReadTo(t, P[m], R[m])
    BY <1>4 DEF PathOK, PathRead
  <2> QED
    BY <1>2, <1>3, <1>5, <2>1, <2>2 DEF PathRead
<1>7. PathSourced(t, Q, S)
  <2>1. \A m \in 1..(L - 1) : Sources(t, P[m], R[m], P[m + 1])
    BY DEF PathOK, PathSourced
  <2>2. Sources(t, P[L - 1], R[L - 1], h)
    BY <1>5, <2>1 DEF Sources
  <2>3. ASSUME NEW m \in 1..(L - 1) PROVE Sources(t, Q[m], S[m], Q[m + 1])
    <3>1. CASE m = L - 1
      BY <1>2, <1>3, <1>5, <2>2, <3>1
    <3>2. CASE m + 1 \in 1..(L - 1)
      BY <1>2, <1>3, <2>1, <3>2
    <3> QED
      BY <1>4, <3>1, <3>2
  <2> QED
    BY <1>2, <2>3 DEF PathSourced
<1>8. PathDistinct(Q)
  <2>1. \A m, l \in 1..L : P[m] = P[l] => m = l
    BY DEF PathOK, PathDistinct
  <2> QED
    BY <1>2, <1>4, <1>5, <2>1 DEF PathDistinct
<1>9. PathDone(t, Q, S)
  <2>1. \A m \in 1..(L - 1) : DoneTo(t, P[m], R[m] - 1)
    BY DEF PathOK, PathDone
  <2>2. DoneTo(t, h, 0)
    BY DEF DoneTo
  <2> QED
    BY <1>2, <1>3, <2>1, <2>2 DEF PathDone
<1>10. PathCovers(t, Q)
  <2>1. ASSUME NEW e \in Files, t[e] # <<>>, e \notin Dones(t) PROVE \E m \in 1..Len(Q) : Q[m] = e
    <3>1. PICK m \in 1..L : P[m] = e
      BY <2>1 DEF PathOK, PathCovers
    <3>2. m # L
      BY <2>1, <3>1
    <3> QED
      BY SMTT(30), <1>1, <1>2, <3>1, <3>2
  <2> QED
    BY <2>1 DEF PathCovers
<1>11. PathTyped(Q, S)
  BY <1>1, <1>2, <1>3 DEF PathTyped
<1> QED
  BY <1>6, <1>7, <1>8, <1>9, <1>10, <1>11 DEF PathOK, Q, S

(* A file on the path that a file further on asks for sources itself. *)
LEMMA PathLoops ==
    ASSUME NEW t \in Texts, NEW P, NEW R, PathOK(t, P, R), NEW k \in 1..Len(P),
           NEW m \in 1..k, NEW i \in 1..Len(t[P[k]]), IsSource(t, P[k], i),
           P[m] \in Asked(t, P[k], i)
    PROVE  SourcesItself(t, P[m])
<1>1. P \in Seq(Files) /\ R \in Seq(Nat) /\ Len(P) = Len(R) /\ \A j \in 1..k : P[j] \in Files
  BY DEF PathOK, PathTyped
<1> SUFFICES ASSUME NEW fs \in SUBSET Files, Sourced(t, fs \cup {P[m]}) \subseteq fs, P[m] \notin fs
             PROVE  FALSE
  BY DEF SourcesItself
<1>2. fs \cup {P[m]} \in SUBSET Files
  BY <1>1
<1>3. ASSUME NEW f \in fs \cup {P[m]}, NEW n \in 1..Len(t[f]), IsSource(t, f, n),
             NEW h \in Asked(t, f, n)
      PROVE  h \in fs
  BY <1>2, <1>3, InSourced DEF IsSource, Asked
<1> DEFINE Missing == {j \in (m + 1)..k : P[j] \notin fs}
<1>4. Missing = {}
  <2> SUFFICES ASSUME Missing # {} PROVE FALSE
    OBVIOUS
  <2>1. Missing \subseteq Nat
    OBVIOUS
  <2>2. PICK j \in Missing : \A l \in Missing : j <= l
    BY <2>1, MinOfNats
  <2>3. j \in (m + 1)..k /\ P[j] \notin fs
    BY <2>2
  <2>4. j - 1 \in m..k /\ j - 1 \in 1..(Len(P) - 1) /\ j - 1 \in 1..Len(P) /\ (j - 1) + 1 = j
    BY <1>1, <2>3
  <2>5. P[j - 1] \in fs \cup {P[m]}
    <3>1. j - 1 \notin Missing
      BY <2>2, <2>4
    <3> QED
      BY <2>4, <3>1
  <2>6. Sources(t, P[j - 1], R[j - 1], P[j])
    BY <2>4 DEF PathOK, PathSourced
  <2>7. R[j - 1] \in 1..Len(t[P[j - 1]])
    <3>1. ReadTo(t, P[j - 1], R[j - 1])
      BY <2>4 DEF PathOK, PathRead
    <3>3. R[j - 1] \in Nat
      BY SMTT(30), <1>1, <2>4
    <3>2. Len(t[P[j - 1]]) \in Nat
      BY <1>2, <2>5 DEF Texts
    <3> QED
      BY <2>6, <3>1, <3>2, <3>3 DEF ReadTo, Sources
  <2> QED
    BY <1>3, <2>3, <2>5, <2>6, <2>7 DEF Sources
<1>5. P[k] \in fs \cup {P[m]}
  BY <1>4
<1> QED
  BY <1>3, <1>5

-----------------------------------------------------------------------------
(* What the _parse_block() calls B are: K says of each at which of the open*)
(* files it is, at which of its lines the block was opened (0 for the call *)
(* of the file itself), and how deep the block is in it.                   *)
CallRecords == [level : Nat, at : Nat, depth : Nat]

CallsNest(P, K) ==
    /\ K \in Seq(CallRecords) /\ Len(K) > 0
    /\ K[1].at = 0 /\ K[1].level = 1 /\ K[Len(K)].level = Len(P)
    /\ \A k \in 1..Len(K) : K[k].level \in 1..Len(P) /\ (K[k].at = 0 => K[k].depth = 0)
    /\ \A k \in 1..(Len(K) - 1) :
          IF K[k + 1].at = 0 THEN K[k + 1].level = K[k].level + 1
          ELSE K[k + 1].level = K[k].level /\ K[k + 1].depth = K[k].depth + 1
    /\ \A k, l \in 1..Len(K) : k < l /\ K[k].level = K[l].level => K[k].depth < K[l].depth

(* The call of a block: what ends it, and that it was not ended yet *)
OpenAt(lines, n, end, call) ==
    IF call.at = 0 THEN end = "eof"
    ELSE /\ call.at \in 1..n /\ lines[call.at].t \in Blocks /\ end = EndOf[lines[call.at].t]
         /\ Depth(lines, call.at) = call.depth
         /\ \A l \in (call.at)..n : Depth(lines, l) >= call.depth

Calls(t, P, R, B, K) ==
    /\ Len(B) = Len(K)
    /\ \A k \in 1..Len(K) : OpenAt(t[P[K[k].level]], R[K[k].level], B[k].end, K[k])

(* The last call of a file is the block that its last line is in. *)
CallsDeep(t, P, R, K) ==
    /\ Depth(t[P[Len(P)]], R[Len(P)]) = K[Len(K)].depth
    /\ \A k \in 1..(Len(K) - 1) : K[k + 1].at = 0 =>
          Depth(t[P[K[k].level]], R[K[k].level]) = K[k].depth

(* Every block that was opened is ended, or has a call. *)
AllCalled(t, P, R, K) ==
    \A m \in 1..Len(P) : \A i \in 1..R[m] : t[P[m]][i].t \in Blocks =>
        Matched(t[P[m]], R[m], i) \/ \E k \in 1..Len(K) : K[k].level = m /\ K[k].at = i

(* What is left of the files of a source line when h of them is read *)
RestOf(t, f, n, h, rest) ==
    \E files \in {t[f][n].files} : \E p \in 1..Len(files) :
        /\ files[p] = h /\ rest = SubSeq(files, p + 1, Len(files))
        /\ \A q \in 1..(p - 1) : files[q] \in Dones(t)

Rests(t, P, R, B, K) ==
    /\ B[1].rest = <<>>
    /\ \A k \in 1..(Len(K) - 1) : K[k + 1].at = 0 =>
          RestOf(t, P[K[k].level], R[K[k].level], P[K[k].level + 1], B[k + 1].rest)

CallsOK(t, P, R, B, K) ==
    /\ CallsNest(P, K) /\ Calls(t, P, R, B, K) /\ CallsDeep(t, P, R, K)
    /\ AllCalled(t, P, R, K) /\ Rests(t, P, R, B, K)

(* What the calls are described by are numbers. *)
LEMMA NestTypes ==
    ASSUME NEW P, NEW K, CallsNest(P, K)
    PROVE  /\ Len(K) \in Nat \ {0}
           /\ \A k \in 1..Len(K) : K[k].level \in Nat /\ K[k].at \in Nat /\ K[k].depth \in Nat
<1>1. K \in Seq(CallRecords) /\ Len(K) > 0
  BY DEF CallsNest
<1>2. \A k \in 1..Len(K) : K[k] \in CallRecords
  BY <1>1
<1> QED
  BY <1>1, <1>2 DEF CallRecords

(* What the lines of a file say stays when a line is added to it. *)
LEMMA FactsGrow ==
    ASSUME NEW lines, NEW more, NEW n \in Nat, Agree(lines, more, n)
    PROVE  /\ Depth(more, n) = Depth(lines, n)
           /\ \A end, call : call.at \in Nat =>
                 (OpenAt(more, n, end, call) <=> OpenAt(lines, n, end, call))
           /\ \A i \in 1..n : Matched(more, n, i) <=> Matched(lines, n, i)
<1>1. \A l \in 0..n : Depth(more, l) = Depth(lines, l)
  BY DepthSame
<1>2. \A i, j \in 1..n : Matching(more, i, j) <=> Matching(lines, i, j)
  BY MatchingSame
<1>3. ASSUME NEW end, NEW call, call.at \in 1..n
      PROVE  OpenAt(more, n, end, call) <=> OpenAt(lines, n, end, call)
  <2>1. more[call.at] = lines[call.at]
    BY <1>3 DEF Agree
  <2>2. \A l \in (call.at)..n : l \in 0..n
    BY <1>3
  <2>3. call.at \in 0..n
    BY <1>3
  <2> QED
    BY <1>1, <2>1, <2>2, <2>3 DEF OpenAt
<1>4. \A end, call : call.at \in Nat =>
                 (OpenAt(more, n, end, call) <=> OpenAt(lines, n, end, call))
  BY <1>3 DEF OpenAt
<1> QED
  BY <1>1, <1>2, <1>4 DEF Matched

(* _next_line: the calls go on in the text with the line that was read. *)
LEMMA CallsGrow ==
    ASSUME NEW t \in Texts, NEW P, NEW R, PathOK(t, P, R), NEW u, NEW n, NEW line,
           Read(t, u, P[Len(P)], n, line), Dones(t) \subseteq Dones(u),
           NEW B, NEW K, CallsOK(t, P, R, B, K)
    PROVE  CallsOK(u, P, R, B, K)
<1>1. P \in Seq(Files) /\ R \in Seq(Nat) /\ Len(P) = Len(R) /\ Len(P) \in Nat \ {0}
  BY DEF PathOK, PathTyped
<1>2. P[Len(P)] \in Files
  BY <1>1
<1>3. \A h \in Files : Len(t[h]) \in Nat /\ Agree(t[h], u[h], Len(t[h]))
  BY <1>2, ReadAgrees
<1>4. ASSUME NEW m \in 1..Len(P)
      PROVE  /\ R[m] \in Nat /\ Agree(t[P[m]], u[P[m]], R[m])
             /\ R[m] # 0 => u[P[m]][R[m]] = t[P[m]][R[m]]
  <2>1. ReadTo(t, P[m], R[m]) /\ P[m] \in Files /\ R[m] \in Nat
    BY <1>1 DEF PathOK, PathRead
  <2> QED
    BY <1>3, <2>1 DEF ReadTo, Agree
<1>5. ASSUME NEW m \in 1..Len(P)
      PROVE  /\ Depth(u[P[m]], R[m]) = Depth(t[P[m]], R[m])
             /\ \A end, call : call.at \in Nat =>
                   (OpenAt(u[P[m]], R[m], end, call) <=> OpenAt(t[P[m]], R[m], end, call))
             /\ \A i \in 1..R[m] : Matched(u[P[m]], R[m], i) <=> Matched(t[P[m]], R[m], i)
  BY <1>4, FactsGrow
<1>6. /\ CallsNest(P, K) /\ Len(K) \in Nat \ {0}
      /\ \A k \in 1..Len(K) : K[k].level \in 1..Len(P) /\ K[k].at \in Nat
  BY NestTypes DEF CallsOK, CallsNest
<1>7. Calls(u, P, R, B, K)
  BY <1>5, <1>6 DEF CallsOK, Calls
<1>8. CallsDeep(u, P, R, K)
  <2>1. Len(P) \in 1..Len(P) /\ \A k \in 1..(Len(K) - 1) : k \in 1..Len(K)
    BY <1>1, <1>6
  <2> QED
    BY <1>5, <1>6, <2>1 DEF CallsOK, CallsDeep
<1>9. AllCalled(u, P, R, K)
  <2>1. \A m \in 1..Len(P) : \A i \in 1..R[m] : u[P[m]][i] = t[P[m]][i]
    BY <1>4 DEF Agree
  <2> QED
    BY <1>5, <2>1 DEF CallsOK, AllCalled
<1>10. Rests(u, P, R, B, K)
  <2>1. ASSUME NEW k \in 1..(Len(K) - 1), K[k + 1].at = 0
        PROVE  RestOf(u, P[K[k].level], R[K[k].level], P[K[k].level + 1], B[k + 1].rest)
    <3>1. RestOf(t, P[K[k].level], R[K[k].level], P[K[k].level + 1], B[k + 1].rest)
      BY <2>1 DEF CallsOK, Rests
    <3>2. K[k].level \in 1..(Len(P) - 1)
      <4>1. k \in 1..Len(K) /\ k + 1 \in 1..Len(K)
        BY <1>6
      <4>2. K[k + 1].level = K[k].level + 1
        BY <1>6, <2>1 DEF CallsNest
      <4>3. K[k].level \in 1..Len(P) /\ K[k + 1].level \in 1..Len(P)
        BY <1>6, <4>1 DEF CallsNest
      <4>4. Len(P) \in Nat
        BY <1>1
      <4> QED
        BY <4>2, <4>3, <4>4
    <3>3. Sources(t, P[K[k].level], R[K[k].level], P[K[k].level + 1]) /\ K[k].level \in 1..Len(P)
      <4>1. \A m \in 1..(Len(P) - 1) : Sources(t, P[m], R[m], P[m + 1]) /\ m \in 1..Len(P)
        BY <1>1 DEF PathOK, PathSourced
      <4> QED
        BY <3>2, <4>1
    <3>4. u[P[K[k].level]][R[K[k].level]] = t[P[K[k].level]][R[K[k].level]]
      <4>1. \A m \in 1..Len(P) : R[m] > 0 => u[P[m]][R[m]] = t[P[m]][R[m]]
        <5> SUFFICES ASSUME NEW m \in 1..Len(P), R[m] > 0
                     PROVE  u[P[m]][R[m]] = t[P[m]][R[m]]
          OBVIOUS
        <5>1. R[m] # 0
          BY <1>4
        <5> QED
          BY <1>4, <5>1
      <4>2. R[K[k].level] > 0
        BY <3>3 DEF Sources
      <4> QED
        BY <3>3, <4>1, <4>2
    <3> QED
      BY <3>1, <3>4 DEF RestOf
  <2> QED
    BY <2>1 DEF CallsOK, Rests
<1> QED
  BY <1>6, <1>7, <1>8, <1>9, <1>10 DEF CallsOK

(* The next line of the current file, and the positions when it is read *)
Current(P) == P[Len(P)]
NextOf(t, P, R) == t[P[Len(P)]][R[Len(R)] + 1]
More(R) == [R EXCEPT ![Len(R)] = R[Len(R)] + 1]

(* One line more was read of the current file. *)
LEMMA MoreIs ==
    ASSUME NEW P, NEW R, PathTyped(P, R)
    PROVE  /\ PathTyped(P, More(R)) /\ More(R)[Len(P)] = R[Len(P)] + 1
           /\ \A m \in 1..Len(P) : m # Len(P) => More(R)[m] = R[m]
           /\ \A m \in 1..Len(P) : P[m] \in Files /\ R[m] \in Nat /\ More(R)[m] \in Nat
           /\ Len(R) = Len(P) /\ Len(P) \in Nat \ {0} /\ Len(P) \in 1..Len(P)
<1>1. P \in Seq(Files) /\ R \in Seq(Nat) /\ Len(P) = Len(R) /\ Len(R) \in Nat \ {0}
  BY DEF PathTyped
<1>2. Len(R) \in 1..Len(R) /\ R[Len(R)] \in Nat /\ \A m \in 1..Len(R) : R[m] \in Nat
  BY <1>1
<1>3. /\ More(R) \in Seq(Nat) /\ Len(More(R)) = Len(R) /\ More(R)[Len(R)] = R[Len(R)] + 1
      /\ \A m \in 1..Len(R) : m # Len(R) => More(R)[m] = R[m]
  BY <1>1, <1>2, ExceptIs DEF More
<1>4. \A m \in 1..Len(P) : P[m] \in Files
  BY <1>1
<1>5. \A m \in 1..Len(R) : More(R)[m] \in Nat
  BY <1>3
<1> QED
  BY <1>1, <1>2, <1>3, <1>4, <1>5 DEF PathTyped

(* The call of a file is made at a line of a file before it. *)
LEMMA LowerLevel ==
    ASSUME NEW P, NEW K, CallsNest(P, K), NEW k \in 1..(Len(K) - 1), K[k + 1].at = 0
    PROVE  K[k].level \in 1..(Len(P) - 1) /\ k \in 1..Len(K) /\ k + 1 \in 1..Len(K)
<1>1. k \in 1..Len(K) /\ k + 1 \in 1..Len(K) /\ k \in Nat
  BY NestTypes
<1>2. K[k + 1].level = K[k].level + 1 /\ K[k + 1].level \in 1..Len(P) /\ K[k].level \in 1..Len(P)
  BY <1>1 DEF CallsNest
<1> QED
  BY <1>1, <1>2

(* The last call is the deepest of its file. *)
LEMMA LastDeepest ==
    ASSUME NEW P, NEW K, CallsNest(P, K), NEW k \in 1..Len(K), K[k].level = Len(P)
    PROVE  K[k].depth <= K[Len(K)].depth /\ (k # Len(K) => K[k].depth < K[Len(K)].depth)
<1>1. Len(K) \in Nat \ {0} /\ Len(K) \in 1..Len(K) /\ K[k].depth \in Nat /\ K[Len(K)].depth \in Nat
  <2>1. Len(K) \in Nat \ {0} /\ \A l \in 1..Len(K) : K[l].depth \in Nat
    BY NestTypes
  <2> QED
    BY <2>1
<1>2. CASE k = Len(K)
  BY <1>1, <1>2
<1>3. CASE k # Len(K)
  <2>1. k < Len(K) /\ K[Len(K)].level = Len(P)
    BY <1>1, <1>3 DEF CallsNest
  <2>2. K[k].depth < K[Len(K)].depth
    BY <1>1, <2>1 DEF CallsNest
  <2> QED
    BY <1>1, <2>2
<1> QED
  BY <1>2, <1>3

(* A block stays open on a line that is no shallower than the block. *)
LEMMA OpenStays ==
    ASSUME NEW lines, NEW n \in Nat, NEW end, NEW call, call.at \in Nat,
           OpenAt(lines, n, end, call), Depth(lines, n + 1) >= call.depth
    PROVE  OpenAt(lines, n + 1, end, call)
<1>1. CASE call.at = 0
  BY <1>1 DEF OpenAt
<1>2. CASE call.at # 0
  <2>1. \A l \in (call.at)..(n + 1) : l = n + 1 \/ l \in (call.at)..n
    OBVIOUS
  <2> QED
    BY <1>2, <2>1 DEF OpenAt
<1> QED
  BY <1>1, <1>2

(* What a line of the current file leaves of the first M calls, if they    *)
(* are no deeper than the line; D are the calls then.                      *)
SameCalls(B, D, M) == \A k \in 1..M : D[k].end = B[k].end /\ D[k].rest = B[k].rest

OpenStill(t, P, Q, K, M, D) ==
    \A k \in 1..M : OpenAt(t[P[K[k].level]], Q[K[k].level], D[k].end, K[k])
DeepStill(t, P, Q, K, M) ==
    \A k \in 1..(M - 1) : K[k + 1].at = 0 => Depth(t[P[K[k].level]], Q[K[k].level]) = K[k].depth
CalledStill(t, P, Q, K) ==
    \A m \in 1..Len(P) : \A i \in 1..Q[m] : t[P[m]][i].t \in Blocks =>
        \/ Matched(t[P[m]], Q[m], i)
        \/ \E k \in 1..Len(K) : K[k].level = m /\ K[k].at = i
        \/ m = Len(P) /\ i = Q[Len(P)]
RestsStill(t, P, Q, K, M, D) ==
    /\ D[1].rest = <<>>
    /\ \A k \in 1..(M - 1) : K[k + 1].at = 0 =>
          RestOf(t, P[K[k].level], Q[K[k].level], P[K[k].level + 1], D[k + 1].rest)

(* The first M calls are kept by a line that ends none of them. *)
LEMMA CallsKept ==
    ASSUME NEW t \in Texts, NEW P, NEW R, PathTyped(P, R), NEW B, NEW K, CallsOK(t, P, R, B, K),
           NEW M \in 1..Len(K), NEW D, SameCalls(B, D, M),
           \A k \in 1..M : K[k].level = Len(P) =>
                              Depth(t[P[Len(P)]], R[Len(R)] + 1) >= K[k].depth
    PROVE  /\ OpenStill(t, P, More(R), K, M, D) /\ DeepStill(t, P, More(R), K, M)
           /\ CalledStill(t, P, More(R), K) /\ RestsStill(t, P, More(R), K, M, D)
<1> DEFINE L == Len(P)
           f == P[L]
           n == R[L]
           Q == More(R)
<1>1. /\ L \in Nat \ {0} /\ Len(R) = L /\ n \in Nat /\ Q[L] = n + 1
      /\ \A m \in 1..L : m # L => Q[m] = R[m]
      /\ \A m \in 1..L : R[m] \in Nat /\ Q[m] \in Nat
  BY MoreIs
<1> HIDE DEF Q
<1>3. /\ CallsNest(P, K) /\ Len(K) \in Nat \ {0}
      /\ \A k \in 1..Len(K) : K[k].level \in 1..L /\ K[k].at \in Nat /\ K[k].depth \in Nat
  BY NestTypes DEF CallsOK, CallsNest
<1>4. /\ \A k \in 1..M : k \in 1..Len(K) /\ D[k].end = B[k].end
      /\ \A k \in 1..M : D[k].rest = B[k].rest
  BY <1>3 DEF SameCalls
<1>5. ASSUME NEW k \in 1..M
      PROVE  OpenAt(t[P[K[k].level]], Q[K[k].level], D[k].end, K[k])
  <2>1. OpenAt(t[P[K[k].level]], R[K[k].level], D[k].end, K[k])
    BY <1>4 DEF CallsOK, Calls
  <2>2. CASE K[k].level # L
    BY <1>1, <1>3, <1>4, <2>1, <2>2
  <2>3. CASE K[k].level = L
    <3>1. K[k].at \in Nat /\ Depth(t[f], n + 1) >= K[k].depth
      BY <1>1, <1>3, <1>4, <2>3
    <3>2. OpenAt(t[f], n, D[k].end, K[k])
      BY <2>1, <2>3
    <3>3. OpenAt(t[f], n + 1, D[k].end, K[k])
      BY <1>1, <3>1, <3>2, OpenStays
    <3> QED
      BY <1>1, <2>3, <3>3
  <2> QED
    BY <2>2, <2>3
<1>6. ASSUME NEW k \in 1..(M - 1), K[k + 1].at = 0
      PROVE  /\ K[k].level \in 1..L /\ K[k].level # L /\ Q[K[k].level] = R[K[k].level]
             /\ k \in 1..(Len(K) - 1) /\ k + 1 \in 1..M
  <2>1. k \in 1..(Len(K) - 1) /\ k + 1 \in 1..M
    BY <1>3
  <2>2. K[k].level \in 1..(L - 1)
    BY <1>3, <1>6, <2>1, LowerLevel
  <2> QED
    BY <1>1, <2>1, <2>2
<1>7. DeepStill(t, P, Q, K, M)
  BY <1>6 DEF CallsOK, CallsDeep, DeepStill
<1>8. RestsStill(t, P, Q, K, M, D)
  <2>1. D[1].rest = <<>>
    <3>1. 1 \in 1..M
      BY <1>3
    <3> QED
      BY <1>4, <3>1 DEF CallsOK, Rests
  <2> QED
    BY <1>4, <1>6, <2>1 DEF CallsOK, Rests, RestsStill
<1>9. ASSUME NEW m \in 1..L, NEW i \in 1..Q[m], t[P[m]][i].t \in Blocks, ~(m = L /\ i = Q[L])
      PROVE  \/ Matched(t[P[m]], Q[m], i)
             \/ \E k \in 1..Len(K) : K[k].level = m /\ K[k].at = i
  <2>1. i \in 1..R[m] /\ R[m] \in Nat /\ R[m] <= Q[m] /\ Q[m] \in Nat
    BY <1>1, <1>9
  <2>2. \A j \in 1..R[m] : j \in 1..Q[m]
    BY <2>1
  <2> QED
    BY <1>9, <2>1, <2>2 DEF CallsOK, AllCalled, Matched
<1>10. OpenStill(t, P, Q, K, M, D) /\ CalledStill(t, P, Q, K)
  BY <1>5, <1>9 DEF OpenStill, CalledStill
<1> QED
  BY <1>7, <1>8, <1>10 DEF Q

(* Any line but one that begins or ends a block *)
LEMMA CallsAdvance ==
    ASSUME NEW t \in Texts, NEW P, NEW R, PathTyped(P, R), NEW B, NEW K, CallsOK(t, P, R, B, K),
           NextOf(t, P, R).t \notin Blocks \cup Ends,
           NEW D, Len(D) = Len(B), SameCalls(B, D, Len(B))
    PROVE  CallsOK(t, P, More(R), D, K)
<1> DEFINE Q == More(R)
           L == Len(P)
           f == P[L]
           n == R[Len(R)]
<1>1. Len(R) = L /\ L \in Nat \ {0} /\ n \in Nat /\ Q[L] = n + 1
  BY MoreIs
<1>2. /\ Depth(t[f], n + 1) = Depth(t[f], n) /\ Depth(t[f], n) \in Int
  BY <1>1, DepthStep DEF NextOf
<1>3. CallsNest(P, K) /\ Len(K) \in 1..Len(K) /\ Len(B) = Len(K) /\ K[Len(K)].level = L
  <2>1. CallsNest(P, K) /\ Len(B) = Len(K) /\ K[Len(K)].level = L
    BY DEF CallsOK, CallsNest, Calls
  <2> QED
    BY <2>1, NestTypes
<1>4. Depth(t[f], n) = K[Len(K)].depth
  BY <1>1 DEF CallsOK, CallsDeep
<1>5. \A k \in 1..Len(K) : K[k].level = Len(P) => Depth(t[f], n + 1) >= K[k].depth
  BY <1>2, <1>3, <1>4, LastDeepest
<1> HIDE DEF Q
<1>6. /\ OpenStill(t, P, Q, K, Len(K), D) /\ DeepStill(t, P, Q, K, Len(K))
      /\ CalledStill(t, P, Q, K) /\ RestsStill(t, P, Q, K, Len(K), D)
  BY <1>3, <1>5, CallsKept DEF Q
<1>7. Calls(t, P, Q, D, K)
  BY <1>3, <1>6 DEF Calls, OpenStill
<1>8. CallsDeep(t, P, Q, K)
  BY <1>1, <1>2, <1>4, <1>6 DEF CallsDeep, DeepStill
<1>9. AllCalled(t, P, Q, K)
  <2>1. t[f][n + 1].t \notin Blocks
    BY DEF NextOf
  <2> QED
    BY <1>1, <1>6, <2>1 DEF AllCalled, CalledStill
<1>10. Rests(t, P, Q, D, K)
  BY <1>6 DEF Rests, RestsStill
<1> QED
  BY <1>3, <1>7, <1>8, <1>9, <1>10 DEF CallsOK, Q

(* One call more, of a block of the current file or of a file it sources *)
LEMMA NestGrows ==
    ASSUME NEW P, NEW K, CallsNest(P, K), Len(P) \in Nat \ {0},
           NEW call \in CallRecords, NEW Q,
           \/ call.at = 0 /\ call.depth = 0 /\ call.level = Len(P) + 1 /\ Len(Q) = Len(P) + 1
           \/ /\ call.at # 0 /\ call.level = Len(P) /\ Len(Q) = Len(P)
              /\ call.depth = K[Len(K)].depth + 1
    PROVE  CallsNest(Q, Append(K, call))
<1> DEFINE J == Append(K, call)
           len == Len(K)
           L == Len(P)
<1>1. /\ len \in Nat \ {0} /\ len \in 1..len /\ K[len].level = L /\ K[1].at = 0 /\ K[1].level = 1
      /\ \A k \in 1..len : /\ K[k].level \in 1..L /\ (K[k].at = 0 => K[k].depth = 0)
                           /\ K[k].level \in Nat /\ K[k].depth \in Nat
  <2>1. len \in Nat \ {0} /\ \A k \in 1..len : K[k].level \in Nat /\ K[k].depth \in Nat
    BY NestTypes
  <2> QED
    BY <2>1 DEF CallsNest
<1>2. /\ J \in Seq(CallRecords) /\ Len(J) = len + 1 /\ J[len + 1] = call
      /\ \A k \in 1..len : J[k] = K[k]
  BY AppendIs DEF CallsNest
<1>3. \A k \in 1..(len - 1) :
          IF K[k + 1].at = 0 THEN K[k + 1].level = K[k].level + 1
          ELSE K[k + 1].level = K[k].level /\ K[k + 1].depth = K[k].depth + 1
  BY DEF CallsNest
<1>4. \A k, l \in 1..len : k < l /\ K[k].level = K[l].level => K[k].depth < K[l].depth
  BY DEF CallsNest
<1>5. \A k \in 1..len : K[k].level = L => K[k].depth <= K[len].depth
  BY LastDeepest
<1> HIDE DEF J, len
<1>6. \A k \in 1..(len + 1) : k = len + 1 \/ k \in 1..len
  BY <1>1
<1>7. \A k \in 1..Len(J) : J[k].level \in 1..Len(Q) /\ (J[k].at = 0 => J[k].depth = 0)
  BY <1>1, <1>2, <1>6
<1>8. ASSUME NEW k \in 1..(Len(J) - 1)
      PROVE  IF J[k + 1].at = 0 THEN J[k + 1].level = J[k].level + 1
             ELSE J[k + 1].level = J[k].level /\ J[k + 1].depth = J[k].depth + 1
  <2>1. k \in 1..len
    BY <1>1, <1>2
  <2>2. CASE k = len
    BY <1>1, <1>2, <2>1, <2>2 DEF len
  <2>3. CASE k # len
    <3>1. k \in 1..(len - 1) /\ k + 1 \in 1..len
      BY <1>1, <2>1, <2>3
    <3>2. J[k] = K[k]
      BY <1>2, <2>1
    <3>3. J[k + 1] = K[k + 1]
      BY <1>2, <3>1
    <3> QED
      BY <1>3, <3>1, <3>2, <3>3
  <2> QED
    BY <2>2, <2>3
<1>9. ASSUME NEW k \in 1..Len(J), NEW l \in 1..Len(J), k < l, J[k].level = J[l].level
      PROVE  J[k].depth < J[l].depth
  <2>1. k \in 1..len /\ J[k] = K[k]
    BY <1>1, <1>2, <1>9
  <2>2. CASE l = len + 1
    <3>1. J[l] = call /\ K[k].level = call.level
      BY <1>2, <1>9, <2>1, <2>2
    <3>2. call.level = L /\ call.depth = K[len].depth + 1
      <4>1. K[k].level \in 1..L /\ L \in Nat
        BY <1>1, <2>1
      <4>2. call.level # L + 1
        BY <3>1, <4>1
      <4> QED
        BY <4>2 DEF len
    <3>3. K[k].depth \in Nat /\ K[len].depth \in Nat
      BY <1>1, <2>1
    <3>4. K[k].depth <= K[len].depth
      BY <1>5, <2>1, <3>1, <3>2
    <3>5. J[k].depth = K[k].depth /\ J[l].depth = K[len].depth + 1
      BY <2>1, <3>1, <3>2
    <3> QED
      BY <3>3, <3>4, <3>5
  <2>3. CASE l \in 1..len
    BY <1>2, <1>4, <1>9, <2>1, <2>3
  <2> QED
    BY <1>2, <1>6, <2>2, <2>3
<1>10. Len(J) > 0 /\ J[1].at = 0 /\ J[1].level = 1 /\ J[Len(J)].level = Len(Q)
  BY <1>1, <1>2
<1> QED
  BY <1>2, <1>7, <1>8, <1>9, <1>10 DEF CallsNest, J

(* One call less: of a block, or of a file *)
LEMMA NestShrinks ==
    ASSUME NEW P, NEW K, CallsNest(P, K), Len(P) \in Nat \ {0}, Len(K) > 1, NEW Q,
           Len(Q) = IF K[Len(K)].at = 0 THEN Len(P) - 1 ELSE Len(P)
    PROVE  CallsNest(Q, Front(K)) /\ Len(Front(K)) = Len(K) - 1
           /\ \A k \in 1..(Len(K) - 1) : Front(K)[k] = K[k]
<1> DEFINE J == Front(K)
           len == Len(K)
           L == Len(P)
<1>1. /\ len \in Nat \ {0, 1} /\ K[len].level = L /\ K[1].at = 0 /\ K[1].level = 1
      /\ \A k \in 1..len : /\ K[k].level \in 1..L /\ (K[k].at = 0 => K[k].depth = 0)
                           /\ K[k].level \in Nat /\ K[k].depth \in Nat
  <2>1. len \in Nat \ {0} /\ \A k \in 1..len : K[k].level \in Nat /\ K[k].depth \in Nat
    BY NestTypes
  <2> QED
    BY <2>1 DEF CallsNest
<1>2. /\ J \in Seq(CallRecords) /\ Len(J) = len - 1 /\ \A k \in 1..(len - 1) : J[k] = K[k]
  BY FrontIs DEF CallsNest
<1>3. \A k \in 1..(len - 1) :
          IF K[k + 1].at = 0 THEN K[k + 1].level = K[k].level + 1
          ELSE K[k + 1].level = K[k].level /\ K[k + 1].depth = K[k].depth + 1
  BY DEF CallsNest
<1>4. \A k, l \in 1..len : k < l /\ K[k].level = K[l].level => K[k].depth < K[l].depth
  BY DEF CallsNest
<1> HIDE DEF J, len
<1>5. \A k \in 1..(len - 1) : k \in 1..len /\ k < len
  BY <1>1
<1>6. len - 1 \in 1..(len - 1) /\ (len - 1) + 1 = len
  BY <1>1
<1>7. K[len - 1].level = Len(Q)
  <2>1. IF K[len].at = 0 THEN K[len].level = K[len - 1].level + 1
        ELSE K[len].level = K[len - 1].level /\ K[len].depth = K[len - 1].depth + 1
    BY <1>3, <1>6
  <2>2. Len(Q) = IF K[len].at = 0 THEN L - 1 ELSE L
    BY DEF len
  <2>3. K[len].level = L /\ K[len - 1].level \in Nat
    BY <1>1, <1>5, <1>6
  <2>4. CASE K[len].at = 0
    <3>1. L = K[len - 1].level + 1 /\ Len(Q) = L - 1
      BY <2>1, <2>2, <2>3, <2>4
    <3> QED
      BY <2>3, <3>1
  <2>5. CASE K[len].at # 0
    BY <2>1, <2>2, <2>3, <2>5
  <2> QED
    BY <2>4, <2>5
<1>8. ASSUME NEW k \in 1..(len - 1) PROVE K[k].level \in 1..Len(Q)
  <2>1. CASE K[len].at = 0
    <3>1. K[k].level # L
      <4>1. len \in 1..len /\ k \in 1..len /\ k < len
        BY <1>1, <1>5
      <4>2. K[len].depth = 0 /\ K[len].level = L
        BY <1>1, <2>1, <4>1
      <4>3. K[k].depth \in Nat
        BY <1>1, <4>1
      <4>4. K[k].level = K[len].level => K[k].depth < K[len].depth
        BY <1>4, <4>1
      <4> QED
        BY <4>2, <4>3, <4>4
    <3> QED
      BY <1>1, <1>5, <2>1, <3>1 DEF len
  <2>2. CASE K[len].at # 0
    BY <1>1, <1>5, <2>2 DEF len
  <2> QED
    BY <2>1, <2>2
<1>9. \A k \in 1..Len(J) : J[k].level \in 1..Len(Q) /\ (J[k].at = 0 => J[k].depth = 0)
  BY <1>1, <1>2, <1>5, <1>8
<1>10. ASSUME NEW k \in 1..(Len(J) - 1)
       PROVE  IF J[k + 1].at = 0 THEN J[k + 1].level = J[k].level + 1
              ELSE J[k + 1].level = J[k].level /\ J[k + 1].depth = J[k].depth + 1
  <2>1. Len(J) = len - 1
    BY <1>2
  <2>2. k \in 1..(len - 1) /\ k + 1 \in 1..(len - 1)
    BY <1>1, <2>1
  <2>3. J[k] = K[k]
    BY <1>2, <2>2
  <2>4. J[k + 1] = K[k + 1]
    BY <1>2, <2>2
  <2> QED
    BY <1>3, <2>2, <2>3, <2>4
<1>11. \A k, l \in 1..Len(J) : k < l /\ J[k].level = J[l].level => J[k].depth < J[l].depth
  BY <1>2, <1>4, <1>5
<1>12. Len(J) > 0 /\ J[1].at = 0 /\ J[1].level = 1 /\ J[Len(J)].level = Len(Q)
  BY <1>1, <1>2, <1>6, <1>7
<1>13. CallsNest(Q, J)
  BY <1>2, <1>9, <1>10, <1>11, <1>12 DEF CallsNest
<1> QED
  BY <1>2, <1>13 DEF J, len

BlockCall(P, R, K) == [level |-> Len(P), at |-> R[Len(R)] + 1, depth |-> K[Len(K)].depth + 1]

(* menu, choice and if: a call more *)
LEMMA CallsPush ==
    ASSUME NEW t \in Texts, NEW P, NEW R, PathTyped(P, R), NEW B, NEW K, CallsOK(t, P, R, B, K),
           NextOf(t, P, R).t \in Blocks,
           NEW D, Len(D) = Len(B) + 1, SameCalls(B, D, Len(B)),
           D[Len(B) + 1].end = EndOf[NextOf(t, P, R).t]
    PROVE  CallsOK(t, P, More(R), D, Append(K, BlockCall(P, R, K)))
<1> DEFINE call == BlockCall(P, R, K)
           J == Append(K, call)
           len == Len(K)
           lines == t[P[Len(P)]]
           n == R[Len(R)]
           Q == More(R)
<1>1. /\ CallsNest(P, K) /\ Len(B) = len /\ len \in Nat \ {0} /\ len \in 1..len
      /\ \A k \in 1..len : K[k].level \in Nat /\ K[k].at \in Nat /\ K[k].depth \in Nat
      /\ Len(P) \in Nat \ {0} /\ n \in Nat /\ Len(R) = Len(P) /\ Q[Len(P)] = n + 1
  <2>1. CallsNest(P, K) /\ Len(B) = len
    BY DEF CallsOK, Calls
  <2>2. /\ len \in Nat \ {0}
        /\ \A k \in 1..len : K[k].level \in Nat /\ K[k].at \in Nat /\ K[k].depth \in Nat
    BY <2>1, NestTypes
  <2>3. Len(P) \in Nat \ {0} /\ n \in Nat /\ Len(R) = Len(P) /\ Q[Len(P)] = n + 1
    BY MoreIs
  <2> QED
    BY <2>1, <2>2, <2>3
<1>2. Depth(lines, n) = K[len].depth
  BY DEF CallsOK, CallsDeep, PathTyped
<1>3. lines[n + 1].t \in Blocks /\ Depth(lines, n + 1) = K[len].depth + 1
  <2>1. lines[n + 1].t \in Blocks
    BY DEF NextOf
  <2>2. n \in Nat
    BY <1>1
  <2>3. Depth(lines, n + 1) = Depth(lines, n) + 1
    BY <2>1, <2>2, DepthStep
  <2> QED
    BY <1>2, <2>1, <2>3
<1>4. \A k \in 1..len : K[k].level = Len(P) => Depth(lines, n + 1) >= K[k].depth
  <2>1. \A k \in 1..len : K[k].level = Len(P) => K[k].depth <= K[len].depth
    BY <1>1, LastDeepest
  <2> QED
    BY <1>1, <1>3, <2>1
<1>5. /\ OpenStill(t, P, Q, K, len, D) /\ DeepStill(t, P, Q, K, len)
      /\ CalledStill(t, P, Q, K) /\ RestsStill(t, P, Q, K, len, D)
  <2>1. len \in 1..len /\ SameCalls(B, D, len)
    BY <1>1
  <2> QED
    BY <1>4, <2>1, CallsKept
<1>6. /\ call \in CallRecords /\ call.at = n + 1 /\ call.level = Len(P)
      /\ call.depth = K[len].depth + 1
  BY <1>1 DEF CallRecords, BlockCall
<1>7. K \in Seq(CallRecords)
  BY <1>1 DEF CallsNest
<1>8. Len(J) = len + 1 /\ J[len + 1] = call /\ \A k \in 1..len : J[k] = K[k]
  BY <1>6, <1>7, AppendIs
<1>9. CallsNest(P, J)
  BY <1>1, <1>6, NestGrows
<1> HIDE DEF J, call, Q, lines, n
<1>10. \A k \in 1..(len + 1) : k = len + 1 \/ k \in 1..len
  BY <1>1
<1>11. Calls(t, P, Q, D, J)
  <2>1. \A k \in 1..len : OpenAt(t[P[J[k].level]], Q[J[k].level], D[k].end, J[k])
    BY <1>5, <1>8 DEF OpenStill
  <2>2. OpenAt(lines, n + 1, D[len + 1].end, call)
    <3>1. D[len + 1].end = EndOf[lines[n + 1].t]
      BY <1>1 DEF NextOf, lines, n
    <3>2. call.at \in 1..(n + 1) /\ call.at # 0 /\ \A l \in (call.at)..(n + 1) : l = n + 1
      BY <1>1, <1>6
    <3>3. Depth(lines, n + 1) = call.depth /\ call.depth \in Nat
      BY <1>1, <1>3, <1>6
    <3> QED
      BY <1>3, <1>6, <3>1, <3>2, <3>3 DEF OpenAt
  <2>3. OpenAt(t[P[J[len + 1].level]], Q[J[len + 1].level], D[len + 1].end, J[len + 1])
    BY <1>1, <1>6, <1>8, <2>2 DEF lines
  <2>4. Len(D) = Len(J)
    BY <1>1, <1>8
  <2> QED
    BY <1>8, <1>10, <2>1, <2>3, <2>4 DEF Calls
<1>12. CallsDeep(t, P, Q, J)
  <2>1. Depth(t[P[Len(P)]], Q[Len(P)]) = J[len + 1].depth
    BY <1>1, <1>3, <1>6, <1>8 DEF lines
  <2>2. Len(Q) = Len(P)
    BY MoreIs DEF PathTyped, Q
  <2>3. ASSUME NEW k \in 1..(Len(J) - 1), J[k + 1].at = 0
        PROVE  Depth(t[P[J[k].level]], Q[J[k].level]) = J[k].depth
    <3>1. k \in 1..len
      BY <1>1, <1>8
    <3>2. k # len
      BY <1>1, <1>6, <1>8, <2>3
    <3>3. k \in 1..(len - 1) /\ k + 1 \in 1..len
      BY <1>1, <3>1, <3>2
    <3>4. J[k] = K[k] /\ J[k + 1] = K[k + 1]
      BY <1>8, <3>1, <3>3
    <3> QED
      BY <1>5, <2>3, <3>3, <3>4 DEF DeepStill
  <2> QED
    BY <1>8, <2>1, <2>2, <2>3 DEF CallsDeep
<1>13. AllCalled(t, P, Q, J)
  <2> SUFFICES ASSUME NEW m \in 1..Len(P), NEW i \in 1..Q[m], t[P[m]][i].t \in Blocks,
                      ~Matched(t[P[m]], Q[m], i)
               PROVE  \E k \in 1..Len(J) : J[k].level = m /\ J[k].at = i
    BY DEF AllCalled
  <2>1. CASE m = Len(P) /\ i = Q[Len(P)]
    <3>1. len + 1 \in 1..Len(J)
      BY <1>1, <1>8
    <3> QED
      BY <1>1, <1>6, <1>8, <2>1, <3>1
  <2>2. CASE ~(m = Len(P) /\ i = Q[Len(P)])
    <3>1. PICK k \in 1..len : K[k].level = m /\ K[k].at = i
      BY <1>5, <2>2 DEF CalledStill
    <3>2. k \in 1..Len(J)
      BY <1>1, <1>8
    <3> QED
      BY <1>8, <3>1, <3>2
  <2> QED
    BY <2>1, <2>2
<1>14. Rests(t, P, Q, D, J)
  <2>1. ASSUME NEW k \in 1..(Len(J) - 1), J[k + 1].at = 0
        PROVE  RestOf(t, P[J[k].level], Q[J[k].level], P[J[k].level + 1], D[k + 1].rest)
    <3>1. k \in 1..len
      BY <1>1, <1>8
    <3>2. k # len
      BY <1>1, <1>6, <1>8, <2>1
    <3>3. k \in 1..(len - 1) /\ k + 1 \in 1..len
      BY <1>1, <3>1, <3>2
    <3>4. J[k] = K[k] /\ J[k + 1] = K[k + 1]
      BY <1>8, <3>1, <3>3
    <3> QED
      BY <1>5, <2>1, <3>3, <3>4 DEF RestsStill
  <2>2. D[1].rest = <<>>
    BY <1>5 DEF RestsStill
  <2> QED
    BY <2>1, <2>2 DEF Rests
<1> QED
  BY <1>9, <1>11, <1>12, <1>13, <1>14 DEF CallsOK, J, call, Q

(* The end that is met is that of the last call, or of none. *)
LEMMA EndIsOfLast ==
    ASSUME NEW t \in Texts, NEW P, NEW R, PathTyped(P, R), NEW B, NEW K, CallsOK(t, P, R, B, K),
           NextOf(t, P, R).t \in Ends,
           NEW i \in 1..R[Len(R)], Matching(t[Current(P)], i, R[Len(R)] + 1)
    PROVE  K[Len(K)].at = i /\ B[Len(B)].end = NextOf(t, P, R).t
<1> DEFINE len == Len(K)
           lines == t[P[Len(P)]]
           n == R[Len(R)]
<1>1. /\ CallsNest(P, K) /\ Len(B) = len /\ len \in Nat \ {0} /\ len \in 1..len
      /\ \A k \in 1..len : K[k].level \in Nat /\ K[k].at \in Nat /\ K[k].depth \in Nat
      /\ Len(P) \in Nat \ {0} /\ Len(P) \in 1..Len(P) /\ n \in Nat /\ Len(R) = Len(P)
  <2>1. CallsNest(P, K) /\ Len(B) = len
    BY DEF CallsOK, Calls
  <2>2. /\ len \in Nat \ {0}
        /\ \A k \in 1..len : K[k].level \in Nat /\ K[k].at \in Nat /\ K[k].depth \in Nat
    BY <2>1, NestTypes
  <2>3. Len(P) \in Nat \ {0} /\ Len(P) \in 1..Len(P) /\ n \in Nat /\ Len(R) = Len(P)
    BY MoreIs
  <2> QED
    BY <2>1, <2>2, <2>3
<1>2. Depth(lines, n) = K[len].depth /\ K[len].level = Len(P)
  BY DEF CallsOK, CallsDeep, CallsNest, PathTyped
<1>3. lines[n + 1].t \in Ends /\ Depth(lines, n + 1) = K[len].depth - 1
  BY <1>1, <1>2, DepthStep DEF NextOf
<1>4. /\ lines[i].t \in Blocks /\ lines[n + 1].t = EndOf[lines[i].t]
      /\ Depth(lines, n + 1) = Depth(lines, i) - 1
      /\ \A l \in i..n : Depth(lines, l) >= Depth(lines, i)
  <2>1. (n + 1) - 1 = n
    BY <1>1
  <2> QED
    BY <2>1 DEF Matching, Current
<1>5. Depth(lines, i) = K[len].depth
  <2>1. Depth(lines, i) \in Int
    BY <1>1, DepthStep
  <2> QED
    BY <1>1, <1>3, <1>4, <2>1
<1>6. ~Matched(lines, n, i)
  <2> SUFFICES ASSUME NEW j \in 1..n, Matching(lines, i, j) PROVE FALSE
    BY DEF Matched
  <2>1. Depth(lines, j) = Depth(lines, i) - 1 /\ j \in i..n
    BY <1>1 DEF Matching
  <2> QED
    BY <1>1, <1>4, <1>5, <2>1
<1>7. PICK k \in 1..len : K[k].level = Len(P) /\ K[k].at = i
  BY <1>1, <1>4, <1>6 DEF CallsOK, AllCalled
<1>8. K[k].depth = Depth(lines, i)
  <2>1. OpenAt(lines, n, B[k].end, K[k])
    BY <1>1, <1>7 DEF CallsOK, Calls
  <2>2. i # 0
    BY <1>1
  <2> QED
    BY <1>7, <2>1, <2>2 DEF OpenAt
<1>9. k = len
  BY <1>1, <1>5, <1>7, <1>8, LastDeepest
<1>10. B[len].end = lines[n + 1].t
  <2>1. OpenAt(lines, n, B[len].end, K[len])
    BY <1>1, <1>2 DEF CallsOK, Calls
  <2>2. i # 0
    BY <1>1
  <2> QED
    BY <1>4, <1>7, <1>9, <2>1, <2>2 DEF OpenAt
<1> QED
  BY <1>1, <1>7, <1>9, <1>10 DEF NextOf

(* endif, endmenu and endchoice: the last call ends at its own end. *)
LEMMA CallsPop ==
    ASSUME NEW t \in Texts, NEW P, NEW R, PathTyped(P, R), NEW B, NEW K, CallsOK(t, P, R, B, K),
           NextOf(t, P, R).t \in Ends, NextOf(t, P, R).t = B[Len(B)].end,
           NEW D, Len(D) = Len(B) - 1, SameCalls(B, D, Len(B) - 1)
    PROVE  /\ Len(K) > 1 /\ K[Len(K)].at \in 1..R[Len(R)]
           /\ Matching(t[Current(P)], K[Len(K)].at, R[Len(R)] + 1)
           /\ CallsOK(t, P, More(R), D, Front(K))
<1> DEFINE J == Front(K)
           len == Len(K)
           lines == t[P[Len(P)]]
           n == R[Len(R)]
           i == K[Len(K)].at
           Q == More(R)
<1>1. /\ CallsNest(P, K) /\ Len(B) = len /\ len \in Nat \ {0} /\ len \in 1..len
      /\ \A k \in 1..len : K[k].level \in Nat /\ K[k].at \in Nat /\ K[k].depth \in Nat
  <2>1. CallsNest(P, K) /\ Len(B) = len
    BY DEF CallsOK, Calls
  <2> QED
    BY <2>1, NestTypes
<1>2. /\ Len(P) \in Nat \ {0} /\ Len(P) \in 1..Len(P) /\ n \in Nat /\ Len(R) = Len(P)
      /\ Q[Len(P)] = n + 1 /\ Len(Q) = Len(P)
  BY MoreIs DEF PathTyped
<1>3. Depth(lines, n) = K[len].depth /\ K[len].level = Len(P)
  BY DEF CallsOK, CallsDeep, CallsNest, PathTyped
<1>4. lines[n + 1].t \in Ends /\ Depth(lines, n + 1) = K[len].depth - 1
  BY <1>2, <1>3, DepthStep DEF NextOf
<1>5. OpenAt(lines, n, B[len].end, K[len])
  BY <1>1, <1>2, <1>3 DEF CallsOK, Calls
<1>6. i # 0
  <2>1. "eof" \notin Ends
    BY KindsDiffer
  <2> QED
    BY <1>1, <1>5, <2>1 DEF OpenAt
<1>7. /\ i \in 1..n /\ lines[i].t \in Blocks /\ B[len].end = EndOf[lines[i].t]
      /\ Depth(lines, i) = K[len].depth /\ \A l \in i..n : Depth(lines, l) >= K[len].depth
  BY <1>5, <1>6 DEF OpenAt
<1>8. Matching(lines, i, n + 1)
  <2>1. (n + 1) - 1 = n /\ i < n + 1
    <3>1. n \in Nat /\ i \in 1..n
      BY <1>2, <1>7
    <3> HIDE DEF n, i
    <3> QED
      BY <3>1
  <2>2. lines[n + 1].t = EndOf[lines[i].t]
    BY <1>1, <1>2, <1>7 DEF NextOf
  <2>3. Depth(lines, n + 1) = Depth(lines, i) - 1
    BY <1>4, <1>7
  <2>4. \A l \in i..((n + 1) - 1) : Depth(lines, l) >= Depth(lines, i)
    BY <1>7, <2>1
  <2> QED
    BY <1>7, <2>1, <2>2, <2>3, <2>4 DEF Matching
<1>9. len > 1 /\ len - 1 \in 1..len /\ len - 1 \in 1..(len - 1) /\ (len - 1) + 1 = len
  <2>1. len # 1
    BY <1>1, <1>6 DEF CallsNest
  <2> QED
    BY <1>1, <2>1
<1>10. K[len - 1].level = Len(P) /\ K[len].depth = K[len - 1].depth + 1
  <2>1. IF K[(len - 1) + 1].at = 0 THEN K[(len - 1) + 1].level = K[len - 1].level + 1
        ELSE K[(len - 1) + 1].level = K[len - 1].level
             /\ K[(len - 1) + 1].depth = K[len - 1].depth + 1
    BY <1>1, <1>9 DEF CallsNest
  <2> QED
    BY <1>3, <1>6, <1>9, <2>1
<1>11. \A k \in 1..(len - 1) : K[k].level = Len(P) => Depth(lines, n + 1) >= K[k].depth
  <2> SUFFICES ASSUME NEW k \in 1..(len - 1), K[k].level = Len(P)
               PROVE  Depth(lines, n + 1) >= K[k].depth
    OBVIOUS
  <2>1. k \in 1..len /\ k # len
    BY <1>1
  <2>2. K[k].depth < K[len].depth
    BY <1>1, <2>1, LastDeepest
  <2>3. K[k].depth \in Nat /\ K[len].depth \in Nat
    BY <1>1, <2>1
  <2> QED
    BY <1>4, <2>2, <2>3
<1>12. /\ OpenStill(t, P, Q, K, len - 1, D) /\ DeepStill(t, P, Q, K, len - 1)
       /\ CalledStill(t, P, Q, K) /\ RestsStill(t, P, Q, K, len - 1, D)
  BY <1>1, <1>9, <1>11, CallsKept
<1>13. /\ CallsNest(P, J) /\ Len(J) = len - 1 /\ \A k \in 1..(len - 1) : J[k] = K[k]
  BY <1>1, <1>2, <1>6, <1>9, NestShrinks
<1> HIDE DEF J, Q, lines, n, len, i
<1>14. Calls(t, P, Q, D, J)
  BY <1>1, <1>12, <1>13 DEF Calls, OpenStill
<1>15. CallsDeep(t, P, Q, J)
  <2>1. Depth(t[P[Len(P)]], Q[Len(P)]) = J[Len(J)].depth
    BY <1>1, <1>2, <1>4, <1>9, <1>10, <1>13 DEF lines
  <2>2. ASSUME NEW k \in 1..(Len(J) - 1), J[k + 1].at = 0
        PROVE  Depth(t[P[J[k].level]], Q[J[k].level]) = J[k].depth
    <3>1. k \in 1..((len - 1) - 1) /\ k \in 1..(len - 1) /\ k + 1 \in 1..(len - 1)
      BY <1>9, <1>1, <1>13
    <3>2. J[k] = K[k] /\ J[k + 1] = K[k + 1]
      BY <1>13, <3>1
    <3> QED
      BY <1>12, <2>2, <3>1, <3>2 DEF DeepStill
  <2>3. Len(Q) = Len(P)
    BY <1>2
  <2> QED
    BY <2>1, <2>2, <2>3 DEF CallsDeep
<1>16. AllCalled(t, P, Q, J)
  <2> SUFFICES ASSUME NEW m \in 1..Len(P), NEW x \in 1..Q[m], t[P[m]][x].t \in Blocks,
                      ~Matched(t[P[m]], Q[m], x)
               PROVE  \E k \in 1..Len(J) : J[k].level = m /\ J[k].at = x
    BY DEF AllCalled
  <2>1. ~(m = Len(P) /\ x = n + 1)
    BY <1>4, KindsDiffer DEF lines
  <2>2. ~(m = Len(P) /\ x = i)
    <3>1. ASSUME m = Len(P), x = i PROVE Matched(t[P[m]], Q[m], x)
      <4>1. n + 1 \in 1..Q[m]
        BY <1>2, <3>1
      <4> QED
        BY <1>8, <3>1, <4>1 DEF Matched, lines
    <3> QED
      BY <3>1
  <2>3. PICK k \in 1..len : K[k].level = m /\ K[k].at = x
    BY <1>2, <1>12, <2>1 DEF CalledStill, len
  <2>4. k # len
    BY <1>3, <2>2, <2>3 DEF i, len
  <2>5. k \in 1..(len - 1)
    BY <1>1, <2>4
  <2> QED
    BY <1>13, <2>3, <2>5
<1>17. Rests(t, P, Q, D, J)
  <2>1. ASSUME NEW k \in 1..(Len(J) - 1), J[k + 1].at = 0
        PROVE  RestOf(t, P[J[k].level], Q[J[k].level], P[J[k].level + 1], D[k + 1].rest)
    <3>1. k \in 1..((len - 1) - 1) /\ k \in 1..(len - 1) /\ k + 1 \in 1..(len - 1)
      BY <1>9, <1>1, <1>13
    <3>2. J[k] = K[k] /\ J[k + 1] = K[k + 1]
      BY <1>13, <3>1
    <3> QED
      BY <1>12, <2>1, <3>1, <3>2 DEF RestsStill
  <2>2. D[1].rest = <<>>
    BY <1>12 DEF RestsStill
  <2> QED
    BY <2>1, <2>2 DEF Rests
<1>18. CallsOK(t, P, Q, D, J)
  BY <1>13, <1>14, <1>15, <1>16, <1>17 DEF CallsOK
<1> QED
  BY <1>7, <1>8, <1>9, <1>18 DEF Current, J, len, lines, n, i, Q

(* The files of a source line are entered in their order, each one when the *)
(* ones before it were read to the end.                                     *)
LEMMA RestStarts ==
    ASSUME NEW t, NEW f, NEW n, t[f][n].files \in Seq(Files), t[f][n].files # <<>>
    PROVE  /\ Head(t[f][n].files) \in Files /\ Head(t[f][n].files) \in Asked(t, f, n)
           /\ RestOf(t, f, n, Head(t[f][n].files), Tail(t[f][n].files))
<1> DEFINE files == t[f][n].files
<1>1. Len(files) \in Nat \ {0} /\ 1 \in 1..Len(files) /\ files[1] = Head(files) /\ files[1] \in Files
  OBVIOUS
<1>2. Tail(files) = SubSeq(files, 1 + 1, Len(files))
  OBVIOUS
<1>3. files[1] \in ToSet(files)
  BY <1>1 DEF ToSet
<1> HIDE DEF files
<1>4. \A q \in 1..(1 - 1) : files[q] \in Dones(t)
  OBVIOUS
<1> QED
  BY <1>1, <1>2, <1>3, <1>4 DEF RestOf, Asked, files

(* When a file was read to the end, the source line is done or goes on     *)
(* with the next one.                                                      *)
LEMMA RestGoesOn ==
    ASSUME NEW t, NEW f, NEW n, t[f][n].files \in Seq(Files), NEW o, NEW rest,
           RestOf(t, f, n, o, rest), o \in Dones(t)
    PROVE  /\ rest = <<>> => Asked(t, f, n) \subseteq Dones(t)
           /\ rest # <<>> => /\ Head(rest) \in Files /\ Head(rest) \in Asked(t, f, n)
                             /\ RestOf(t, f, n, Head(rest), Tail(rest))
<1> DEFINE files == t[f][n].files
<1>1. PICK p \in 1..Len(files) : /\ files[p] = o /\ rest = SubSeq(files, p + 1, Len(files))
                                 /\ \A q \in 1..(p - 1) : files[q] \in Dones(t)
  BY DEF RestOf
<1> HIDE DEF files
<1>2. files \in Seq(Files) /\ Len(files) \in Nat /\ p \in Nat \ {0}
  BY DEF files
<1>3. \A q \in 1..p : files[q] \in Dones(t)
  <2> TAKE q \in 1..p
  <2>1. q = p \/ q \in 1..(p - 1)
    BY <1>2
  <2> QED
    BY <1>1, <2>1
<1>4. CASE rest = <<>>
  <2>1. p = Len(files)
    <3>1. Len(rest) = 0
      BY <1>4
    <3> QED
      BY <1>1, <1>2, <3>1
  <2> QED
    BY <1>2, <1>3, <1>4, <2>1 DEF Asked, ToSet, files
<1>5. CASE rest # <<>>
  <2>1. p + 1 \in 1..Len(files)
    <3>1. p # Len(files)
      <4> SUFFICES ASSUME p = Len(files) PROVE rest = <<>>
        BY <1>5
      <4> QED
        BY <1>1, <1>2
    <3> QED
      BY <1>1, <1>2, <3>1
  <2>2. Head(rest) = files[p + 1] /\ Tail(rest) = SubSeq(files, (p + 1) + 1, Len(files))
    BY <1>1, <1>2, <2>1
  <2>3. files[p + 1] \in Files /\ files[p + 1] \in ToSet(files)
    BY <1>2, <2>1 DEF ToSet
  <2>4. \A q \in 1..((p + 1) - 1) : files[q] \in Dones(t)
    BY <1>2, <1>3
  <2>5. RestOf(t, f, n, Head(rest), Tail(rest))
    BY <2>1, <2>2, <2>4 DEF RestOf, files
  <2> QED
    BY <1>5, <2>2, <2>3, <2>5 DEF Asked, files
<1> QED
  BY <1>4, <1>5

FileCall(P) == [level |-> Len(P) + 1, at |-> 0, depth |-> 0]

(* source: a call for the file, in the block of the line *)
LEMMA CallsEnter ==
    ASSUME NEW t \in Texts, NEW P, NEW R, PathTyped(P, R), NEW B, NEW K, CallsOK(t, P, R, B, K),
           NEW h \in Files, NEW D, Len(D) = Len(B) + 1, SameCalls(B, D, Len(B)),
           D[Len(B) + 1].end = "eof",
           RestOf(t, P[Len(P)], R[Len(P)], h, D[Len(B) + 1].rest)
    PROVE  CallsOK(t, Append(P, h), Append(R, 0), D, Append(K, FileCall(P)))
<1> DEFINE call == FileCall(P)
           J == Append(K, call)
           len == Len(K)
           L == Len(P)
           PP == Append(P, h)
           RR == Append(R, 0)
<1>1. /\ CallsNest(P, K) /\ Len(B) = len /\ len \in Nat \ {0} /\ len \in 1..len
      /\ \A k \in 1..len : K[k].level \in Nat /\ K[k].at \in Nat /\ K[k].depth \in Nat
  <2>1. CallsNest(P, K) /\ Len(B) = len
    BY DEF CallsOK, Calls
  <2> QED
    BY <2>1, NestTypes
<1>2. /\ L \in Nat \ {0} /\ L \in 1..L /\ Len(R) = L
      /\ Len(PP) = L + 1 /\ Len(RR) = L + 1 /\ PP[L + 1] = h /\ RR[L + 1] = 0
      /\ \A m \in 1..L : PP[m] = P[m] /\ RR[m] = R[m]
  <2>1. P \in Seq(Files) /\ R \in Seq(Nat) /\ Len(P) = Len(R) /\ Len(P) > 0
    BY DEF PathTyped
  <2>2. Len(PP) = L + 1 /\ PP[L + 1] = h /\ \A m \in 1..L : PP[m] = P[m]
    BY <2>1, AppendIs
  <2>3. Len(RR) = Len(R) + 1 /\ RR[Len(R) + 1] = 0 /\ \A m \in 1..Len(R) : RR[m] = R[m]
    BY <2>1, AppendIs
  <2> QED
    BY <2>1, <2>2, <2>3
<1>3. call \in CallRecords /\ call.at = 0 /\ call.level = L + 1 /\ call.depth = 0
  BY <1>2 DEF CallRecords, FileCall
<1>4. K \in Seq(CallRecords) /\ K[len].level = L /\ \A k \in 1..len : K[k].level \in 1..L
  BY <1>1 DEF CallsNest
<1>5. Len(J) = len + 1 /\ J[len + 1] = call /\ \A k \in 1..len : J[k] = K[k]
  BY <1>3, <1>4, AppendIs
<1>6. CallsNest(PP, J)
  BY <1>1, <1>2, <1>3, NestGrows
<1>7. /\ Calls(t, P, R, B, K) /\ CallsDeep(t, P, R, K) /\ AllCalled(t, P, R, K)
      /\ Rests(t, P, R, B, K)
  BY DEF CallsOK
<1>8. \A k \in 1..len : D[k].end = B[k].end /\ D[k].rest = B[k].rest
  BY <1>1 DEF SameCalls
<1> HIDE DEF J, call, PP, RR, len, L
<1>9. \A k \in 1..(len + 1) : k = len + 1 \/ k \in 1..len
  BY <1>1
<1>10. Calls(t, PP, RR, D, J)
  <2>1. ASSUME NEW k \in 1..len
        PROVE  OpenAt(t[PP[J[k].level]], RR[J[k].level], D[k].end, J[k])
    <3>1. OpenAt(t[P[K[k].level]], R[K[k].level], B[k].end, K[k])
      BY <1>7 DEF Calls, len
    <3>2. J[k] = K[k] /\ D[k].end = B[k].end
      BY <1>5, <1>8
    <3>3. PP[K[k].level] = P[K[k].level] /\ RR[K[k].level] = R[K[k].level]
      BY <1>2, <1>4
    <3> QED
      BY <3>1, <3>2, <3>3
  <2>2. OpenAt(t[PP[J[len + 1].level]], RR[J[len + 1].level], D[len + 1].end, J[len + 1])
    BY <1>1, <1>3, <1>5 DEF OpenAt
  <2>3. Len(D) = Len(J)
    BY <1>1, <1>5
  <2> QED
    BY <1>5, <1>9, <2>1, <2>2, <2>3 DEF Calls
<1>11. CallsDeep(t, PP, RR, J)
  <2>1. Depth(t[PP[Len(PP)]], RR[Len(PP)]) = J[Len(J)].depth
    BY <1>2, <1>3, <1>5, DepthStep
  <2>2. ASSUME NEW k \in 1..(Len(J) - 1), J[k + 1].at = 0
        PROVE  Depth(t[PP[J[k].level]], RR[J[k].level]) = J[k].depth
    <3>1. k \in 1..len
      BY <1>1, <1>5
    <3>2. J[k] = K[k]
      BY <1>5, <3>1
    <3>3. PP[K[k].level] = P[K[k].level] /\ RR[K[k].level] = R[K[k].level]
      BY <1>2, <1>4, <3>1
    <3>4. CASE k = len
      <4>1. Depth(t[P[L]], R[L]) = K[len].depth
        BY <1>2, <1>7 DEF CallsDeep, L, len
      <4> QED
        BY <1>4, <3>2, <3>3, <3>4, <4>1
    <3>5. CASE k # len
      <4>1. k \in 1..(len - 1) /\ k + 1 \in 1..len
        BY <1>1, <3>1, <3>5
      <4>2. K[k + 1].at = 0
        BY <1>5, <2>2, <4>1
      <4>3. Depth(t[P[K[k].level]], R[K[k].level]) = K[k].depth
        BY <1>7, <4>1, <4>2 DEF CallsDeep, len
      <4> QED
        BY <3>2, <3>3, <4>3
    <3> QED
      BY <3>4, <3>5
  <2> QED
    BY <2>1, <2>2 DEF CallsDeep
<1>12. AllCalled(t, PP, RR, J)
  <2> SUFFICES ASSUME NEW m \in 1..Len(PP), NEW x \in 1..RR[m], t[PP[m]][x].t \in Blocks,
                      ~Matched(t[PP[m]], RR[m], x)
               PROVE  \E k \in 1..Len(J) : J[k].level = m /\ J[k].at = x
    BY DEF AllCalled
  <2>1. m # L + 1
    BY <1>2
  <2>2. m \in 1..L
    BY <1>2, <2>1
  <2>3. PP[m] = P[m] /\ RR[m] = R[m]
    BY <1>2, <2>2
  <2>4. PICK k \in 1..len : K[k].level = m /\ K[k].at = x
    BY <1>7, <2>2, <2>3 DEF AllCalled, len, L
  <2>5. k \in 1..Len(J)
    BY <1>1, <1>5
  <2> QED
    BY <1>5, <2>4, <2>5
<1>13. Rests(t, PP, RR, D, J)
  <2>1. ASSUME NEW k \in 1..(Len(J) - 1), J[k + 1].at = 0
        PROVE  RestOf(t, PP[J[k].level], RR[J[k].level], PP[J[k].level + 1], D[k + 1].rest)
    <3>1. k \in 1..len
      BY <1>1, <1>5
    <3>2. J[k] = K[k]
      BY <1>5, <3>1
    <3>3. PP[K[k].level] = P[K[k].level] /\ RR[K[k].level] = R[K[k].level]
      BY <1>2, <1>4, <3>1
    <3>4. CASE k = len
      <4>1. RestOf(t, P[L], R[L], h, D[len + 1].rest)
        BY <1>1 DEF L, len
      <4> QED
        BY <1>2, <1>4, <3>2, <3>3, <3>4, <4>1
    <3>5. CASE k # len
      <4>1. k \in 1..(len - 1) /\ k + 1 \in 1..len
        BY <1>1, <3>1, <3>5
      <4>2. K[k + 1].at = 0
        BY <1>5, <2>1, <4>1
      <4>3. RestOf(t, P[K[k].level], R[K[k].level], P[K[k].level + 1], B[k + 1].rest)
        BY <1>7, <4>1, <4>2 DEF Rests, len
      <4>4. K[k].level + 1 \in 1..L
        <5>1. K[k].level \in 1..(L - 1)
          BY <1>1, <4>1, <4>2, LowerLevel DEF len, L
        <5> QED
          BY <1>2, <5>1
      <4>5. PP[K[k].level + 1] = P[K[k].level + 1] /\ D[k + 1].rest = B[k + 1].rest
        BY <1>2, <1>8, <4>1, <4>4
      <4> QED
        BY <3>2, <3>3, <4>3, <4>5
    <3> QED
      BY <3>4, <3>5
  <2>2. D[1].rest = <<>>
    <3>1. 1 \in 1..len
      BY <1>1
    <3> QED
      BY <1>7, <1>8, <3>1 DEF Rests
  <2> QED
    BY <2>1, <2>2 DEF Rests
<1>14. CallsOK(t, PP, RR, D, J)
  BY <1>6, <1>10, <1>11, <1>12, <1>13 DEF CallsOK
<1> QED
  BY <1>14 DEF J, call, PP, RR

(* Before the call of a file, all calls are of the files that led to it. *)
LEMMA FileIsNewest ==
    ASSUME NEW P, NEW K, CallsNest(P, K), Len(P) \in Nat \ {0}, Len(K) > 1, K[Len(K)].at = 0
    PROVE  /\ \A k \in 1..(Len(K) - 1) : K[k].level \in 1..(Len(P) - 1)
           /\ K[Len(K) - 1].level = Len(P) - 1 /\ K[Len(K)].level = Len(P)
           /\ K[Len(K)].depth = 0 /\ Len(P) > 1
           /\ Len(K) \in Nat /\ Len(K) - 1 \in 1..(Len(K) - 1) /\ (Len(K) - 1) + 1 = Len(K)
<1> DEFINE len == Len(K)
           L == Len(P)
<1>1. /\ len \in Nat \ {0, 1} /\ K[len].level = L /\ K[len].depth = 0
      /\ \A k \in 1..len : K[k].level \in 1..L /\ K[k].level \in Nat /\ K[k].depth \in Nat
  <2>1. len \in Nat \ {0} /\ \A k \in 1..len : K[k].level \in Nat /\ K[k].depth \in Nat
    BY NestTypes
  <2> QED
    BY <2>1 DEF CallsNest
<1>2. len - 1 \in 1..(len - 1) /\ (len - 1) + 1 = len
  BY <1>1
<1>3. \A k, l \in 1..len : k < l /\ K[k].level = K[l].level => K[k].depth < K[l].depth
  BY DEF CallsNest
<1>4. IF K[(len - 1) + 1].at = 0 THEN K[(len - 1) + 1].level = K[len - 1].level + 1
      ELSE /\ K[(len - 1) + 1].level = K[len - 1].level
           /\ K[(len - 1) + 1].depth = K[len - 1].depth + 1
  BY <1>2 DEF CallsNest
<1>5. K[len].at = 0
  OBVIOUS
<1> HIDE DEF len, L
<1>6. ASSUME NEW k \in 1..(len - 1) PROVE K[k].level \in 1..(L - 1)
  <2>1. k \in 1..len /\ len \in 1..len /\ k < len
    BY <1>1
  <2>2. K[k].level # L
    BY SMTT(30), <1>1, <1>3, <2>1
  <2>3. L \in Nat /\ K[k].level \in 1..L
    BY <1>1, <2>1 DEF L
  <2> QED
    BY <2>2, <2>3
<1>7. K[len - 1].level \in Nat /\ L = K[len - 1].level + 1
  <2>1. len - 1 \in 1..len
    BY <1>1
  <2> QED
    BY <1>1, <1>2, <1>4, <1>5, <2>1
<1>8. L > 1 /\ K[len - 1].level = L - 1
  <2>1. K[len - 1].level \in 1..(L - 1)
    BY <1>2, <1>6
  <2> QED
    BY <1>7, <2>1
<1> QED
  BY <1>1, <1>2, <1>6, <1>8 DEF len, L

(* At the end of a file the block goes on in the next one, *)
LEMMA CallsTurn ==
    ASSUME NEW t \in Texts, NEW P, NEW R, PathTyped(P, R), NEW B, NEW K, CallsOK(t, P, R, B, K),
           Len(K) > 1, K[Len(K)].at = 0,
           NEW h \in Files, NEW D, Len(D) = Len(B), SameCalls(B, D, Len(B) - 1),
           D[Len(B)].end = "eof",
           RestOf(t, P[Len(P) - 1], R[Len(P) - 1], h, D[Len(B)].rest)
    PROVE  CallsOK(t, [P EXCEPT ![Len(P)] = h], [R EXCEPT ![Len(P)] = 0], D, K)
<1> DEFINE len == Len(K)
           L == Len(P)
           PP == [P EXCEPT ![L] = h]
           RR == [R EXCEPT ![L] = 0]
<1>1. /\ CallsNest(P, K) /\ Len(B) = len /\ len \in Nat \ {0} /\ len \in 1..len
      /\ \A k \in 1..len : K[k].level \in Nat /\ K[k].at \in Nat /\ K[k].depth \in Nat
  <2>1. CallsNest(P, K) /\ Len(B) = len
    BY DEF CallsOK, Calls
  <2> QED
    BY <2>1, NestTypes
<1>2. /\ L \in Nat \ {0} /\ L \in 1..L /\ Len(R) = L
      /\ Len(PP) = L /\ Len(RR) = L /\ PP[L] = h /\ RR[L] = 0
      /\ \A m \in 1..(L - 1) : PP[m] = P[m] /\ RR[m] = R[m]
  <2>1. P \in Seq(Files) /\ R \in Seq(Nat) /\ Len(P) = Len(R) /\ Len(P) > 0
    BY DEF PathTyped
  <2> QED
    BY <2>1
<1>3. /\ \A k \in 1..(len - 1) : K[k].level \in 1..(L - 1)
      /\ K[len - 1].level = L - 1 /\ K[len].level = L /\ K[len].depth = 0 /\ L > 1
      /\ len - 1 \in 1..(len - 1) /\ (len - 1) + 1 = len
  BY <1>1, <1>2, FileIsNewest
<1>4. /\ Calls(t, P, R, B, K) /\ CallsDeep(t, P, R, K) /\ AllCalled(t, P, R, K)
      /\ Rests(t, P, R, B, K)
  BY DEF CallsOK
<1>5. \A k \in 1..(len - 1) : D[k].end = B[k].end /\ D[k].rest = B[k].rest
  BY <1>1 DEF SameCalls
<1>6. CallsNest(PP, K)
  BY <1>1, <1>2 DEF CallsNest
<1>7. \A k \in 1..len : k = len \/ k \in 1..(len - 1)
  BY <1>1
<1>8. K[len].at = 0 /\ D[len].end = "eof" /\ RestOf(t, P[L - 1], R[L - 1], h, D[len].rest)
      /\ Len(D) = len
  BY <1>1
<1> HIDE DEF PP, RR, len, L
<1>9. Calls(t, PP, RR, D, K)
  <2>1. ASSUME NEW k \in 1..(len - 1)
        PROVE  OpenAt(t[PP[K[k].level]], RR[K[k].level], D[k].end, K[k])
    <3>1. OpenAt(t[P[K[k].level]], R[K[k].level], B[k].end, K[k])
      <4>1. k \in 1..len
        BY <1>1
      <4> QED
        BY <1>4, <4>1 DEF Calls, len
    <3> QED
      BY <1>2, <1>3, <1>5, <3>1
  <2>2. OpenAt(t[PP[K[len].level]], RR[K[len].level], D[len].end, K[len])
    BY <1>8 DEF OpenAt
  <2> QED
    BY <1>7, <1>8, <2>1, <2>2 DEF Calls, len
<1>10. CallsDeep(t, PP, RR, K)
  <2>1. Depth(t[PP[Len(PP)]], RR[Len(PP)]) = K[Len(K)].depth
    BY <1>2, <1>3, DepthStep DEF len
  <2>2. ASSUME NEW k \in 1..(len - 1), K[k + 1].at = 0
        PROVE  Depth(t[PP[K[k].level]], RR[K[k].level]) = K[k].depth
    BY <1>2, <1>3, <1>4, <2>2 DEF CallsDeep, len
  <2> QED
    BY <2>1, <2>2 DEF CallsDeep, len
<1>11. AllCalled(t, PP, RR, K)
  <2> SUFFICES ASSUME NEW m \in 1..Len(PP), NEW x \in 1..RR[m], t[PP[m]][x].t \in Blocks,
                      ~Matched(t[PP[m]], RR[m], x)
               PROVE  \E k \in 1..Len(K) : K[k].level = m /\ K[k].at = x
    BY SMTT(30) DEF AllCalled
  <2>1. m # L
    BY <1>2
  <2>2. m \in 1..(L - 1) /\ m \in 1..L
    BY <1>2, <2>1
  <2>3. PP[m] = P[m] /\ RR[m] = R[m]
    BY <1>2, <2>2
  <2> QED
    BY <1>4, <2>2, <2>3 DEF AllCalled, L
<1>12. Rests(t, PP, RR, D, K)
  <2>1. ASSUME NEW k \in 1..(len - 1), K[k + 1].at = 0
        PROVE  RestOf(t, PP[K[k].level], RR[K[k].level], PP[K[k].level + 1], D[k + 1].rest)
    <3>1. PP[K[k].level] = P[K[k].level] /\ RR[K[k].level] = R[K[k].level]
      BY <1>2, <1>3
    <3>2. CASE k = len - 1
      <4>1. D[k + 1].rest = D[len].rest /\ K[k].level = L - 1 /\ PP[K[k].level + 1] = h
        BY SMTT(30), <1>2, <1>3, <3>2
      <4> QED
        BY <1>8, <3>1, <4>1
    <3>3. CASE k # len - 1
      <4>1. k + 1 \in 1..(len - 1)
        BY <1>1, <3>3
      <4>2. K[k + 1].level = K[k].level + 1
        BY <1>1, <2>1 DEF CallsNest, len
      <4>3. PP[K[k].level + 1] = P[K[k].level + 1] /\ D[k + 1].rest = B[k + 1].rest
        BY <1>2, <1>3, <1>5, <4>1, <4>2
      <4>4. RestOf(t, P[K[k].level], R[K[k].level], P[K[k].level + 1], B[k + 1].rest)
        BY <1>4, <2>1 DEF Rests, len
      <4> QED
        BY <3>1, <4>3, <4>4
    <3> QED
      BY <3>2, <3>3
  <2>2. D[1].rest = <<>>
    <3>1. 1 \in 1..(len - 1)
      BY <1>1, <1>3
    <3> QED
      BY <1>4, <1>5, <3>1 DEF Rests
  <2> QED
    BY <2>1, <2>2 DEF Rests, len
<1>13. CallsOK(t, PP, RR, D, K)
  BY <1>6, <1>9, <1>10, <1>11, <1>12 DEF CallsOK
<1> QED
  BY <1>13 DEF PP, RR, L

(* or after the line that sourced it. *)
LEMMA CallsLeave ==
    ASSUME NEW t \in Texts, NEW P, NEW R, PathTyped(P, R), NEW B, NEW K, CallsOK(t, P, R, B, K),
           Len(K) > 1, K[Len(K)].at = 0,
           NEW D, Len(D) = Len(B) - 1, SameCalls(B, D, Len(B) - 1)
    PROVE  CallsOK(t, Front(P), Front(R), D, Front(K))
<1> DEFINE len == Len(K)
           L == Len(P)
           J == Front(K)
           PP == Front(P)
           RR == Front(R)
<1>1. /\ CallsNest(P, K) /\ Len(B) = len /\ len \in Nat \ {0} /\ len \in 1..len
      /\ \A k \in 1..len : K[k].level \in Nat /\ K[k].at \in Nat /\ K[k].depth \in Nat
  <2>1. CallsNest(P, K) /\ Len(B) = len
    BY DEF CallsOK, Calls
  <2> QED
    BY <2>1, NestTypes
<1>2. /\ L \in Nat \ {0} /\ L \in 1..L /\ Len(R) = L
      /\ Len(PP) = L - 1 /\ Len(RR) = L - 1
      /\ \A m \in 1..(L - 1) : PP[m] = P[m] /\ RR[m] = R[m]
  <2>1. P \in Seq(Files) /\ R \in Seq(Nat) /\ Len(P) = Len(R) /\ Len(P) > 0
    BY DEF PathTyped
  <2>2. Len(PP) = L - 1 /\ \A m \in 1..(L - 1) : PP[m] = P[m]
    BY <2>1, FrontIs
  <2>3. Len(RR) = Len(R) - 1 /\ \A m \in 1..(Len(R) - 1) : RR[m] = R[m]
    BY <2>1, FrontIs
  <2> QED
    BY <2>1, <2>2, <2>3
<1>3. /\ \A k \in 1..(len - 1) : K[k].level \in 1..(L - 1)
      /\ K[len - 1].level = L - 1 /\ K[len].level = L /\ L > 1
      /\ len - 1 \in 1..(len - 1) /\ (len - 1) + 1 = len
  BY <1>1, <1>2, FileIsNewest
<1>4. /\ Calls(t, P, R, B, K) /\ CallsDeep(t, P, R, K) /\ AllCalled(t, P, R, K)
      /\ Rests(t, P, R, B, K)
  BY DEF CallsOK
<1>5. \A k \in 1..(len - 1) : D[k].end = B[k].end /\ D[k].rest = B[k].rest
  BY <1>1 DEF SameCalls
<1>6. CallsNest(PP, J) /\ Len(J) = len - 1 /\ \A k \in 1..(len - 1) : J[k] = K[k]
  BY <1>1, <1>2, NestShrinks
<1>7. K[len].at = 0 /\ Len(D) = len - 1
  BY <1>1
<1> HIDE DEF PP, RR, J, len, L
<1>8. Calls(t, PP, RR, D, J)
  <2> SUFFICES ASSUME NEW k \in 1..(len - 1)
               PROVE  OpenAt(t[PP[J[k].level]], RR[J[k].level], D[k].end, J[k])
    BY <1>6, <1>7 DEF Calls
  <2>1. OpenAt(t[P[K[k].level]], R[K[k].level], B[k].end, K[k])
    <3>1. k \in 1..len
      BY <1>1
    <3> QED
      BY <1>4, <3>1 DEF Calls, len
  <2> QED
    BY <1>2, <1>3, <1>5, <1>6, <2>1
<1>9. CallsDeep(t, PP, RR, J)
  <2>1. Depth(t[PP[Len(PP)]], RR[Len(PP)]) = J[Len(J)].depth
    <3>1. Depth(t[P[K[len - 1].level]], R[K[len - 1].level]) = K[len - 1].depth
      BY <1>3, <1>4, <1>7 DEF CallsDeep, len
    <3>2. PP[L - 1] = P[L - 1] /\ RR[L - 1] = R[L - 1] /\ J[len - 1] = K[len - 1]
      BY <1>2, <1>3, <1>6
    <3> QED
      BY <1>2, <1>3, <1>6, <3>1, <3>2
  <2>2. ASSUME NEW k \in 1..(Len(J) - 1), J[k + 1].at = 0
        PROVE  Depth(t[PP[J[k].level]], RR[J[k].level]) = J[k].depth
    <3>1. k \in 1..(len - 1) /\ k + 1 \in 1..(len - 1)
      BY <1>1, <1>6
    <3>2. J[k] = K[k] /\ J[k + 1] = K[k + 1]
      BY <1>6, <3>1
    <3>3. Depth(t[P[K[k].level]], R[K[k].level]) = K[k].depth
      BY <1>4, <2>2, <3>1, <3>2 DEF CallsDeep, len
    <3> QED
      BY <1>2, <1>3, <3>1, <3>2, <3>3
  <2> QED
    BY <2>1, <2>2 DEF CallsDeep
<1>10. AllCalled(t, PP, RR, J)
  <2> SUFFICES ASSUME NEW m \in 1..Len(PP), NEW x \in 1..RR[m], t[PP[m]][x].t \in Blocks,
                      ~Matched(t[PP[m]], RR[m], x)
               PROVE  \E k \in 1..Len(J) : J[k].level = m /\ J[k].at = x
    BY DEF AllCalled
  <2>1. m \in 1..(L - 1) /\ m \in 1..L /\ m # L
    BY <1>2
  <2>2. PP[m] = P[m] /\ RR[m] = R[m]
    BY <1>2, <2>1
  <2>3. PICK k \in 1..len : K[k].level = m /\ K[k].at = x
    BY <1>4, <2>1, <2>2 DEF AllCalled, len, L
  <2>4. k # len
    BY <1>3, <2>1, <2>3
  <2>5. k \in 1..(len - 1)
    BY <1>1, <2>4
  <2> QED
    BY <1>6, <2>3, <2>5
<1>11. Rests(t, PP, RR, D, J)
  <2>1. ASSUME NEW k \in 1..(Len(J) - 1), J[k + 1].at = 0
        PROVE  RestOf(t, PP[J[k].level], RR[J[k].level], PP[J[k].level + 1], D[k + 1].rest)
    <3>1. k \in 1..(len - 1) /\ k + 1 \in 1..(len - 1)
      BY <1>1, <1>6
    <3>2. J[k] = K[k] /\ J[k + 1] = K[k + 1]
      BY <1>6, <3>1
    <3>3. K[k + 1].level = K[k].level + 1
      BY <1>1, <2>1, <3>1, <3>2 DEF CallsNest, len
    <3>4. PP[K[k].level + 1] = P[K[k].level + 1] /\ D[k + 1].rest = B[k + 1].rest
      BY <1>2, <1>3, <1>5, <3>1, <3>3
    <3>5. PP[K[k].level] = P[K[k].level] /\ RR[K[k].level] = R[K[k].level]
      BY <1>2, <1>3, <3>1
    <3>6. RestOf(t, P[K[k].level], R[K[k].level], P[K[k].level + 1], B[k + 1].rest)
      BY <1>4, <2>1, <3>1, <3>2 DEF Rests, len
    <3> QED
      BY <3>2, <3>4, <3>5, <3>6
  <2>2. D[1].rest = <<>>
    <3>1. 1 \in 1..(len - 1)
      BY <1>1, <1>3
    <3> QED
      BY <1>4, <1>5, <3>1 DEF Rests
  <2> QED
    BY <2>1, <2>2 DEF Rests
<1>12. CallsOK(t, PP, RR, D, J)
  BY <1>6, <1>8, <1>9, <1>10, <1>11 DEF CallsOK
<1> QED
  BY <1>12 DEF PP, RR, J

-----------------------------------------------------------------------------
(* A line more may end a file that was not read to its end. *)
LEMMA DonesGrow ==
    ASSUME NEW t \in Texts, NEW f \in Files, NEW u, NEW n, NEW line,
           Read(t, u, f, n, line), \A i \in 1..n : t[f][i].t # "eof"
    PROVE  Dones(t) \subseteq Dones(u)
<1> SUFFICES ASSUME NEW h \in Dones(t) PROVE h \in Dones(u)
  OBVIOUS
<1>1. CASE u = t
  BY <1>1
<1>2. CASE u # t
  <2>1. u = [t EXCEPT ![f] = Append(t[f], line)] /\ n = Len(t[f])
    BY <1>2 DEF Read
  <2>2. f \notin Dones(t)
    <3>1. t[f] \in Seq(Line)
      BY DEF Texts
    <3>2. ASSUME t[f] # <<>>, t[f][Len(t[f])].t = "eof" PROVE FALSE
      <4>1. Len(t[f]) \in 1..n
        BY <2>1, <3>1, <3>2
      <4> QED
        BY <3>2, <4>1
    <3> QED
      BY <3>2 DEF Dones
  <2>3. u[h] = t[h]
    BY <2>1, <2>2 DEF Texts, Dones
  <2> QED
    BY <2>3 DEF Dones
<1> QED
  BY <1>1, <1>2

(* The block of the last call was not ended. *)
LEMMA LastIsOpen ==
    ASSUME NEW t \in Texts, NEW P, NEW R, PathTyped(P, R), NEW B, NEW K, CallsOK(t, P, R, B, K),
           K[Len(K)].at # 0
    PROVE  /\ K[Len(K)].at \in 1..R[Len(R)]
           /\ t[Current(P)][K[Len(K)].at].t \in Blocks
           /\ ~Matched(t[Current(P)], R[Len(R)], K[Len(K)].at)
<1> DEFINE len == Len(K)
           lines == t[P[Len(P)]]
           n == R[Len(R)]
           i == K[Len(K)].at
<1>1. /\ CallsNest(P, K) /\ Len(B) = len /\ len \in Nat \ {0} /\ len \in 1..len
      /\ \A k \in 1..len : K[k].level \in Nat /\ K[k].at \in Nat /\ K[k].depth \in Nat
  <2>1. CallsNest(P, K) /\ Len(B) = len
    BY DEF CallsOK, Calls
  <2> QED
    BY <2>1, NestTypes
<1>2. /\ n \in Nat /\ Len(R) = Len(P)
  BY MoreIs DEF PathTyped
<1>3. K[len].level = Len(P)
  BY <1>1 DEF CallsNest
<1>4. OpenAt(lines, n, B[len].end, K[len])
  BY <1>1, <1>2, <1>3 DEF CallsOK, Calls
<1>5. /\ i \in 1..n /\ lines[i].t \in Blocks
      /\ Depth(lines, i) = K[len].depth /\ \A l \in i..n : Depth(lines, l) >= K[len].depth
  BY <1>4 DEF OpenAt
<1>6. ~Matched(lines, n, i)
  <2> SUFFICES ASSUME NEW j \in 1..n, Matching(lines, i, j) PROVE FALSE
    BY DEF Matched
  <2>1. Depth(lines, j) = Depth(lines, i) - 1 /\ j \in i..n
    BY <1>2, <1>5 DEF Matching
  <2> QED
    BY <1>1, <1>5, <2>1
<1> QED
  BY <1>5, <1>6 DEF Current

(* With no block open, every block of the current file was ended. *)
LEMMA AllAreMatched ==
    ASSUME NEW t \in Texts, NEW P, NEW R, PathTyped(P, R), NEW B, NEW K, CallsOK(t, P, R, B, K),
           K[Len(K)].at = 0, NEW i \in 1..R[Len(R)], t[Current(P)][i].t \in Blocks
    PROVE  Matched(t[Current(P)], R[Len(R)], i)
<1> DEFINE len == Len(K)
           L == Len(P)
<1>1. /\ CallsNest(P, K) /\ len \in Nat \ {0}
      /\ \A k \in 1..len : K[k].level \in Nat /\ K[k].at \in Nat /\ K[k].depth \in Nat
  <2>1. CallsNest(P, K)
    BY DEF CallsOK
  <2> QED
    BY <2>1, NestTypes
<1>2. L \in Nat \ {0} /\ L \in 1..L /\ Len(R) = L /\ R[L] \in Nat
  BY MoreIs DEF PathTyped
<1> SUFFICES ASSUME ~Matched(t[P[L]], R[L], i) PROVE FALSE
  BY <1>2 DEF Current
<1>3. PICK k \in 1..len : K[k].level = L /\ K[k].at = i
  BY <1>2 DEF CallsOK, AllCalled, Current
<1>4. k \in 1..(len - 1) /\ len > 1
  <2>1. i # 0
    BY <1>2
  <2>2. k # len
    BY <1>3, <2>1
  <2> QED
    BY <1>1, <1>3, <2>2
<1>5. K[k].level \in 1..(L - 1)
  BY <1>1, <1>2, <1>4, FileIsNewest
<1> QED
  BY <1>2, <1>3, <1>5

-----------------------------------------------------------------------------
(* What is refused is not well formed, *)
LEMMA MismatchIsWrong ==
    ASSUME NEW t \in Texts, NEW P, NEW R, PathTyped(P, R), NEW B, NEW K, CallsOK(t, P, R, B, K),
           R[Len(R)] + 1 \in 1..Len(t[Current(P)]),
           NextOf(t, P, R).t \in Ends, NextOf(t, P, R).t # B[Len(B)].end
    PROVE  ~WellFormed(t)
<1> DEFINE f == Current(P)
           n == R[Len(R)]
<1>1. f \in Files /\ n \in Nat
  BY MoreIs DEF Current, PathTyped
<1>2. t[f] \in Seq(Line)
  BY <1>1 DEF Texts
<1>3. DOMAIN t[f] = 1..Len(t[f]) /\ n + 1 \in DOMAIN t[f] /\ t[f] # <<>>
  BY <1>2
<1>4. t[f][n + 1].t \in Ends
  BY DEF NextOf, Current
<1> SUFFICES ASSUME Nested(t[f]) PROVE FALSE
  BY <1>1, <1>3 DEF WellFormed
<1>5. PICK i \in DOMAIN t[f] : Matching(t[f], i, n + 1)
  BY <1>3, <1>4 DEF Nested
<1>6. i \in 1..n
  <2>1. i < n + 1
    BY <1>5 DEF Matching
  <2> QED
    BY <1>1, <1>3, <2>1
<1> QED
  BY <1>5, <1>6, EndIsOfLast

(* A file that ends in an open block is not well-formed, *)
LEMMA UnclosedIsWrong ==
    ASSUME NEW t \in Texts, NEW P, NEW R, PathTyped(P, R), NEW B, NEW K, CallsOK(t, P, R, B, K),
           R[Len(R)] + 1 = Len(t[Current(P)]), NextOf(t, P, R).t = "eof", K[Len(K)].at # 0
    PROVE  ~WellFormed(t)
<1> DEFINE f == Current(P)
           n == R[Len(R)]
           i == K[Len(K)].at
<1>1. f \in Files /\ n \in Nat
  BY MoreIs DEF Current, PathTyped
<1>2. t[f] \in Seq(Line)
  BY <1>1 DEF Texts
<1>3. DOMAIN t[f] = 1..(n + 1) /\ t[f] # <<>> /\ Last(t[f]).t = "eof"
  BY <1>1, <1>2 DEF Last, NextOf, Current
<1>4. i \in 1..n /\ t[f][i].t \in Blocks /\ ~Matched(t[f], n, i)
  BY LastIsOpen
<1> SUFFICES ASSUME Nested(t[f]) PROVE FALSE
  BY <1>1, <1>3 DEF WellFormed
<1>5. PICK j \in DOMAIN t[f] : Matching(t[f], i, j)
  <2>1. i \in DOMAIN t[f]
    BY <1>1, <1>3, <1>4
  <2> QED
    BY <1>3, <1>4, <2>1 DEF Nested
<1>6. j # n + 1
  <2>1. t[f][n + 1].t = "eof"
    BY DEF NextOf, Current
  <2>2. t[f][j].t \in {"endif", "endmenu", "endchoice"}
    <3>1. t[f][i].t \in {"if", "menu", "choice"}
      BY <1>4, KindsDiffer
    <3> QED
      BY <1>5, <3>1 DEF Matching, EndOf
  <2> QED
    BY <2>1, <2>2
<1>7. j \in 1..n
  BY <1>1, <1>3, <1>6
<1> QED
  BY <1>4, <1>5, <1>7 DEF Matched

(* nor are files one of which sources itself in the end, *)
LEMMA LoopIsWrong ==
    ASSUME NEW t, NEW f \in Files, SourcesItself(t, f)
    PROVE  ~WellFormed(t)
BY DEF WellFormed

(* nor a file with a property where it cannot be, *)
LEMMA MisplacedIsWrong ==
    ASSUME NEW t \in Texts, NEW f \in Files, NEW i \in 1..Len(t[f]), ~InPlace(t[f], i)
    PROVE  ~WellFormed(t)
<1>1. t[f] \in Seq(Line)
  BY DEF Texts
<1>2. i \in DOMAIN t[f]
  BY <1>1
<1> QED
  BY <1>2, InPlaceEverywhere DEF WellFormed

(* nor one with a source line that finds no file but must. *)
LEMMA MissingIsWrong ==
    ASSUME NEW t \in Texts, NEW f \in Files, NEW i \in 1..Len(t[f]),
           t[f][i].t = "source", t[f][i].obligatory, t[f][i].files = <<>>
    PROVE  ~WellFormed(t)
<1>1. t[f] \in Seq(Line)
  BY DEF Texts
<1>2. t[f][i] \in ToSet(t[f])
  BY <1>1 DEF ToSet
<1> QED
  BY <1>2 DEF WellFormed

(* and what was read to its end is. *)
LEMMA AcceptedIsRight ==
    ASSUME NEW t, TextOK(t), \A f \in Files : t[f] # <<>> => f \in Dones(t)
    PROVE  WellFormed(t)
<1>1. t \in Texts /\ (\A f \in Files : LinesOK(t[f])) /\ \A f \in Dones(t) : Acyclic(t, f)
  BY DEF TextOK
<1>2. ASSUME NEW f \in Files
      PROVE  /\ t[f] \in Seq(Line) /\ DOMAIN t[f] = 1..Len(t[f])
             /\ t[f] # <<>> => t[f][Len(t[f])].t = "eof"
  <2>1. t[f] \in Seq(Line)
    BY <1>1 DEF Texts
  <2> QED
    BY <2>1 DEF Dones
<1>3. ASSUME NEW f \in Files, t[f] # <<>> PROVE Nested(t[f])
  <2>1. LinesOK(t[f]) /\ DOMAIN t[f] = 1..Len(t[f]) /\ t[f][Len(t[f])].t = "eof"
    BY <1>1, <1>2, <1>3
  <2>2. \A j \in 1..Len(t[f]) : t[f][j].t \in Ends =>
            \E i \in 1..Len(t[f]) : Matching(t[f], i, j)
    BY <2>1 DEF LinesOK
  <2>3. \A i \in 1..Len(t[f]) : t[f][i].t \in Blocks =>
            \E j \in 1..Len(t[f]) : Matching(t[f], i, j)
    BY <1>3, <2>1 DEF LinesOK, Matched
  <2> QED
    BY <2>1, <2>2, <2>3 DEF Nested
<1>4. ASSUME NEW f \in Files PROVE PropertiesInPlace(t[f])
  BY <1>1, <1>2, InPlaceEverywhere DEF LinesOK
<1>5. ASSUME NEW f \in Files PROVE ~SourcesItself(t, f)
  <2>1. CASE t[f] = <<>>
    <3>1. Sourced(t, {} \cup {f}) \subseteq {}
      <4>1. {} \cup {f} \in SUBSET Files /\ Len(t[f]) = 0
        BY <2>1
      <4> SUFFICES ASSUME NEW h, h \in Sourced(t, {} \cup {f}) PROVE FALSE
        OBVIOUS
      <4>2. PICK o \in {} \cup {f} : \E i \in 1..Len(t[o]) :
                t[o][i].t = "source" /\ h \in ToSet(t[o][i].files)
        BY <1>1, <4>1, InSourced
      <4> QED
        BY <4>1, <4>2
    <3> QED
      BY <3>1 DEF SourcesItself
  <2>2. CASE t[f] # <<>>
    <3>1. PICK S \in SUBSET Dones(t) : f \notin S /\ Sourced(t, S \cup {f}) \subseteq S
      BY <1>1, <2>2 DEF Acyclic
    <3>2. S \in SUBSET Files
      BY DEF Dones
    <3> QED
      BY <3>1, <3>2 DEF SourcesItself
  <2> QED
    BY <2>1, <2>2
<1>6. ASSUME NEW f \in Files, NEW line \in ToSet(t[f]), line.t = "source", line.obligatory
      PROVE  line.files # <<>>
  <2>1. PICK i \in 1..Len(t[f]) : line = t[f][i]
    BY <1>2 DEF ToSet
  <2> QED
    BY <1>1, <1>6, <2>1 DEF LinesOK
<1> QED
  BY <1>3, <1>4, <1>5, <1>6 DEF WellFormed

-----------------------------------------------------------------------------
(* The files that are open, and how much of each was read *)
PathOf(inc, f) == Append([m \in DOMAIN inc |-> inc[m][1]], f)
ReadsOf(rs, p) == Append(rs, p)

(* Sequences with the same elements are the same. *)
LEMMA SeqsEqual ==
    ASSUME NEW S, NEW s \in Seq(S), NEW r \in Seq(S), Len(s) = Len(r),
           \A m \in 1..Len(s) : s[m] = r[m]
    PROVE  s = r
OBVIOUS

Opens == Seq(Files \X Nat)

(* The open files are those of the include path and the current one, *)
LEMMA PathOfIs ==
    ASSUME NEW inc \in Opens, NEW f \in Files
    PROVE  /\ PathOf(inc, f) \in Seq(Files) /\ Len(PathOf(inc, f)) = Len(inc) + 1
           /\ PathOf(inc, f)[Len(inc) + 1] = f
           /\ \A m \in 1..Len(inc) : PathOf(inc, f)[m] = inc[m][1]
           /\ Len(inc) \in Nat
<1> DEFINE fs == [m \in DOMAIN inc |-> inc[m][1]]
<1>1. Len(inc) \in Nat /\ DOMAIN inc = 1..Len(inc)
  BY DEF Opens
<1>2. \A m \in DOMAIN inc : inc[m][1] \in Files
  BY <1>1 DEF Opens
<1>3. fs \in Seq(Files) /\ Len(fs) = Len(inc) /\ \A m \in 1..Len(inc) : fs[m] = inc[m][1]
  BY <1>1, <1>2
<1> HIDE DEF fs
<1>4. /\ Append(fs, f) \in Seq(Files) /\ Len(Append(fs, f)) = Len(fs) + 1
      /\ Append(fs, f)[Len(fs) + 1] = f /\ \A m \in 1..Len(fs) : Append(fs, f)[m] = fs[m]
  BY <1>3, AppendIs
<1>5. PathOf(inc, f) = Append(fs, f)
  BY DEF PathOf, fs
<1> QED
  BY <1>1, <1>3, <1>4, <1>5

(* and what was read of them is what the readers and the position say. *)
LEMMA ReadsOfIs ==
    ASSUME NEW rs \in Seq(Nat), NEW p \in Nat
    PROVE  /\ ReadsOf(rs, p) \in Seq(Nat) /\ Len(ReadsOf(rs, p)) = Len(rs) + 1
           /\ ReadsOf(rs, p)[Len(rs) + 1] = p
           /\ \A m \in 1..Len(rs) : ReadsOf(rs, p)[m] = rs[m]
           /\ Len(rs) \in Nat
           /\ More(ReadsOf(rs, p)) = ReadsOf(rs, p + 1)
<1>1. \A q \in Nat : /\ ReadsOf(rs, q) \in Seq(Nat) /\ Len(ReadsOf(rs, q)) = Len(rs) + 1
                     /\ ReadsOf(rs, q)[Len(rs) + 1] = q
                     /\ \A m \in 1..Len(rs) : ReadsOf(rs, q)[m] = rs[m]
  BY AppendIs DEF ReadsOf
<1>2. Len(rs) \in Nat
  OBVIOUS
<1>3. More(ReadsOf(rs, p)) = ReadsOf(rs, p + 1)
  <2> DEFINE s == More(ReadsOf(rs, p))
             len == Len(rs) + 1
  <2>1. /\ len \in 1..Len(ReadsOf(rs, p)) /\ ReadsOf(rs, p)[len] + 1 = p + 1 /\ p + 1 \in Nat
        /\ len = Len(ReadsOf(rs, p))
    <3>1. Len(ReadsOf(rs, p)) = len /\ ReadsOf(rs, p)[len] = p
      BY <1>1
    <3>2. len \in 1..len
      BY <1>2
    <3> HIDE DEF len
    <3> QED
      BY <3>1, <3>2
  <2>2. s = [ReadsOf(rs, p) EXCEPT ![len] = p + 1]
    BY <2>1 DEF More
  <2>3. /\ s \in Seq(Nat) /\ Len(s) = len /\ s[len] = p + 1
        /\ \A m \in 1..len : m # len => s[m] = ReadsOf(rs, p)[m]
    BY <1>1, <2>1, <2>2, ExceptIs
  <2>4. ReadsOf(rs, p + 1) \in Seq(Nat) /\ Len(ReadsOf(rs, p + 1)) = len
    BY <1>1, <2>1
  <2> HIDE DEF s
  <2>5. ASSUME NEW m \in 1..len PROVE s[m] = ReadsOf(rs, p + 1)[m]
    <3>1. m = len \/ (m # len /\ m \in 1..Len(rs))
      BY <1>2
    <3> QED
      BY <1>1, <2>1, <2>3, <3>1
  <2> QED
    BY <2>3, <2>4, <2>5, SeqsEqual DEF s
<1> QED
  BY <1>1, <1>2, <1>3

(* They describe open files, as PathOK does. *)
LEMMA PathsAreTyped ==
    ASSUME NEW inc \in Opens, NEW rs \in Seq(Nat), Len(inc) = Len(rs),
           NEW f \in Files, NEW p \in Nat
    PROVE  PathTyped(PathOf(inc, f), ReadsOf(rs, p))
<1>1. PathOf(inc, f) \in Seq(Files) /\ Len(PathOf(inc, f)) = Len(inc) + 1 /\ Len(inc) \in Nat
  BY PathOfIs
<1>2. ReadsOf(rs, p) \in Seq(Nat) /\ Len(ReadsOf(rs, p)) = Len(rs) + 1
  BY ReadsOfIs
<1> QED
  BY <1>1, <1>2 DEF PathTyped

(* The open files when _enter_file appends to the include path, *)
LEMMA EnterPath ==
    ASSUME NEW inc \in Opens, NEW f \in Files, NEW l \in Nat, NEW h \in Files
    PROVE  /\ Append(inc, <<f, l>>) \in Opens
           /\ PathOf(Append(inc, <<f, l>>), h) = Append(PathOf(inc, f), h)
<1> DEFINE more == Append(inc, <<f, l>>)
           len == Len(inc)
<1>1. /\ more \in Opens /\ Len(more) = len + 1 /\ more[len + 1] = <<f, l>>
      /\ \A m \in 1..len : more[m] = inc[m]
  BY AppendIs DEF Opens
<1>2. /\ PathOf(inc, f) \in Seq(Files) /\ Len(PathOf(inc, f)) = len + 1 /\ len \in Nat
      /\ PathOf(inc, f)[len + 1] = f /\ \A m \in 1..len : PathOf(inc, f)[m] = inc[m][1]
  BY PathOfIs
<1> HIDE DEF more, len
<1>3. /\ PathOf(more, h) \in Seq(Files) /\ Len(PathOf(more, h)) = (len + 1) + 1
      /\ PathOf(more, h)[(len + 1) + 1] = h
      /\ \A m \in 1..(len + 1) : PathOf(more, h)[m] = more[m][1]
  <2>1. more \in Opens /\ Len(more) = len + 1
    BY <1>1
  <2>2. /\ PathOf(more, h) \in Seq(Files) /\ Len(PathOf(more, h)) = Len(more) + 1
        /\ PathOf(more, h)[Len(more) + 1] = h
        /\ \A m \in 1..Len(more) : PathOf(more, h)[m] = more[m][1]
    BY <2>1, PathOfIs
  <2> QED
    BY <2>1, <2>2
<1>4. /\ Append(PathOf(inc, f), h) \in Seq(Files)
      /\ Len(Append(PathOf(inc, f), h)) = (len + 1) + 1
      /\ Append(PathOf(inc, f), h)[(len + 1) + 1] = h
      /\ \A m \in 1..(len + 1) : Append(PathOf(inc, f), h)[m] = PathOf(inc, f)[m]
  BY <1>2, AppendIs
<1>5. ASSUME NEW m \in 1..((len + 1) + 1) PROVE PathOf(more, h)[m] = Append(PathOf(inc, f), h)[m]
  <2>1. m = (len + 1) + 1 \/ m = len + 1 \/ m \in 1..len
    BY <1>2
  <2>2. CASE m \in 1..len
    <3>1. m \in 1..(len + 1)
      BY <1>2, <2>2
    <3> QED
      BY <1>1, <1>2, <1>3, <1>4, <2>2, <3>1
  <2>3. CASE m = len + 1
    <3>1. m \in 1..(len + 1)
      BY <1>2, <2>3
    <3> QED
      BY <1>1, <1>2, <1>3, <1>4, <2>3, <3>1
  <2> QED
    BY <1>3, <1>4, <2>1, <2>2, <2>3
<1> QED
  BY <1>1, <1>3, <1>4, <1>5, SeqsEqual DEF more

(* when it enters the next file of a line, which leaves the include path   *)
(* as it was,                                                              *)
LEMMA TurnPath ==
    ASSUME NEW inc \in Opens, NEW rs \in Seq(Nat), Len(inc) = Len(rs),
           NEW f \in Files, NEW p \in Nat, NEW h \in Files
    PROVE  /\ PathOf(inc, h) = [PathOf(inc, f) EXCEPT ![Len(inc) + 1] = h]
           /\ ReadsOf(rs, 0) = [ReadsOf(rs, p) EXCEPT ![Len(inc) + 1] = 0]
<1> DEFINE len == Len(inc) + 1
<1>1. \A o \in Files : /\ PathOf(inc, o) \in Seq(Files) /\ Len(PathOf(inc, o)) = len
                       /\ PathOf(inc, o)[len] = o
                       /\ \A m \in 1..Len(inc) : PathOf(inc, o)[m] = inc[m][1]
  BY PathOfIs
<1>2. \A q \in Nat : /\ ReadsOf(rs, q) \in Seq(Nat) /\ Len(ReadsOf(rs, q)) = len
                     /\ ReadsOf(rs, q)[len] = q
                     /\ \A m \in 1..Len(inc) : ReadsOf(rs, q)[m] = rs[m]
  <2> TAKE q \in Nat
  <2>1. /\ ReadsOf(rs, q) \in Seq(Nat) /\ Len(ReadsOf(rs, q)) = Len(rs) + 1
        /\ ReadsOf(rs, q)[Len(rs) + 1] = q
        /\ \A m \in 1..Len(rs) : ReadsOf(rs, q)[m] = rs[m]
    BY ReadsOfIs
  <2> QED
    BY <2>1
<1>3. Len(inc) \in Nat /\ len \in 1..len /\ \A m \in 1..len : m # len => m \in 1..Len(inc)
  BY DEF Opens
<1> HIDE DEF len
<1>4. PathOf(inc, h) = [PathOf(inc, f) EXCEPT ![len] = h]
  <2> DEFINE s == [PathOf(inc, f) EXCEPT ![len] = h]
  <2>1. /\ s \in Seq(Files) /\ Len(s) = len /\ s[len] = h
        /\ \A m \in 1..len : m # len => s[m] = PathOf(inc, f)[m]
    BY <1>1, <1>3, ExceptIs
  <2> HIDE DEF s
  <2>2. ASSUME NEW m \in 1..len PROVE s[m] = PathOf(inc, h)[m]
    <3>1. CASE m = len
      BY <1>1, <2>1, <3>1
    <3>2. CASE m # len
      <4>1. s[m] = PathOf(inc, f)[m] /\ m \in 1..Len(inc)
        BY <1>3, <2>1, <3>2
      <4> QED
        BY <1>1, <4>1
    <3> QED
      BY <3>1, <3>2
  <2>3. s = PathOf(inc, h)
    BY <1>1, <2>1, <2>2, SeqsEqual
  <2> QED
    BY <2>3 DEF s
<1>5. ReadsOf(rs, 0) = [ReadsOf(rs, p) EXCEPT ![len] = 0]
  <2> DEFINE s == [ReadsOf(rs, p) EXCEPT ![len] = 0]
  <2>1. /\ s \in Seq(Nat) /\ Len(s) = len /\ s[len] = 0
        /\ \A m \in 1..len : m # len => s[m] = ReadsOf(rs, p)[m]
    BY <1>2, <1>3, ExceptIs
  <2> HIDE DEF s
  <2>2. ASSUME NEW m \in 1..len PROVE s[m] = ReadsOf(rs, 0)[m]
    <3>1. CASE m = len
      <4>1. 0 \in Nat
        OBVIOUS
      <4>2. ReadsOf(rs, 0)[len] = 0
        BY <1>2, <4>1
      <4> QED
        BY <2>1, <3>1, <4>2
    <3>2. CASE m # len
      <4>1. s[m] = ReadsOf(rs, p)[m] /\ m \in 1..Len(inc)
        BY <1>3, <2>1, <3>2
      <4> QED
        <5>1. ReadsOf(rs, p)[m] = rs[m]
          BY <1>2, <4>1
        <5>2. ReadsOf(rs, 0)[m] = rs[m]
          <6>1. 0 \in Nat
            OBVIOUS
          <6> QED
            BY <1>2, <4>1, <6>1
        <5> QED
          BY <4>1, <5>1, <5>2
    <3> QED
      BY <3>1, <3>2
  <2>3. s = ReadsOf(rs, 0)
    BY <1>2, <2>1, <2>2, SeqsEqual
  <2> QED
    BY <2>3 DEF s
<1> QED
  BY <1>4, <1>5 DEF len

(* and when _leave_file goes back along it *)
LEMMA LeavePath ==
    ASSUME NEW inc \in Opens, NEW rs \in Seq(Nat), Len(inc) = Len(rs), Len(inc) > 0,
           NEW f \in Files, NEW p \in Nat
    PROVE  /\ Front(inc) \in Opens /\ Front(rs) \in Seq(Nat) /\ Len(Front(inc)) = Len(Front(rs))
           /\ Last(inc)[1] \in Files /\ Last(inc) = inc[Len(inc)]
           /\ Last(rs) \in Nat /\ Last(rs) = rs[Len(inc)]
           /\ \A m \in 1..Len(Front(inc)) : /\ Front(inc)[m] = inc[m] /\ Front(rs)[m] = rs[m]
                                            /\ m \in 1..Len(inc)
           /\ PathOf(Front(inc), Last(inc)[1]) = Front(PathOf(inc, f))
           /\ ReadsOf(Front(rs), Last(rs)) = Front(ReadsOf(rs, p))
<1> DEFINE len == Len(inc)
           outer == Front(inc)
           back == Front(rs)
<1>1. len \in Nat \ {0} /\ len \in 1..len /\ Len(rs) = len
  BY DEF Opens
<1>2. /\ outer \in Opens /\ Len(outer) = len - 1
      /\ \A m \in 1..(len - 1) : outer[m] = inc[m]
  BY FrontIs DEF Opens
<1>3. back \in Seq(Nat) /\ Len(back) = len - 1 /\ \A m \in 1..(len - 1) : back[m] = rs[m]
  BY FrontIs
<1>4. Last(inc) = inc[len] /\ Last(inc)[1] \in Files /\ Last(rs) = rs[len] /\ Last(rs) \in Nat
  <2>1. inc[len] \in Files \X Nat /\ rs[len] \in Nat
    BY <1>1 DEF Opens
  <2> QED
    BY <1>1, <2>1 DEF Last
<1> HIDE DEF outer, back, len
<1>5. PathOf(outer, Last(inc)[1]) = Front(PathOf(inc, f))
  <2> DEFINE s == PathOf(outer, Last(inc)[1])
             r == Front(PathOf(inc, f))
  <2>1. /\ s \in Seq(Files) /\ Len(s) = (len - 1) + 1 /\ s[(len - 1) + 1] = inc[len][1]
        /\ \A m \in 1..(len - 1) : s[m] = outer[m][1]
    <3>1. outer \in Opens /\ Len(outer) = len - 1 /\ Last(inc)[1] = inc[len][1]
      BY <1>2, <1>4
    <3>2. /\ s \in Seq(Files) /\ Len(s) = Len(outer) + 1 /\ s[Len(outer) + 1] = Last(inc)[1]
          /\ \A m \in 1..Len(outer) : s[m] = outer[m][1]
      BY <1>4, <3>1, PathOfIs
    <3> HIDE DEF s
    <3> QED
      BY <3>1, <3>2
  <2>2. /\ PathOf(inc, f) \in Seq(Files) /\ Len(PathOf(inc, f)) = len + 1
        /\ \A m \in 1..len : PathOf(inc, f)[m] = inc[m][1]
    BY PathOfIs DEF len
  <2>3. /\ r \in Seq(Files) /\ Len(r) = (len + 1) - 1
        /\ \A m \in 1..((len + 1) - 1) : r[m] = PathOf(inc, f)[m]
    BY <1>1, <2>2, FrontIs
  <2>4. (len + 1) - 1 = len /\ (len - 1) + 1 = len /\ \A m \in 1..len : m = len \/ m \in 1..(len - 1)
    BY <1>1
  <2> HIDE DEF s, r
  <2>5. ASSUME NEW m \in 1..len PROVE s[m] = r[m]
    <3>1. r[m] = inc[m][1]
      BY <2>2, <2>3, <2>4
    <3>2. CASE m = len
      BY <2>1, <2>4, <3>1, <3>2
    <3>3. CASE m \in 1..(len - 1)
      BY <1>2, <2>1, <3>1, <3>3
    <3> QED
      BY <2>4, <3>2, <3>3
  <2>6. Len(s) = len /\ Len(r) = len
    BY <2>1, <2>3, <2>4
  <2>7. s = r
    BY <2>1, <2>3, <2>5, <2>6, SeqsEqual
  <2> QED
    BY <2>7 DEF s, r
<1>6. ReadsOf(back, Last(rs)) = Front(ReadsOf(rs, p))
  <2> DEFINE s == ReadsOf(back, Last(rs))
             r == Front(ReadsOf(rs, p))
  <2>1. /\ s \in Seq(Nat) /\ Len(s) = (len - 1) + 1 /\ s[(len - 1) + 1] = rs[len]
        /\ \A m \in 1..(len - 1) : s[m] = back[m]
    <3>1. back \in Seq(Nat) /\ Len(back) = len - 1 /\ Last(rs) = rs[len] /\ Last(rs) \in Nat
      BY <1>3, <1>4
    <3>2. /\ s \in Seq(Nat) /\ Len(s) = Len(back) + 1 /\ s[Len(back) + 1] = Last(rs)
          /\ \A m \in 1..Len(back) : s[m] = back[m]
      BY <3>1, ReadsOfIs
    <3> HIDE DEF s
    <3> QED
      BY <3>1, <3>2
  <2>2. /\ ReadsOf(rs, p) \in Seq(Nat) /\ Len(ReadsOf(rs, p)) = len + 1
        /\ \A m \in 1..len : ReadsOf(rs, p)[m] = rs[m]
    BY <1>1, ReadsOfIs
  <2>3. /\ r \in Seq(Nat) /\ Len(r) = (len + 1) - 1
        /\ \A m \in 1..((len + 1) - 1) : r[m] = ReadsOf(rs, p)[m]
    <3>1. Len(ReadsOf(rs, p)) > 0
      BY <1>1, <2>2
    <3>2. /\ r \in Seq(Nat) /\ Len(r) = Len(ReadsOf(rs, p)) - 1
          /\ \A m \in 1..(Len(ReadsOf(rs, p)) - 1) : r[m] = ReadsOf(rs, p)[m]
      BY <2>2, <3>1, FrontIs
    <3> HIDE DEF r
    <3> QED
      BY <2>2, <3>2
  <2>4. (len + 1) - 1 = len /\ (len - 1) + 1 = len /\ \A m \in 1..len : m = len \/ m \in 1..(len - 1)
    BY <1>1
  <2> HIDE DEF s, r
  <2>5. ASSUME NEW m \in 1..len PROVE s[m] = r[m]
    <3>1. r[m] = rs[m]
      BY <2>2, <2>3, <2>4
    <3>2. CASE m = len
      BY <2>1, <2>4, <3>1, <3>2
    <3>3. CASE m \in 1..(len - 1)
      BY <1>3, <2>1, <3>1, <3>3
    <3> QED
      BY <2>4, <3>2, <3>3
  <2>6. Len(s) = len /\ Len(r) = len
    BY <2>1, <2>3, <2>4
  <2>7. s = r
    BY <2>1, <2>3, <2>5, <2>6, SeqsEqual
  <2> QED
    BY <2>7 DEF s, r
<1>7. \A m \in 1..(len - 1) : m \in 1..len
  BY <1>1
<1> QED
  BY <1>1, <1>2, <1>3, <1>4, <1>5, <1>6, <1>7 DEF outer, back, len

-----------------------------------------------------------------------------
(* A sequence over a set is one over every larger set. *)
LEMMA SeqsWiden ==
    ASSUME NEW S, NEW T, S \subseteq T, NEW s \in Seq(S)
    PROVE  s \in Seq(T)
OBVIOUS

NodeFields == {"kind", "name", "parent", "list", "next", "prompt", "dep", "visibility",
               "defaults", "ranges", "selects", "implies", "where"}
IsNode(n) == DOMAIN n = NodeFields
IsNodes(ns) == \E S : ns \in Seq(S) /\ \A n \in S : IsNode(n)

(* What a node is of and where it is are never changed. *)
SameNode(r, n) == IsNode(r) /\ r.kind = n.kind /\ r.name = n.name /\ r.where = n.where
Keeps(ns, ms) ==
    /\ IsNodes(ms) /\ Len(ns) \in Nat /\ Len(ms) \in Nat /\ Len(ns) <= Len(ms)
    /\ \A i \in 1..Len(ns) : SameNode(ms[i], ns[i])

(* What a sequence of nodes is *)
LEMMA NodesAre ==
    ASSUME NEW ns, IsNodes(ns)
    PROVE  /\ Len(ns) \in Nat /\ DOMAIN ns = 1..Len(ns)
           /\ \A i \in 1..Len(ns) : IsNode(ns[i]) /\ SameNode(ns[i], ns[i])
<1>1. PICK S : ns \in Seq(S) /\ \A n \in S : IsNode(n)
  BY DEF IsNodes
<1>2. Len(ns) \in Nat /\ DOMAIN ns = 1..Len(ns) /\ \A i \in 1..Len(ns) : ns[i] \in S
  BY <1>1
<1> QED
  BY <1>1, <1>2 DEF SameNode

(* A node is changed to one that says the same of where it is. *)
LEMMA NodeChanges ==
    ASSUME NEW ns, IsNodes(ns), NEW i \in 1..Len(ns), NEW r, SameNode(r, ns[i])
    PROVE  /\ Keeps(ns, [ns EXCEPT ![i] = r]) /\ Len([ns EXCEPT ![i] = r]) = Len(ns)
           /\ [ns EXCEPT ![i] = r][i] = r
<1>1. PICK S : ns \in Seq(S) /\ \A n \in S : IsNode(n)
  BY DEF IsNodes
<1> DEFINE T == S \cup {r}
           ms == [ns EXCEPT ![i] = r]
<1>2. ns \in Seq(T) /\ r \in T
  BY <1>1, SeqsWiden
<1>3. /\ ms \in Seq(T) /\ Len(ms) = Len(ns) /\ ms[i] = r
      /\ \A m \in 1..Len(ns) : m # i => ms[m] = ns[m]
  BY <1>2, ExceptIs
<1>4. \A n \in T : IsNode(n)
  BY <1>1 DEF SameNode
<1> HIDE DEF T, ms
<1>5. IsNodes(ms)
  BY <1>3, <1>4 DEF IsNodes
<1>6. Len(ns) \in Nat /\ \A m \in 1..Len(ns) : SameNode(ns[m], ns[m])
  BY NodesAre
<1>7. ASSUME NEW m \in 1..Len(ns) PROVE SameNode(ms[m], ns[m])
  <2>1. CASE m = i
    BY <1>3, <2>1
  <2>2. CASE m # i
    BY <1>3, <1>6, <2>2
  <2> QED
    BY <2>1, <2>2
<1>8. Keeps(ns, ms)
  BY <1>3, <1>5, <1>6, <1>7 DEF Keeps
<1> QED
  BY <1>3, <1>8 DEF ms

(* A node more keeps the others. *)
LEMMA NodeAdded ==
    ASSUME NEW ns, IsNodes(ns), NEW n, IsNode(n)
    PROVE  /\ Keeps(ns, Append(ns, n)) /\ Len(Append(ns, n)) = Len(ns) + 1
           /\ Append(ns, n)[Len(ns) + 1] = n
<1>1. PICK S : ns \in Seq(S) /\ \A m \in S : IsNode(m)
  BY DEF IsNodes
<1> DEFINE T == S \cup {n}
           ms == Append(ns, n)
<1>2. ns \in Seq(T) /\ n \in T
  BY <1>1, SeqsWiden
<1>3. /\ ms \in Seq(T) /\ Len(ms) = Len(ns) + 1 /\ ms[Len(ns) + 1] = n
      /\ \A m \in 1..Len(ns) : ms[m] = ns[m]
  BY <1>2, AppendIs
<1>4. \A m \in T : IsNode(m)
  BY <1>1
<1> HIDE DEF T, ms
<1>5. IsNodes(ms)
  BY <1>3, <1>4 DEF IsNodes
<1>6. Len(ns) \in Nat /\ \A m \in 1..Len(ns) : SameNode(ns[m], ns[m])
  BY NodesAre
<1>7. Len(ms) \in Nat /\ Len(ns) <= Len(ms)
  BY <1>3, <1>6
<1>8. \A m \in 1..Len(ns) : SameNode(ms[m], ns[m])
  BY <1>3, <1>6
<1>9. Keeps(ns, ms)
  BY <1>5, <1>6, <1>7, <1>8 DEF Keeps
<1> QED
  BY <1>3, <1>9 DEF ms

(* What is kept twice is kept. *)
LEMMA KeepsOn ==
    ASSUME NEW ns, NEW ms, NEW ls, Keeps(ns, ms), Keeps(ms, ls)
    PROVE  Keeps(ns, ls)
<1>1. /\ IsNodes(ls) /\ Len(ns) \in Nat /\ Len(ms) \in Nat /\ Len(ls) \in Nat
      /\ Len(ns) <= Len(ms) /\ Len(ms) <= Len(ls)
      /\ \A i \in 1..Len(ns) : SameNode(ms[i], ns[i])
      /\ \A i \in 1..Len(ms) : SameNode(ls[i], ms[i])
  BY DEF Keeps
<1>2. Len(ns) <= Len(ls) /\ \A i \in 1..Len(ns) : i \in 1..Len(ms)
  BY <1>1
<1>3. \A i \in 1..Len(ns) : SameNode(ls[i], ns[i])
  BY <1>1, <1>2 DEF SameNode
<1> QED
  BY <1>1, <1>2, <1>3 DEF Keeps

(* The links of a node say nothing of where it is, *)
LEMMA LinksChange ==
    ASSUME NEW n, IsNode(n), NEW x
    PROVE  SameNode([n EXCEPT !.next = x], n) /\ SameNode([n EXCEPT !.list = x], n)
BY DEF SameNode, IsNode, NodeFields

(* and neither do its properties. *)
LEMMA PropertiesChange ==
    ASSUME NEW n, IsNode(n), NEW line \in Line, line.t \in Properties
    PROVE  SameNode(WithProperty(n, line), n)
<1>1. CASE line.t = "type" /\ line.prompt = <<>>
  BY <1>1 DEF WithProperty, SameNode
<1>2. CASE line.t = "prompt" \/ (line.t = "type" /\ line.prompt # <<>>)
  BY <1>2 DEF WithProperty, SameNode, IsNode, NodeFields
<1>3. CASE line.t = "depends"
  BY <1>3 DEF WithProperty, SameNode, IsNode, NodeFields
<1>4. CASE line.t = "visible"
  BY <1>4 DEF WithProperty, SameNode, IsNode, NodeFields
<1>5. CASE line.t = "default"
  BY <1>5 DEF WithProperty, SameNode, IsNode, NodeFields
<1>6. CASE line.t = "select"
  BY <1>6 DEF WithProperty, SameNode, IsNode, NodeFields
<1>7. CASE line.t = "imply"
  BY <1>7 DEF WithProperty, SameNode, IsNode, NodeFields
<1>8. CASE line.t = "range"
  BY <1>8 DEF WithProperty, SameNode, IsNode, NodeFields
<1>9. CASE line.t = "optional"
  BY <1>9 DEF WithProperty, SameNode
<1> QED
  BY <1>1, <1>2, <1>3, <1>4, <1>5, <1>6, <1>7, <1>8, <1>9 DEF Properties

SetNext(ns, i, x) == [ns EXCEPT ![i].next = x]

(* Chaining a node keeps them all, *)
LEMMA NextChanges ==
    ASSUME NEW ns, IsNodes(ns), NEW i \in 1..Len(ns), NEW x
    PROVE  Keeps(ns, SetNext(ns, i, x)) /\ Len(SetNext(ns, i, x)) = Len(ns)
<1> DEFINE r == [ns[i] EXCEPT !.next = x]
<1>1. SameNode(r, ns[i])
  BY NodesAre, LinksChange
<1>2. SetNext(ns, i, x) = [ns EXCEPT ![i] = r]
  BY DEF SetNext
<1> HIDE DEF r
<1>3. Keeps(ns, [ns EXCEPT ![i] = r]) /\ Len([ns EXCEPT ![i] = r]) = Len(ns)
  BY <1>1, NodeChanges
<1> QED
  BY <1>2, <1>3

(* and so does tilting up those of a block. *)
LEMMA TiltedUpKeeps ==
    ASSUME NEW ns, IsNodes(ns), NEW n \in 1..Len(ns), NEW prev \in 1..Len(ns)
    PROVE  Keeps(ns, TiltedUp(ns, n, prev)) /\ Len(TiltedUp(ns, n, prev)) = Len(ns)
<1> DEFINE ms == [ns EXCEPT ![n] = [ns[n] EXCEPT !.list = ns[n].next]]
<1>1. SameNode([ns[n] EXCEPT !.list = ns[n].next], ns[n])
  BY NodesAre, LinksChange
<1>2. Keeps(ns, ms) /\ Len(ms) = Len(ns)
  BY <1>1, NodeChanges
<1>3. TiltedUp(ns, n, prev) = SetNext(ms, prev, n)
  BY DEF TiltedUp, SetNext
<1> HIDE DEF ms
<1>4. IsNodes(ms) /\ prev \in 1..Len(ms)
  BY <1>2 DEF Keeps
<1>5. Keeps(ms, SetNext(ms, prev, n)) /\ Len(SetNext(ms, prev, n)) = Len(ms)
  BY <1>4, NextChanges
<1> QED
  BY <1>2, <1>3, <1>5, KeepsOn

-----------------------------------------------------------------------------
(* Where a node says it is, its line is. *)
Placed(t, n) ==
    /\ n.where[1] \in Files /\ n.where[2] \in 1..Len(t[n.where[1]])
    /\ IF n.kind = "symbol" THEN /\ t[n.where[1]][n.where[2]].t = "config"
                                 /\ t[n.where[1]][n.where[2]].s = n.name
       ELSE t[n.where[1]][n.where[2]].t = n.kind
AllPlaced(t, ns) == \A n \in 2..Len(ns) : Placed(t, ns[n])

(* _next_line: the nodes stay where they are in the text with the line     *)
(* that was read.                                                          *)
LEMMA PlacedGrows ==
    ASSUME NEW t \in Texts, NEW f \in Files, NEW u, NEW n, NEW line, Read(t, u, f, n, line),
           NEW ns, AllPlaced(t, ns)
    PROVE  AllPlaced(u, ns)
<1> SUFFICES ASSUME NEW k \in 2..Len(ns) PROVE Placed(u, ns[k])
  BY DEF AllPlaced
<1> DEFINE o == ns[k].where[1]
           l == ns[k].where[2]
<1>1. Placed(t, ns[k])
  BY DEF AllPlaced
<1>2. o \in Files /\ l \in 1..Len(t[o])
  BY <1>1 DEF Placed
<1>3. Len(t[o]) \in Nat /\ Len(t[o]) \in 0..Len(u[o]) /\ Agree(t[o], u[o], Len(t[o]))
  BY <1>2, ReadAgrees
<1>4. l \in 1..Len(u[o])
  <2>1. Len(u[o]) \in Int
    <3>1. u \in Texts
      BY ReadAgrees
    <3>2. u[o] \in Seq(Line)
      BY <1>2, <3>1 DEF Texts
    <3> QED
      BY <3>2
  <2> HIDE DEF o, l
  <2> QED
    BY <1>2, <1>3, <2>1
<1>5. u[o][l] = t[o][l]
  BY <1>2, <1>3 DEF Agree
<1> QED
  BY <1>1, <1>2, <1>4, <1>5 DEF Placed

(* Nodes that are kept stay where they are, *)
LEMMA KeptArePlaced ==
    ASSUME NEW t, NEW ns, NEW ms, Keeps(ns, ms), Len(ms) = Len(ns), AllPlaced(t, ns)
    PROVE  AllPlaced(t, ms)
<1> SUFFICES ASSUME NEW k \in 2..Len(ns) PROVE Placed(t, ms[k])
  BY DEF AllPlaced
<1>1. SameNode(ms[k], ns[k])
  <2>1. k \in 1..Len(ns)
    BY DEF Keeps
  <2> QED
    BY <2>1 DEF Keeps
<1>2. Placed(t, ns[k])
  BY DEF AllPlaced
<1> QED
  BY <1>1, <1>2 DEF Placed, SameNode

(* and one more has to be at its line. *)
LEMMA NewIsPlaced ==
    ASSUME NEW t, NEW ns, NEW ms, Keeps(ns, ms), Len(ms) = Len(ns) + 1, AllPlaced(t, ns),
           Placed(t, ms[Len(ns) + 1])
    PROVE  AllPlaced(t, ms)
<1> SUFFICES ASSUME NEW k \in 2..(Len(ns) + 1) PROVE Placed(t, ms[k])
  BY DEF AllPlaced
<1>1. Len(ns) \in Nat
  BY DEF Keeps
<1>2. CASE k = Len(ns) + 1
  BY <1>2
<1>3. CASE k # Len(ns) + 1
  <2>1. k \in 1..Len(ns) /\ k \in 2..Len(ns)
    BY <1>1, <1>3
  <2>2. SameNode(ms[k], ns[k])
    BY <2>1 DEF Keeps
  <2>3. Placed(t, ns[k])
    BY <2>1 DEF AllPlaced
  <2> QED
    BY <2>2, <2>3 DEF Placed, SameNode
<1> QED
  BY <1>2, <1>3

-----------------------------------------------------------------------------
(* The calls of _parse_block(), of nodes there are *)
BlockRecords(n) == [end : Ends \cup {"eof"}, parent : 1..n, prev : 1..n, rest : Seq(Files)]
BlocksOf(n) == {bs \in Seq(BlockRecords(n)) : Len(bs) > 0}

(* The calls stay what they are when there are more nodes. *)
LEMMA BlocksStay ==
    ASSUME NEW n \in Nat, NEW m \in Nat, n <= m, NEW bs \in BlocksOf(n)
    PROVE  bs \in BlocksOf(m)
<1>1. BlockRecords(n) \subseteq BlockRecords(m)
  BY DEF BlockRecords
<1> QED
  BY <1>1, SeqsWiden DEF BlocksOf

SetPrev(bs, k, x) == [bs EXCEPT ![k].prev = x]

(* A call has another last node. *)
LEMMA PrevChanges ==
    ASSUME NEW n \in Nat, NEW bs \in BlocksOf(n), NEW k \in 1..Len(bs), NEW x \in 1..n
    PROVE  /\ SetPrev(bs, k, x) \in BlocksOf(n) /\ Len(SetPrev(bs, k, x)) = Len(bs)
           /\ SameCalls(bs, SetPrev(bs, k, x), Len(bs))
<1> DEFINE b == [bs[k] EXCEPT !.prev = x]
           ds == [bs EXCEPT ![k] = b]
<1>1. bs \in Seq(BlockRecords(n)) /\ Len(bs) \in Nat \ {0} /\ bs[k] \in BlockRecords(n)
  BY DEF BlocksOf
<1>2. b \in BlockRecords(n) /\ b.end = bs[k].end /\ b.rest = bs[k].rest
  BY <1>1 DEF BlockRecords
<1>3. SetPrev(bs, k, x) = ds
  BY DEF SetPrev
<1> HIDE DEF b
<1>4. /\ ds \in Seq(BlockRecords(n)) /\ Len(ds) = Len(bs) /\ ds[k] = b
      /\ \A m \in 1..Len(bs) : m # k => ds[m] = bs[m]
  BY <1>1, <1>2, ExceptIs
<1> HIDE DEF ds
<1>5. ASSUME NEW m \in 1..Len(bs)
      PROVE  ds[m].end = bs[m].end /\ ds[m].rest = bs[m].rest
  BY <1>2, <1>4
<1> QED
  BY <1>1, <1>3, <1>4, <1>5 DEF BlocksOf, SameCalls

(* One call more *)
LEMMA CallAdded ==
    ASSUME NEW n \in Nat, NEW bs \in BlocksOf(n), NEW b \in BlockRecords(n)
    PROVE  /\ Append(bs, b) \in BlocksOf(n) /\ Len(Append(bs, b)) = Len(bs) + 1
           /\ Append(bs, b)[Len(bs) + 1] = b /\ SameCalls(bs, Append(bs, b), Len(bs))
<1>1. bs \in Seq(BlockRecords(n)) /\ Len(bs) \in Nat \ {0}
  BY DEF BlocksOf
<1>2. /\ Append(bs, b) \in Seq(BlockRecords(n)) /\ Len(Append(bs, b)) = Len(bs) + 1
      /\ Append(bs, b)[Len(bs) + 1] = b /\ \A m \in 1..Len(bs) : Append(bs, b)[m] = bs[m]
  BY <1>1, AppendIs
<1> QED
  BY <1>1, <1>2 DEF BlocksOf, SameCalls

(* The last call returns. *)
LEMMA CallReturns ==
    ASSUME NEW n \in Nat, NEW bs \in BlocksOf(n), Len(bs) > 1
    PROVE  /\ Front(bs) \in BlocksOf(n) /\ Len(Front(bs)) = Len(bs) - 1
           /\ SameCalls(bs, Front(bs), Len(bs) - 1) /\ Len(bs) - 1 \in 1..Len(Front(bs))
<1>1. bs \in Seq(BlockRecords(n)) /\ Len(bs) \in Nat \ {0}
  BY DEF BlocksOf
<1>2. /\ Front(bs) \in Seq(BlockRecords(n)) /\ Len(Front(bs)) = Len(bs) - 1
      /\ \A m \in 1..(Len(bs) - 1) : Front(bs)[m] = bs[m]
  BY <1>1, FrontIs
<1> QED
  BY <1>1, <1>2 DEF BlocksOf, SameCalls

(* What the last call, and the others, are *)
LEMMA LastCall ==
    ASSUME NEW n \in Nat, NEW bs \in BlocksOf(n)
    PROVE  /\ Len(bs) \in Nat \ {0} /\ Len(bs) \in 1..Len(bs) /\ Last(bs) = bs[Len(bs)]
           /\ Last(bs).end \in Ends \cup {"eof"} /\ Last(bs).rest \in Seq(Files)
           /\ Last(bs).prev \in 1..n /\ Last(bs).parent \in 1..n
           /\ \A k \in 1..Len(bs) : /\ bs[k].end \in Ends \cup {"eof"}
                                    /\ bs[k].prev \in 1..n /\ bs[k].parent \in 1..n
<1>1. bs \in Seq(BlockRecords(n)) /\ Len(bs) \in Nat \ {0}
  BY DEF BlocksOf
<1>2. Len(bs) \in 1..Len(bs) /\ \A k \in 1..Len(bs) : bs[k] \in BlockRecords(n)
  BY <1>1
<1> QED
  BY <1>1, <1>2 DEF BlockRecords, Last

-----------------------------------------------------------------------------
Path == PathOf(include, file)
Reads == ReadsOf(readers, pos)

(* The node that properties go to is that of the line before them. *)
Holders == {"config", "choice", "menu", "comment"}
PropFits(ns, p, kind) ==
    IF p = None THEN kind \notin Holders
    ELSE kind \in Holders /\ ns[p].kind = IF kind = "config" THEN "symbol" ELSE kind

Position ==
    /\ text \in Texts /\ file \in Files /\ pos \in 0..Len(text[file]) /\ linenr \in Nat
    /\ include \in Opens /\ readers \in Seq(Nat) /\ Len(include) = Len(readers)
Forms ==
    /\ IsNodes(nodes) /\ Len(nodes) > 0
    /\ blocks \in BlocksOf(Len(nodes)) /\ prop \in 0..Len(nodes)
Located ==
    stage # "error" =>
        /\ linenr = pos /\ \A m \in 1..Len(include) : include[m][2] = readers[m]
        /\ AllPlaced(text, nodes)
Parsing ==
    stage = "parse" =>
        /\ TextOK(text) /\ PathOK(text, Path, Reads)
        /\ \E K : CallsOK(text, Path, Reads, blocks, K)
        /\ PropFits(nodes, prop, KindAt(text[file], pos))
Judged ==
    /\ stage \in {"parse", "parsed", "error"}
    /\ stage = "parsed" => WellFormed(text)
    /\ stage = "error" => ~WellFormed(text)

ParserInv == Position /\ Forms /\ Located /\ Parsing /\ Judged

-----------------------------------------------------------------------------
(* A line was read, and nothing was done about it yet. *)
LineRead(line) ==
    /\ stage = "parse" /\ line \in Line /\ Read(text, text', file, pos, line)
    /\ TextOK(text) /\ text' \in Texts /\ pos \in Nat
    /\ pos + 1 \in 1..Len(text'[file]) /\ text'[file][pos + 1] = line
    /\ \A i \in 1..pos : text[file][i].t # "eof"
    /\ Dones(text) \subseteq Dones(text')
    /\ line.t = "eof" => pos + 1 = Len(text'[file])

PathHere ==
    /\ PathOK(text', Path, Reads) /\ PathTyped(Path, Reads)
    /\ Len(Path) = Len(include) + 1 /\ Len(Reads) = Len(include) + 1
    /\ Path[Len(Path)] = file /\ Current(Path) = file /\ Reads[Len(Reads)] = pos
    /\ \A m \in 1..Len(include) : Path[m] = include[m][1] /\ Reads[m] = readers[m]
    /\ More(Reads) = ReadsOf(readers, pos + 1)

Here ==
    /\ PropFits(nodes, prop, KindAt(text'[file], pos)) /\ AllPlaced(text', nodes)
    /\ linenr = pos /\ \A m \in 1..Len(include) : include[m][2] = readers[m]

(* _next_line keeps the invariant in all that it says of the text. *)
LEMMA LineIsRead ==
    ASSUME LinesRight, ParserInv, NEW line \in Lines, NextLine(line)
    PROVE  /\ LineRead(line) /\ PathHere /\ Here /\ NextOf(text', Path, Reads) = line
           /\ \E K : CallsOK(text', Path, Reads, blocks, K)
<1>1. stage = "parse" /\ text' = [text EXCEPT ![file] = IF pos < Len(text[file]) THEN text[file]
                                                         ELSE Append(text[file], line)]
  BY DEF NextLine
<1>2. /\ text \in Texts /\ file \in Files /\ pos \in 0..Len(text[file]) /\ pos \in Nat
      /\ include \in Opens /\ readers \in Seq(Nat) /\ Len(include) = Len(readers)
      /\ text[file] \in Seq(Line) /\ Len(text[file]) \in Nat
  BY DEF ParserInv, Position, Texts
<1>3. /\ TextOK(text) /\ PathOK(text, Path, Reads) /\ PropFits(nodes, prop, KindAt(text[file], pos))
      /\ linenr = pos /\ (\A m \in 1..Len(include) : include[m][2] = readers[m])
      /\ AllPlaced(text, nodes)
  BY <1>1 DEF ParserInv, Parsing, Located
<1>4. PICK K : CallsOK(text, Path, Reads, blocks, K)
  BY <1>1 DEF ParserInv, Parsing
<1>5. Read(text, text', file, pos, line)
  <2>1. CASE pos < Len(text[file])
    <3>1. text' = text
      BY <1>1, <1>2, <2>1 DEF Texts
    <3>2. pos + 1 \in 1..Len(text[file]) /\ line = text[file][pos + 1]
      BY <1>2, <2>1 DEF Lines
    <3>3. line \in Line
      BY <1>2, <3>2
    <3> QED
      BY <1>2, <3>1, <3>2, <3>3 DEF Read
  <2>2. CASE ~(pos < Len(text[file]))
    <3>1. line \in Line
      BY <1>2, <2>2 DEF Lines, LinesRight
    <3>2. pos = Len(text[file])
      BY <1>2, <2>2
    <3>3. text' = [text EXCEPT ![file] = Append(text[file], line)]
      BY <1>1, <2>2
    <3> QED
      BY <1>2, <3>1, <3>2, <3>3 DEF Read
  <2> QED
    BY <2>1, <2>2
<1>6. /\ text' \in Texts /\ pos + 1 \in 1..Len(text'[file]) /\ text'[file][pos + 1] = line
      /\ Len(text[file]) \in 0..Len(text'[file])
      /\ Agree(text[file], text'[file], Len(text[file])) /\ line \in Line
  <2>1. line \in Line
    BY <1>5 DEF Read
  <2> QED
    BY <1>2, <1>5, <2>1, ReadAgrees
<1>7. /\ PathTyped(Path, Reads) /\ Len(Path) = Len(include) + 1 /\ Len(Reads) = Len(include) + 1
      /\ Path[Len(Path)] = file /\ Current(Path) = file /\ Reads[Len(Reads)] = pos
      /\ \A m \in 1..Len(include) : Path[m] = include[m][1] /\ Reads[m] = readers[m]
      /\ More(Reads) = ReadsOf(readers, pos + 1)
  <2>1. /\ Len(Path) = Len(include) + 1 /\ Path[Len(include) + 1] = file
        /\ \A m \in 1..Len(include) : Path[m] = include[m][1]
    BY <1>2, PathOfIs DEF Path
  <2>2. /\ Len(Reads) = Len(readers) + 1 /\ Reads[Len(readers) + 1] = pos
        /\ (\A m \in 1..Len(readers) : Reads[m] = readers[m])
        /\ More(Reads) = ReadsOf(readers, pos + 1)
    BY <1>2, ReadsOfIs DEF Reads
  <2>3. PathTyped(Path, Reads)
    BY <1>2, PathsAreTyped DEF Path, Reads
  <2>4. Path[Len(Path)] = file /\ Current(Path) = file
    BY <2>1 DEF Current
  <2>5. Len(Reads) = Len(include) + 1 /\ Reads[Len(Reads)] = pos
    BY <1>2, <2>2
  <2>6. \A m \in 1..Len(include) : Path[m] = include[m][1] /\ Reads[m] = readers[m]
    BY <1>2, <2>1, <2>2
  <2> QED
    BY <2>1, <2>2, <2>3, <2>4, <2>5, <2>6
<1>8. \A i \in 1..pos : text[file][i].t # "eof"
  <2>1. Len(Path) \in 1..Len(Path)
    BY <1>7, MoreIs
  <2>2. ReadTo(text, Path[Len(Path)], Reads[Len(Path)])
    BY <1>3, <2>1 DEF PathOK, PathRead
  <2> QED
    BY <1>7, <2>2 DEF ReadTo
<1>9. Dones(text) \subseteq Dones(text')
  BY <1>2, <1>5, <1>8, DonesGrow
<1>10. PathOK(text', Path, Reads)
  BY <1>2, <1>3, <1>5, <1>7, <1>9, PathGrows
<1>11. CallsOK(text', Path, Reads, blocks, K)
  <2>1. Read(text, text', Path[Len(Path)], pos, line)
    BY <1>5, <1>7
  <2>2. text \in Texts /\ PathOK(text, Path, Reads)
    BY <1>2, <1>3
  <2> QED
    BY <1>4, <1>9, <2>1, <2>2, CallsGrow
<1>12. NextOf(text', Path, Reads) = line
  BY <1>6, <1>7 DEF NextOf
<1>13. KindAt(text'[file], pos) = KindAt(text[file], pos)
  BY <1>2, <1>6, KindAtSame
<1>14. AllPlaced(text', nodes)
  BY <1>2, <1>3, <1>5, PlacedGrows
<1>15. line.t = "eof" => pos + 1 = Len(text'[file])
  <2> SUFFICES ASSUME line.t = "eof" PROVE pos + 1 = Len(text'[file])
    OBVIOUS
  <2>1. CASE text' = text
    <3>1. LinesOK(text[file])
      BY <1>2, <1>3 DEF TextOK
    <3> QED
      BY <1>6, <2>1, <3>1 DEF LinesOK
  <2>2. CASE text' # text
    <3>1. text' = [text EXCEPT ![file] = Append(text[file], line)] /\ pos = Len(text[file])
      BY <1>5, <2>2 DEF Read
    <3>2. text'[file] = Append(text[file], line)
      BY <1>2, <3>1 DEF Texts
    <3> QED
      BY <1>2, <1>6, <3>1, <3>2, AppendIs
  <2> QED
    BY <2>1, <2>2
<1>16. LineRead(line)
  BY <1>1, <1>2, <1>3, <1>5, <1>6, <1>8, <1>9, <1>15 DEF LineRead
<1>17. PathHere
  BY <1>7, <1>10 DEF PathHere
<1>18. Here
  BY <1>3, <1>13, <1>14 DEF Here
<1> QED
  BY <1>11, <1>12, <1>16, <1>17, <1>18

(* A line that is neither the end of a file nor sources one is accepted, *)
LEMMA LineAccepted ==
    ASSUME NEW line, LineRead(line), PathHere, file \in Files,
           line.t \notin {"source", "eof"}, InPlace(text'[file], pos + 1),
           line.t \in Ends => \E i \in 1..pos : Matching(text'[file], i, pos + 1)
    PROVE  TextOK(text') /\ PathOK(text', Path, More(Reads))
<1>1. TextOK(text')
  BY TextGrows DEF LineRead
<1>2. ~IsSource(text', file, pos + 1) /\ text'[file][pos + 1].t # "eof"
      /\ pos + 1 <= Len(text'[file])
  BY DEF LineRead, IsSource
<1>3. PathOK(text', Path, [Reads EXCEPT ![Len(Reads)] = pos + 1])
  BY <1>2, PathAdvances DEF LineRead, PathHere
<1> QED
  BY <1>1, <1>3 DEF PathHere, More

(* and the position is after it. *)
LEMMA LineConsumed ==
    ASSUME NEW line, LineRead(line), PathHere, Here, Position,
           pos' = pos + 1, linenr' = linenr + 1, UNCHANGED <<file, include, readers>>
    PROVE  /\ Position' /\ Path' = Path /\ Reads' = More(Reads)
           /\ linenr' = pos' /\ \A m \in 1..Len(include') : include'[m][2] = readers'[m]
           /\ KindAt(text'[file'], pos') = IF line.t \in Properties THEN KindAt(text'[file], pos)
                                           ELSE line.t
<1>1. /\ text' \in Texts /\ pos \in Nat /\ pos + 1 \in 1..Len(text'[file])
      /\ text'[file][pos + 1] = line
  BY DEF LineRead
<1>2. pos' \in 0..Len(text'[file']) /\ linenr' \in Nat
  BY <1>1 DEF Position
<1>3. Position'
  BY <1>1, <1>2 DEF Position
<1>4. Path' = Path /\ Reads' = More(Reads)
  BY DEF Path, Reads, PathHere
<1>5. KindAt(text'[file], pos + 1) = IF line.t \in Properties THEN KindAt(text'[file], pos)
                                     ELSE line.t
  BY <1>1, KindAtStep
<1> QED
  BY <1>1, <1>3, <1>4, <1>5 DEF Here

(* What is no property is in place everywhere. *)
LEMMA NotProperties ==
    ASSUME NEW line, line.t \notin Properties, NEW lines, NEW i, lines[i] = line
    PROVE  InPlace(lines, i)
BY DEF InPlace

-----------------------------------------------------------------------------
Ready(line, K) ==
    /\ ParserInv /\ LineRead(line) /\ PathHere /\ Here
    /\ NextOf(text', Path, Reads) = line /\ CallsOK(text', Path, Reads, blocks, K)

(* The node made of a line has its line number and its kind, *)
LEMMA NodeOfIs ==
    ASSUME NEW line, line.t \in Entries \cup Blocks, NEW parent
    PROVE  /\ IsNode(NodeOf(line, parent)) /\ NodeOf(line, parent).where = <<file, linenr + 1>>
           /\ NodeOf(line, parent).kind = IF line.t = "config" THEN "symbol" ELSE line.t
           /\ line.t = "config" => NodeOf(line, parent).name = line.s
<1>1. line.t \in {"config", "comment", "if", "menu", "choice"}
  BY KindsDiffer DEF Entries
<1>2. CASE line.t = "config"
  BY <1>2 DEF NodeOf, Node, IsNode, NodeFields
<1>3. CASE line.t = "choice"
  BY <1>3 DEF NodeOf, Node, IsNode, NodeFields
<1>4. CASE line.t = "if"
  BY <1>4 DEF NodeOf, Node, IsNode, NodeFields
<1>5. CASE line.t \in {"menu", "comment"}
  BY <1>5 DEF NodeOf, Node, IsNode, NodeFields
<1> QED
  BY <1>1, <1>2, <1>3, <1>4, <1>5

(* and so it is where it says. *)
LEMMA NodeIsPlaced ==
    ASSUME NEW line, line.t \in Entries \cup Blocks, NEW parent, LineRead(line), Here, file \in Files
    PROVE  Placed(text', NodeOf(line, parent))
<1>1. /\ NodeOf(line, parent).where = <<file, pos + 1>>
      /\ NodeOf(line, parent).kind = IF line.t = "config" THEN "symbol" ELSE line.t
      /\ line.t = "config" => NodeOf(line, parent).name = line.s
  BY NodeOfIs DEF Here
<1>2. pos + 1 \in 1..Len(text'[file]) /\ text'[file][pos + 1] = line
  BY DEF LineRead
<1>3. line.t # "symbol"
  BY KindsDiffer DEF Entries
<1> QED
  BY <1>1, <1>2, <1>3 DEF Placed

(* How the parts make up the invariant again *)
LEMMA StillParsing ==
    ASSUME NEW line, Position', Forms', TextOK(text'), PathOK(text', Path', Reads'),
           NEW K, CallsOK(text', Path', Reads', blocks', K),
           PropFits(nodes', prop', KindAt(text'[file'], pos')),
           stage' = "parse", linenr' = pos',
           \A m \in 1..Len(include') : include'[m][2] = readers'[m],
           AllPlaced(text', nodes')
    PROVE  ParserInv'
BY DEF ParserInv, Located, Parsing, Judged

(* config and comment keep the invariant. *)
LEMMA EntryParsed ==
    ASSUME NEW line, NEW K, Ready(line, K), ParseEntry(line)
    PROVE  ParserInv'
<1> DEFINE n == Len(nodes) + 1
           linked == SetNext(nodes, Block.prev, n)
           new == NodeOf(line, Block.parent)
<1>1. /\ Position /\ Forms /\ LineRead(line) /\ PathHere /\ Here /\ file \in Files
      /\ NextOf(text', Path, Reads) = line /\ CallsOK(text', Path, Reads, blocks, K)
  BY DEF Ready, ParserInv, Position
<1>2. /\ line.t \in {"config", "comment"} /\ line.t \in Entries /\ line.t \notin Properties
      /\ line.t \notin {"source", "eof"} /\ line.t \notin Blocks \cup Ends
  BY KindsDiffer DEF ParseEntry, Entries, Properties
<1>3. /\ pos' = pos + 1 /\ linenr' = linenr + 1 /\ UNCHANGED <<file, include, readers>>
      /\ nodes' = Append(linked, new) /\ prop' = n /\ stage' = stage
      /\ blocks' = SetPrev(blocks, Len(blocks), n)
  BY DEF ParseEntry, Consume, SetNext, SetPrev
<1>4. /\ Position' /\ Path' = Path /\ Reads' = More(Reads)
      /\ linenr' = pos' /\ (\A m \in 1..Len(include') : include'[m][2] = readers'[m])
      /\ KindAt(text'[file'], pos') = line.t
  BY <1>1, <1>2, <1>3, LineConsumed
<1>5. TextOK(text') /\ PathOK(text', Path, More(Reads))
  <2>1. InPlace(text'[file], pos + 1)
    BY <1>1, <1>2, NotProperties DEF LineRead
  <2> QED
    BY <1>1, <1>2, <2>1, LineAccepted
<1>6. /\ Len(nodes) \in Nat \ {0} /\ blocks \in BlocksOf(Len(nodes)) /\ IsNodes(nodes)
      /\ Block.prev \in 1..Len(nodes)
  <2>1. Len(nodes) \in Nat \ {0} /\ blocks \in BlocksOf(Len(nodes)) /\ IsNodes(nodes)
    BY <1>1, NodesAre DEF Forms
  <2> QED
    BY <2>1, LastCall DEF Block
<1>7. Keeps(nodes, linked) /\ Len(linked) = Len(nodes)
  BY <1>6, NextChanges
<1>8. IsNode(new) /\ Placed(text', new) /\ new.kind = IF line.t = "config" THEN "symbol" ELSE line.t
  BY <1>1, <1>2, NodeOfIs, NodeIsPlaced
<1> HIDE DEF linked, new
<1>9. /\ Keeps(linked, nodes') /\ Len(nodes') = Len(linked) + 1 /\ nodes'[Len(linked) + 1] = new
  <2>1. IsNodes(linked)
    BY <1>7 DEF Keeps
  <2> QED
    BY <1>3, <1>8, <2>1, NodeAdded
<1>10. Len(nodes') = n /\ nodes'[n] = new /\ IsNodes(nodes')
  BY <1>7, <1>9 DEF Keeps
<1>11. AllPlaced(text', nodes')
  <2>1. AllPlaced(text', linked)
    BY <1>1, <1>7, KeptArePlaced DEF Here
  <2> QED
    BY <1>8, <1>9, <2>1, NewIsPlaced
<1>12. /\ blocks' \in BlocksOf(n) /\ Len(blocks') = Len(blocks)
       /\ SameCalls(blocks, blocks', Len(blocks))
  <2>1. n \in Nat /\ Len(nodes) \in Nat /\ Len(nodes) <= n /\ n \in 1..n
    BY <1>6
  <2>2. blocks \in BlocksOf(n)
    BY <1>6, <2>1, BlocksStay
  <2>3. Len(blocks) \in 1..Len(blocks)
    BY <2>1, <2>2, LastCall
  <2> QED
    BY <1>3, <2>1, <2>2, <2>3, PrevChanges
<1>13. CallsOK(text', Path, More(Reads), blocks', K)
  BY <1>1, <1>2, <1>12, CallsAdvance DEF LineRead, PathHere
<1>14. Forms'
  <2>1. prop' \in 0..n /\ n > 0
    BY <1>3, <1>6
  <2> QED
    BY <1>10, <1>12, <2>1 DEF Forms
<1>15. PropFits(nodes', prop', KindAt(text'[file'], pos'))
  <2>1. prop' # None /\ nodes'[prop'] = new
    BY <1>3, <1>6, <1>10 DEF None
  <2> QED
    BY <1>2, <1>4, <1>8, <2>1 DEF PropFits, Holders
<1>16. stage' = "parse"
  BY <1>1, <1>3 DEF LineRead
<1> QED
  BY <1>4, <1>5, <1>11, <1>13, <1>14, <1>15, <1>16, StillParsing

(* menu, choice and if keep it. *)
LEMMA BlockParsed ==
    ASSUME NEW line, NEW K, Ready(line, K), ParseBlock(line)
    PROVE  ParserInv'
<1> DEFINE n == Len(nodes) + 1
           new == NodeOf(line, Block.parent)
           call == Call(EndOf[line.t], n, n, <<>>)
<1>1. /\ Position /\ Forms /\ LineRead(line) /\ PathHere /\ Here /\ file \in Files
      /\ NextOf(text', Path, Reads) = line /\ CallsOK(text', Path, Reads, blocks, K)
  BY DEF Ready, ParserInv, Position
<1>2. /\ line.t \in {"if", "menu", "choice"} /\ line.t \in Blocks /\ line.t \notin Properties
      /\ line.t \notin {"source", "eof"} /\ line.t \notin Ends
  BY KindsDiffer DEF ParseBlock, Properties
<1>3. /\ pos' = pos + 1 /\ linenr' = linenr + 1 /\ UNCHANGED <<file, include, readers>>
      /\ nodes' = Append(nodes, new) /\ prop' = (IF line.t = "if" THEN None ELSE n)
      /\ stage' = stage /\ blocks' = Append(blocks, call)
  BY DEF ParseBlock, Consume
<1>4. /\ Position' /\ Path' = Path /\ Reads' = More(Reads)
      /\ linenr' = pos' /\ (\A m \in 1..Len(include') : include'[m][2] = readers'[m])
      /\ KindAt(text'[file'], pos') = line.t
  BY <1>1, <1>2, <1>3, LineConsumed
<1>5. TextOK(text') /\ PathOK(text', Path, More(Reads))
  <2>1. InPlace(text'[file], pos + 1)
    BY <1>1, <1>2, NotProperties DEF LineRead
  <2> QED
    BY <1>1, <1>2, <2>1, LineAccepted
<1>6. /\ Len(nodes) \in Nat \ {0} /\ blocks \in BlocksOf(Len(nodes)) /\ IsNodes(nodes)
  BY <1>1, NodesAre DEF Forms
<1>7. IsNode(new) /\ Placed(text', new) /\ new.kind = line.t
  BY <1>1, <1>2, NodeOfIs, NodeIsPlaced
<1> HIDE DEF new
<1>8. /\ Keeps(nodes, nodes') /\ Len(nodes') = n /\ nodes'[n] = new
  BY <1>3, <1>6, <1>7, NodeAdded
<1>9. AllPlaced(text', nodes')
  BY <1>1, <1>7, <1>8, NewIsPlaced DEF Here
<1>10. /\ blocks' \in BlocksOf(n) /\ Len(blocks') = Len(blocks) + 1
       /\ blocks'[Len(blocks) + 1] = call /\ SameCalls(blocks, blocks', Len(blocks))
  <2>1. n \in Nat /\ Len(nodes) \in Nat /\ Len(nodes) <= n /\ n \in 1..n
    BY <1>6
  <2>2. blocks \in BlocksOf(n)
    BY <1>6, <2>1, BlocksStay
  <2>3. call \in BlockRecords(n)
    <3>1. EndOf[line.t] \in Ends
      BY <1>2 DEF Ends
    <3>2. <<>> \in Seq(Files)
      OBVIOUS
    <3> QED
      BY <2>1, <3>1, <3>2 DEF BlockRecords, Call
  <2> HIDE DEF call
  <2> QED
    BY <1>3, <2>1, <2>2, <2>3, CallAdded
<1>11. CallsOK(text', Path, More(Reads), blocks', Append(K, BlockCall(Path, Reads, K)))
  <2>1. blocks'[Len(blocks) + 1].end = EndOf[line.t]
    BY <1>10 DEF Call
  <2> QED
    BY <1>1, <1>2, <1>10, <2>1, CallsPush DEF LineRead, PathHere
<1>12. Forms'
  <2>1. prop' \in 0..n /\ n > 0
    BY <1>3, <1>6 DEF None
  <2> QED
    BY <1>8, <1>10, <2>1 DEF Forms, Keeps
<1>13. PropFits(nodes', prop', KindAt(text'[file'], pos'))
  <2>1. CASE line.t = "if"
    BY <1>3, <1>4, <2>1 DEF PropFits, Holders
  <2>2. CASE line.t # "if"
    <3>1. prop' # None /\ nodes'[prop'] = new
      BY <1>3, <1>6, <1>8, <2>2 DEF None
    <3> QED
      BY <1>2, <1>4, <1>7, <2>2, <3>1 DEF PropFits, Holders
  <2> QED
    BY <2>1, <2>2
<1>14. stage' = "parse"
  BY <1>1, <1>3 DEF LineRead
<1> QED
  BY <1>4, <1>5, <1>9, <1>11, <1>12, <1>13, <1>14, StillParsing

(* A property keeps it: it is added to the node of the line before it, or  *)
(* it is misplaced.                                                        *)
LEMMA PropertyParsed ==
    ASSUME NEW line, NEW K, Ready(line, K), ParseProperty(line)
    PROVE  ParserInv'
<1>1. /\ Position /\ Forms /\ LineRead(line) /\ PathHere /\ Here /\ file \in Files
      /\ NextOf(text', Path, Reads) = line /\ CallsOK(text', Path, Reads, blocks, K)
  BY DEF Ready, ParserInv, Position
<1>2. /\ line.t \in Properties /\ line.t \notin {"source", "eof"}
      /\ line.t \notin Blocks /\ line.t \notin Ends /\ line \in Line
  BY <1>1, KindsDiffer DEF ParseProperty, Properties, LineRead
<1>3. pos' = pos + 1 /\ linenr' = linenr + 1 /\ UNCHANGED <<file, include, readers>>
  BY DEF ParseProperty, Consume
<1>4. /\ Position' /\ Path' = Path /\ Reads' = More(Reads)
      /\ linenr' = pos' /\ (\A m \in 1..Len(include') : include'[m][2] = readers'[m])
      /\ KindAt(text'[file'], pos') = KindAt(text'[file], pos)
  BY <1>1, <1>2, <1>3, LineConsumed
<1>5. KindAt(text'[file], pos + 1) = KindAt(text'[file], pos)
  BY <1>3, <1>4
<1>6. PropFits(nodes, prop, KindAt(text'[file], pos))
  BY <1>1 DEF Here
<1>7. CASE prop = None \/ Misplaced(nodes[prop].kind, line)
  <2>1. ~InPlace(text'[file], pos + 1)
    <3>1. text'[file][pos + 1] = line
      BY <1>1 DEF LineRead
    <3>2. CASE prop = None
      BY <1>2, <1>5, <1>6, <3>1, <3>2 DEF InPlace, PropFits, Holders
    <3>3. CASE prop # None
      BY <1>2, <1>5, <1>6, <1>7, <3>1, <3>3 DEF InPlace, PropFits, Holders, Misplaced
    <3> QED
      BY <3>2, <3>3
  <2>2. ~WellFormed(text')
    BY <1>1, <2>1, MisplacedIsWrong DEF LineRead
  <2>3. stage' = "error" /\ UNCHANGED <<blocks, prop, nodes>>
    BY <1>7 DEF ParseProperty, ParseError
  <2>4. Forms'
    BY <1>1, <2>3 DEF Forms
  <2> QED
    BY <1>4, <2>2, <2>3, <2>4 DEF ParserInv, Located, Parsing, Judged
<1>8. CASE prop # None /\ ~Misplaced(nodes[prop].kind, line)
  <2>1. /\ nodes' = [nodes EXCEPT ![prop] = WithProperty(nodes[prop], line)]
        /\ UNCHANGED <<blocks, prop, stage>>
    BY <1>8 DEF ParseProperty
  <2>2. InPlace(text'[file], pos + 1)
    <3>1. text'[file][pos + 1] = line
      BY <1>1 DEF LineRead
    <3> QED
      BY <1>2, <1>5, <1>6, <1>8, <3>1 DEF InPlace, PropFits, Holders, Misplaced
  <2>3. TextOK(text') /\ PathOK(text', Path, More(Reads))
    BY <1>1, <1>2, <2>2, LineAccepted
  <2>4. IsNodes(nodes) /\ Len(nodes) \in Nat /\ prop \in 1..Len(nodes)
    <3>1. Len(nodes) \in Nat
      BY <1>1, NodesAre DEF Forms
    <3> QED
      BY <1>1, <1>8, <3>1 DEF Forms, None
  <2>5. SameNode(WithProperty(nodes[prop], line), nodes[prop])
    BY <1>2, <2>4, NodesAre, PropertiesChange
  <2>6. /\ Keeps(nodes, nodes') /\ Len(nodes') = Len(nodes)
        /\ nodes'[prop] = WithProperty(nodes[prop], line)
    BY <2>1, <2>4, <2>5, NodeChanges
  <2>7. AllPlaced(text', nodes')
    BY <1>1, <2>6, KeptArePlaced DEF Here
  <2>8. Forms'
    BY <1>1, <2>1, <2>6 DEF Forms, Keeps
  <2>9. PropFits(nodes', prop', KindAt(text'[file'], pos'))
    BY <1>4, <1>6, <2>1, <2>5, <2>6 DEF PropFits, SameNode
  <2>10. CallsOK(text', Path, More(Reads), blocks', K)
    <3>1. Len(blocks') = Len(blocks) /\ SameCalls(blocks, blocks', Len(blocks))
      BY <2>1 DEF SameCalls
    <3> QED
      BY <1>1, <1>2, <3>1, CallsAdvance DEF LineRead, PathHere
  <2>11. stage' = "parse"
    BY <1>1, <2>1 DEF LineRead
  <2> QED
    BY <1>4, <2>3, <2>7, <2>8, <2>9, <2>10, <2>11, StillParsing
<1> QED
  BY <1>7, <1>8

(* endmenu, endchoice and endif keep it: they end the last block, or the   *)
(* nesting is wrong.                                                       *)
LEMMA EndParsed ==
    ASSUME NEW line, NEW K, Ready(line, K), ParseEnd(line)
    PROVE  ParserInv'
<1>1. /\ Position /\ Forms /\ LineRead(line) /\ PathHere /\ Here /\ file \in Files
      /\ NextOf(text', Path, Reads) = line /\ CallsOK(text', Path, Reads, blocks, K)
  BY DEF Ready, ParserInv, Position
<1>2. /\ line.t \in {"endif", "endmenu", "endchoice"} /\ line.t \in Ends /\ line.t \notin Properties
      /\ line.t \notin {"source", "eof"} /\ line.t \notin Holders
  BY KindsDiffer DEF ParseEnd, Properties, Holders
<1>3. pos' = pos + 1 /\ linenr' = linenr + 1 /\ UNCHANGED <<file, include, readers>> /\ prop' = None
  BY DEF ParseEnd, Consume
<1>4. /\ Position' /\ Path' = Path /\ Reads' = More(Reads)
      /\ linenr' = pos' /\ (\A m \in 1..Len(include') : include'[m][2] = readers'[m])
      /\ KindAt(text'[file'], pos') = line.t
  BY <1>1, <1>2, <1>3, LineConsumed
<1>5. /\ Len(nodes) \in Nat \ {0} /\ blocks \in BlocksOf(Len(nodes)) /\ IsNodes(nodes)
  BY <1>1, NodesAre DEF Forms
<1>6. /\ Len(blocks) \in Nat \ {0} /\ Block = blocks[Len(blocks)]
      /\ Block.prev \in 1..Len(nodes) /\ Block.parent \in 1..Len(nodes)
  BY <1>5, LastCall DEF Block
<1>7. CASE line.t # Block.end
  <2>1. stage' = "error" /\ UNCHANGED <<nodes, blocks>>
    BY <1>7 DEF ParseEnd
  <2>2. ~WellFormed(text')
    <3>1. text' \in Texts /\ PathTyped(Path, Reads)
          /\ Reads[Len(Reads)] + 1 \in 1..Len(text'[Current(Path)])
      BY <1>1 DEF LineRead, PathHere
    <3>2. NextOf(text', Path, Reads).t \in Ends /\ NextOf(text', Path, Reads).t # blocks[Len(blocks)].end
      BY <1>1, <1>2, <1>6, <1>7
    <3> QED
      BY <1>1, <3>1, <3>2, MismatchIsWrong
  <2>3. Forms'
    BY <1>1, <1>3, <1>5, <2>1 DEF Forms, None
  <2> QED
    BY <1>4, <2>1, <2>2, <2>3 DEF ParserInv, Located, Parsing, Judged
<1>8. CASE line.t = Block.end
  <2> DEFINE closed == SetNext(nodes, Block.prev, None)
             outer == blocks[Len(blocks) - 1]
             left == Front(blocks)
  <2>1. /\ nodes' = TiltedUp(closed, Block.parent, outer.prev) /\ stage' = stage
        /\ blocks' = SetPrev(left, Len(blocks) - 1, Block.parent)
    BY <1>8 DEF ParseEnd, EndBlock, SetNext, SetPrev
  <2>2. text' \in Texts /\ PathTyped(Path, Reads)
    BY <1>1 DEF LineRead, PathHere
  <2>3. NextOf(text', Path, Reads).t \in Ends /\ NextOf(text', Path, Reads).t = blocks[Len(blocks)].end
    BY <1>1, <1>2, <1>6, <1>8
  <2>4. Len(K) > 1 /\ Len(blocks) = Len(K)
    <3>1. SameCalls(blocks, left, Len(blocks) - 1) /\ Len(left) = Len(blocks) - 1
      <4>1. blocks \in Seq(BlockRecords(Len(nodes)))
        BY <1>5 DEF BlocksOf
      <4>2. /\ left \in Seq(BlockRecords(Len(nodes))) /\ Len(left) = Len(blocks) - 1
            /\ \A m \in 1..(Len(blocks) - 1) : left[m] = blocks[m]
        BY <1>6, <4>1, FrontIs
      <4> QED
        BY <4>2 DEF SameCalls
    <3> QED
      BY <1>1, <2>2, <2>3, <3>1, CallsPop DEF CallsOK, Calls
  <2>5. /\ left \in BlocksOf(Len(nodes)) /\ Len(left) = Len(blocks) - 1
        /\ SameCalls(blocks, left, Len(blocks) - 1) /\ Len(blocks) - 1 \in 1..Len(left)
    BY <1>5, <2>4, CallReturns
  <2> HIDE DEF left
  <2>6. /\ blocks' \in BlocksOf(Len(nodes)) /\ Len(blocks') = Len(blocks) - 1
        /\ SameCalls(left, blocks', Len(left))
    BY <1>5, <1>6, <2>1, <2>5, PrevChanges
  <2>7. SameCalls(blocks, blocks', Len(blocks) - 1)
    BY <2>5, <2>6 DEF SameCalls
  <2>8. /\ K[Len(K)].at \in 1..pos /\ Matching(text'[file], K[Len(K)].at, pos + 1)
        /\ CallsOK(text', Path, More(Reads), blocks', Front(K))
    <3>1. /\ K[Len(K)].at \in 1..Reads[Len(Reads)]
          /\ Matching(text'[Current(Path)], K[Len(K)].at, Reads[Len(Reads)] + 1)
          /\ CallsOK(text', Path, More(Reads), blocks', Front(K))
      BY <1>1, <2>2, <2>3, <2>6, <2>7, CallsPop
    <3> QED
      BY <1>1, <3>1 DEF PathHere
  <2>9. TextOK(text') /\ PathOK(text', Path, More(Reads))
    <3>1. InPlace(text'[file], pos + 1)
      BY <1>1, <1>2, NotProperties DEF LineRead
    <3> QED
      BY <1>1, <1>2, <2>8, <3>1, LineAccepted
  <2>10. Keeps(nodes, closed) /\ Len(closed) = Len(nodes)
    BY <1>5, <1>6, NextChanges
  <2>11. outer.prev \in 1..Len(nodes)
    <3>1. Len(blocks) - 1 \in 1..Len(blocks)
      BY <1>6, <2>5
    <3> QED
      BY <1>5, <3>1, LastCall
  <2> HIDE DEF closed, outer
  <2>12. Keeps(closed, nodes') /\ Len(nodes') = Len(closed)
    BY <1>6, <2>1, <2>10, <2>11, TiltedUpKeeps DEF Keeps
  <2>13. AllPlaced(text', nodes')
    BY <1>1, <2>10, <2>12, KeptArePlaced DEF Here
  <2>14. Forms'
    BY <1>1, <1>3, <1>5, <2>6, <2>10, <2>12 DEF Forms, Keeps, None
  <2>15. PropFits(nodes', prop', KindAt(text'[file'], pos'))
    BY <1>2, <1>3, <1>4 DEF PropFits
  <2>16. stage' = "parse"
    BY <1>1, <2>1 DEF LineRead
  <2> QED
    BY <1>4, <2>8, <2>9, <2>13, <2>14, <2>15, <2>16, StillParsing
<1> QED
  BY <1>7, <1>8

(* The line that sourced the current file *)
LEMMA SourceLine ==
    ASSUME NEW t \in Texts, NEW P, NEW R, PathOK(t, P, R), Len(P) > 1,
           NEW f, f = P[Len(P) - 1], NEW n, n = R[Len(P) - 1]
    PROVE  /\ f \in Files /\ n \in 1..Len(t[f]) /\ IsSource(t, f, n) /\ t[f][n].files \in Seq(Files)
           /\ P[Len(P)] \in Asked(t, f, n) /\ KindAt(t[f], n) = "source"
           /\ P[Len(P)] \in Files /\ Len(P) - 1 \in 1..(Len(P) - 1) /\ Len(P) - 1 \in 1..Len(P)
<1> DEFINE L == Len(P)
<1>1. L \in Nat /\ L - 1 \in 1..(L - 1) /\ L - 1 \in 1..L /\ L \in 1..L /\ (L - 1) + 1 = L
  <2>1. L \in Nat
    BY DEF PathOK, PathTyped
  <2> QED
    BY <2>1
<1>2. f \in Files /\ n \in Nat /\ P[L] \in Files
  <2>1. PathTyped(P, R)
    BY DEF PathOK
  <2> QED
    BY <1>1, <2>1, MoreIs
<1>3. ReadTo(t, f, n)
  BY <1>1 DEF PathOK, PathRead
<1>4. Sources(t, f, n, P[L])
  <2>1. Sources(t, P[L - 1], R[L - 1], P[(L - 1) + 1])
    BY <1>1 DEF PathOK, PathSourced
  <2> QED
    BY <1>1, <2>1
<1>5. t[f] \in Seq(Line) /\ n \in 1..Len(t[f])
  <2>1. t[f] \in Seq(Line)
    BY <1>2 DEF Texts
  <2> QED
    BY <1>2, <1>3, <1>4, <2>1 DEF ReadTo, Sources
<1>6. t[f][n] \in Line /\ t[f][n].t = "source"
  BY <1>4, <1>5 DEF Sources, IsSource
<1>7. t[f][n].files \in Seq(Files)
  BY <1>6, LineKinds
<1>8. KindAt(t[f], n) = "source"
  <2>1. n - 1 \in Nat /\ (n - 1) + 1 = n
    BY <1>5
  <2>2. KindAt(t[f], (n - 1) + 1) = IF t[f][(n - 1) + 1].t \in Properties
                                    THEN KindAt(t[f], n - 1) ELSE t[f][(n - 1) + 1].t
    BY <2>1, KindAtStep
  <2>3. "source" \notin Properties
    BY DEF Properties
  <2> QED
    BY <1>6, <2>1, <2>2, <2>3
<1> QED
  BY <1>1, <1>2, <1>4, <1>5, <1>7, <1>8 DEF Sources

(* The last call is of a file when it ends with one, and of a block if not. *)
LEMMA FileEndsCall ==
    ASSUME NEW t, NEW P, NEW R, PathTyped(P, R), NEW B, NEW K, CallsOK(t, P, R, B, K)
    PROVE  /\ B[Len(B)].end = "eof" <=> K[Len(K)].at = 0
           /\ Len(B) = Len(K) /\ CallsNest(P, K) /\ Len(K) \in Nat \ {0}
<1>1. CallsNest(P, K) /\ Len(B) = Len(K)
  BY DEF CallsOK, Calls
<1>2. Len(K) \in Nat \ {0} /\ Len(K) \in 1..Len(K)
  BY <1>1, NestTypes
<1>3. OpenAt(t[P[K[Len(K)].level]], R[K[Len(K)].level], B[Len(K)].end, K[Len(K)])
  BY <1>2 DEF CallsOK, Calls
<1>4. K[Len(K)].at # 0 => B[Len(K)].end \in Ends
  <2>1. \A b \in Blocks : EndOf[b] \in Ends
    BY DEF Ends
  <2> QED
    BY <1>3, <2>1 DEF OpenAt
<1>5. "eof" \notin Ends
  BY KindsDiffer
<1> QED
  BY <1>1, <1>2, <1>3, <1>4, <1>5 DEF OpenAt

(* The call of a file has the files to come of the line that sources it.   *)
LEMMA RestHere ==
    ASSUME NEW t, NEW P, NEW R, PathTyped(P, R), NEW B, NEW K, CallsOK(t, P, R, B, K),
           Len(K) > 1, K[Len(K)].at = 0
    PROVE  /\ Len(P) > 1
           /\ RestOf(t, P[Len(P) - 1], R[Len(P) - 1], P[Len(P)], B[Len(B)].rest)
<1> DEFINE len == Len(K)
           L == Len(P)
<1>1. /\ CallsNest(P, K) /\ Len(B) = len /\ Rests(t, P, R, B, K) /\ L \in Nat \ {0}
  BY MoreIs DEF CallsOK, Calls
<1>2. /\ K[len - 1].level = L - 1 /\ L > 1 /\ len - 1 \in 1..(len - 1) /\ (len - 1) + 1 = len
  BY <1>1, FileIsNewest
<1>3. (L - 1) + 1 = L
  BY <1>1
<1>4. RestOf(t, P[K[len - 1].level], R[K[len - 1].level], P[K[len - 1].level + 1],
             B[(len - 1) + 1].rest)
  <2>1. K[(len - 1) + 1].at = 0
    BY <1>2
  <2> QED
    BY <1>1, <1>2, <2>1 DEF Rests
<1> QED
  BY <1>1, <1>2, <1>3, <1>4

-----------------------------------------------------------------------------
(* source keeps it: the file is entered, or it is open already and so      *)
(* sources itself.                                                         *)
LEMMA SourceParsed ==
    ASSUME NEW line, NEW K, Ready(line, K), ParseSource(line)
    PROVE  ParserInv'
<1> DEFINE f == file
           n == pos + 1
<1>1. /\ Position /\ Forms /\ LineRead(line) /\ PathHere /\ Here /\ file \in Files
      /\ NextOf(text', Path, Reads) = line /\ CallsOK(text', Path, Reads, blocks, K)
  BY DEF Ready, ParserInv, Position
<1>2. /\ line.t = "source" /\ line.t \notin Properties /\ line.t \notin Blocks /\ line.t \notin Ends
      /\ line.t # "eof" /\ line.t \notin Holders /\ line \in Line /\ line.files \in Seq(Files)
  BY <1>1, KindsDiffer, LineKinds DEF ParseSource, Properties, Holders, LineRead
<1>3. prop' = None /\ nodes' = nodes
  BY DEF ParseSource
<1>4. /\ text' \in Texts /\ pos \in Nat /\ n \in Nat /\ n \in 1..Len(text'[f])
      /\ text'[f][n] = line /\ IsSource(text', f, n) /\ stage = "parse"
      /\ n <= Len(text'[f])
  BY <1>1, <1>2 DEF LineRead, IsSource
<1>5. /\ PathOK(text', Path, Reads) /\ PathTyped(Path, Reads)
      /\ Path[Len(Path)] = f /\ Reads[Len(Reads)] = pos
      /\ More(Reads) = ReadsOf(readers, pos + 1)
      /\ Len(Path) = Len(include) + 1
      /\ \A m \in 1..Len(include) : Path[m] = include[m][1]
  BY <1>1 DEF PathHere
<1>6. /\ include \in Opens /\ readers \in Seq(Nat) /\ Len(include) = Len(readers) /\ linenr \in Nat
      /\ linenr = pos /\ Len(include) \in Nat
      /\ \A m \in 1..Len(include) : include[m][2] = readers[m]
  BY <1>1 DEF Position, Here, Opens
<1>7. /\ Len(nodes) \in Nat \ {0} /\ blocks \in BlocksOf(Len(nodes)) /\ IsNodes(nodes)
  BY <1>1, NodesAre DEF Forms
<1>8. InPlace(text'[f], n)
  BY <1>2, <1>4, NotProperties
<1>9. line.files # <<>> \/ ~line.obligatory => TextOK(text')
  BY <1>1, <1>2, <1>8, TextGrows DEF LineRead
<1>10. AllPlaced(text', nodes')
  BY <1>1, <1>3 DEF Here
<1>11. CallsOK(text', Path, More(Reads), blocks, K)
  <2>1. NextOf(text', Path, Reads).t \notin Blocks \cup Ends
    BY <1>1, <1>2
  <2>2. SameCalls(blocks, blocks, Len(blocks))
    BY DEF SameCalls
  <2> QED
    BY <1>1, <1>4, <1>5, <2>1, <2>2, CallsAdvance
<1>12. CASE line.files = <<>>
  <2>1. /\ stage' = (IF line.obligatory THEN "error" ELSE stage)
        /\ pos' = pos + 1 /\ linenr' = linenr + 1 /\ UNCHANGED <<file, include, readers, blocks>>
    BY <1>12 DEF ParseSource
  <2>2. /\ Position' /\ Path' = Path /\ Reads' = More(Reads)
        /\ linenr' = pos' /\ (\A m \in 1..Len(include') : include'[m][2] = readers'[m])
        /\ KindAt(text'[file'], pos') = line.t
    BY <1>1, <1>2, <2>1, LineConsumed
  <2>3. Forms'
    BY <1>1, <1>3, <1>7, <2>1 DEF Forms, None
  <2>4. CASE line.obligatory
    <3>1. ~WellFormed(text')
      BY <1>1, <1>2, <1>4, <1>12, <2>4, MissingIsWrong
    <3> QED
      BY <2>1, <2>2, <2>3, <2>4, <3>1 DEF ParserInv, Located, Parsing, Judged
  <2>5. CASE ~line.obligatory
    <3>1. Asked(text', f, n) \subseteq Dones(text')
      BY <1>4, <1>12 DEF Asked, ToSet
    <3>2. PathOK(text', Path, [Reads EXCEPT ![Len(Reads)] = n])
      <4>1. text'[f][pos + 1].t # "eof"
        BY <1>2, <1>4
      <4> QED
        BY <1>4, <1>5, <3>1, <4>1, PathAdvances
    <3>3. PathOK(text', Path, More(Reads))
      BY <1>5, <3>2 DEF More
    <3>4. PropFits(nodes', prop', KindAt(text'[file'], pos'))
      BY <1>2, <1>3, <2>2 DEF PropFits
    <3>5. stage' = "parse"
      BY <1>4, <2>1, <2>5
    <3>6. CallsOK(text', Path', Reads', blocks', K)
      BY <1>11, <2>1, <2>2
    <3> QED
      BY <1>9, <1>10, <2>2, <2>3, <2>5, <3>3, <3>4, <3>5, <3>6, StillParsing
  <2> QED
    BY <2>4, <2>5
<1>13. CASE line.files # <<>>
  <2> DEFINE h == Head(line.files)
  <2>1. /\ EnterFile(line.files, Append(include, <<file, linenr + 1>>),
                     Append(readers, pos + 1), blocks)
    BY <1>13 DEF ParseSource
  <2>2. /\ include' = Append(include, <<file, linenr + 1>>) /\ readers' = Append(readers, pos + 1)
    BY <2>1 DEF EnterFile
  <2>3. /\ h \in Files /\ h \in Asked(text', f, n)
        /\ RestOf(text', f, n, h, Tail(line.files))
    BY <1>2, <1>4, <1>13, RestStarts
  <2>4. /\ include' \in Opens /\ Len(include') = Len(include) + 1
        /\ include'[Len(include) + 1] = <<file, pos + 1>>
        /\ \A m \in 1..Len(include) : include'[m] = include[m]
    <3>1. <<file, linenr + 1>> \in Files \X Nat
      BY <1>1, <1>6
    <3> QED
      BY <1>6, <2>2, <3>1, AppendIs DEF Opens
  <2>5. /\ readers' \in Seq(Nat) /\ Len(readers') = Len(readers) + 1
        /\ readers'[Len(readers) + 1] = pos + 1
        /\ \A m \in 1..Len(readers) : readers'[m] = readers[m]
    BY <1>4, <1>6, <2>2, AppendIs
  <2>6. \A m \in 1..Len(include') : include'[m][1] = Path[m] /\ include'[m][2] = readers'[m]
    <3> TAKE m \in 1..Len(include')
    <3>1. CASE m = Len(include) + 1
      <4>1. include'[m] = <<file, pos + 1>> /\ readers'[m] = pos + 1 /\ Path[m] = file
        BY <1>5, <1>6, <2>4, <2>5, <3>1
      <4> QED
        BY <4>1
    <3>2. CASE m # Len(include) + 1
      <4>1. m \in 1..Len(include)
        BY <1>6, <2>4, <3>2
      <4> QED
        BY <1>5, <1>6, <2>4, <2>5, <4>1
    <3> QED
      BY <3>1, <3>2
  <2>7. DOMAIN include' = 1..Len(Path) /\ Len(include') = Len(Path) /\ Len(include') = Len(readers')
    BY <1>5, <1>6, <2>4, <2>5 DEF Opens
  <2> HIDE DEF h
  <2>8. CASE \E i \in DOMAIN include' : include'[i][1] = h
    <3>1. stage' = "error" /\ UNCHANGED <<file, linenr, pos, blocks>>
      BY <2>1, <2>2, <2>8 DEF EnterFile, h
    <3>2. PICK m \in 1..Len(Path) : Path[m] = h
      BY <2>6, <2>7, <2>8
    <3>3. SourcesItself(text', h)
      <4>1. Len(Path) \in 1..Len(Path) /\ m \in 1..Len(Path)
        BY <1>5, <1>6
      <4>2. IsSource(text', Path[Len(Path)], n) /\ Path[m] \in Asked(text', Path[Len(Path)], n)
            /\ n \in 1..Len(text'[Path[Len(Path)]])
        BY <1>4, <1>5, <2>3, <3>2
      <4>3. SourcesItself(text', Path[m])
        BY <1>4, <1>5, <4>1, <4>2, PathLoops
      <4> QED
        BY <3>2, <4>3
    <3>4. ~WellFormed(text')
      BY <2>3, <3>3, LoopIsWrong
    <3>5. Position'
      <4>1. pos \in 0..Len(text'[file])
        BY <1>4
      <4> QED
        BY <1>1, <1>4, <1>6, <2>4, <2>5, <2>7, <3>1, <4>1 DEF Position
    <3>6. Forms'
      BY <1>1, <1>3, <1>7, <3>1 DEF Forms, None
    <3> QED
      BY <3>1, <3>4, <3>5, <3>6 DEF ParserInv, Located, Parsing, Judged
  <2>9. CASE ~\E i \in DOMAIN include' : include'[i][1] = h
    <3> DEFINE call == Call("eof", Last(blocks).parent, Last(blocks).prev, Tail(line.files))
    <3>1. /\ file' = h /\ linenr' = 0 /\ pos' = 0 /\ stage' = stage /\ blocks' = Append(blocks, call)
      BY <2>1, <2>2, <2>9 DEF EnterFile, h
    <3>2. \A m \in 1..Len(Path) : Path[m] # h
      BY <2>6, <2>7, <2>9
    <3>3. PathOK(text', Append(Path, h), Append(More(Reads), 0))
      <4>1. PathOK(text', Append(Path, h), Append([Reads EXCEPT ![Len(Reads)] = n], 0))
        BY <1>4, <1>5, <2>3, <3>2, PathEnters
      <4>2. [Reads EXCEPT ![Len(Reads)] = n] = More(Reads)
        BY <1>5 DEF More
      <4> QED
        BY <4>1, <4>2
    <3>4. Path' = Append(Path, h) /\ Reads' = Append(More(Reads), 0)
      <4>1. Path' = PathOf(Append(include, <<file, linenr + 1>>), h)
        BY <2>2, <3>1 DEF Path
      <4>2. linenr + 1 \in Nat
        BY <1>6
      <4>3. PathOf(Append(include, <<file, linenr + 1>>), h) = Append(PathOf(include, file), h)
        BY <1>1, <1>6, <2>3, <4>2, EnterPath
      <4>4. Reads' = Append(More(Reads), 0)
        BY <1>5, <2>2, <3>1 DEF Reads, ReadsOf
      <4> QED
        BY <4>1, <4>3, <4>4 DEF Path
    <3>5. /\ blocks' \in BlocksOf(Len(nodes)) /\ Len(blocks') = Len(blocks) + 1
          /\ blocks'[Len(blocks) + 1] = call /\ SameCalls(blocks, blocks', Len(blocks))
      <4>1. call \in BlockRecords(Len(nodes))
        <5>1. Tail(line.files) \in Seq(Files)
          BY <1>2, <1>13
        <5>2. Last(blocks).parent \in 1..Len(nodes) /\ Last(blocks).prev \in 1..Len(nodes)
          BY <1>7, LastCall
        <5> QED
          BY <5>1, <5>2 DEF BlockRecords, Call
      <4> HIDE DEF call
      <4> QED
        BY <1>7, <3>1, <4>1, CallAdded
    <3>6. CallsOK(text', Append(Path, h), Append(More(Reads), 0), blocks',
                  Append(K, FileCall(Path)))
      <4>1. call.end = "eof" /\ call.rest = Tail(line.files)
        BY DEF Call
      <4> HIDE DEF call
      <4>2. PathTyped(Path, More(Reads)) /\ More(Reads)[Len(Path)] = n
        <5>1. Reads[Len(Path)] = pos
          BY <1>5 DEF PathTyped
        <5> QED
          BY <1>5, <5>1, MoreIs
      <4>3. RestOf(text', Path[Len(Path)], More(Reads)[Len(Path)], h, blocks'[Len(blocks) + 1].rest)
        BY <1>5, <2>3, <3>5, <4>1, <4>2
      <4>4. blocks'[Len(blocks) + 1].end = "eof"
        BY <3>5, <4>1
      <4> QED
        BY <1>4, <1>11, <2>3, <3>5, <4>2, <4>3, <4>4, CallsEnter
    <3>7. Position'
      <4>1. pos' \in 0..Len(text'[file'])
        <5>1. text'[h] \in Seq(Line)
          BY <1>4, <2>3 DEF Texts
        <5>2. Len(text'[h]) \in Nat
          BY <5>1
        <5> QED
          BY <3>1, <5>2
      <4> QED
        BY <1>4, <2>3, <2>4, <2>5, <2>7, <3>1, <4>1 DEF Position
    <3>8. Forms'
      BY <1>1, <1>3, <1>7, <3>5 DEF Forms, None
    <3>9. PropFits(nodes', prop', KindAt(text'[file'], pos'))
      <4>1. KindAt(text'[file'], pos') = "none"
        BY <3>1, KindAtStep
      <4> QED
        BY <1>3, <4>1 DEF PropFits, Holders
    <3>10. linenr' = pos' /\ stage' = "parse"
      BY <1>4, <3>1
    <3>11. CallsOK(text', Path', Reads', blocks', Append(K, FileCall(Path)))
           /\ PathOK(text', Path', Reads')
      BY <3>3, <3>4, <3>6
    <3>12. \A m \in 1..Len(include') : include'[m][2] = readers'[m]
      BY <2>6
    <3> QED
      BY <1>9, <1>10, <1>13, <3>7, <3>8, <3>9, <3>10, <3>11, <3>12, StillParsing
  <2> QED
    BY <2>8, <2>9
<1> QED
  BY <1>12, <1>13

(* At the end of a file its blocks were ended, and the files it sources are *)
(* done.                                                                    *)
LEMMA FileIsDone ==
    ASSUME NEW line, NEW K, Ready(line, K), line.t = "eof", K[Len(K)].at = 0
    PROVE  TextOK(text') /\ file \in Dones(text')
<1>1. /\ LineRead(line) /\ PathHere /\ file \in Files /\ CallsOK(text', Path, Reads, blocks, K)
  BY DEF Ready, ParserInv, Position
<1>2. /\ text' \in Texts /\ pos \in Nat /\ PathTyped(Path, Reads) /\ Current(Path) = file
      /\ Reads[Len(Reads)] = pos /\ Path[Len(Path)] = file /\ TextOK(text)
      /\ Read(text, text', file, pos, line) /\ text'[file][pos + 1] = line
      /\ \A i \in 1..pos : text[file][i].t # "eof"
  BY <1>1 DEF LineRead, PathHere
<1>3. ASSUME NEW i \in 1..pos, text'[file][i].t \in Blocks
      PROVE  Matched(text'[file], pos, i)
  BY <1>1, <1>2, <1>3, AllAreMatched
<1>4. ASSUME NEW i \in 1..pos, text'[file][i].t = "source"
      PROVE  ToSet(text'[file][i].files) \subseteq Dones(text)
  <2>1. PathOK(text, Path, Reads) /\ text \in Texts
    BY <1>1 DEF Ready, ParserInv, Parsing, Position, LineRead
  <2>2. DoneTo(text, file, pos)
    <3>1. Reads[Len(Path)] = pos
      BY <1>2 DEF PathTyped
    <3> QED
      BY <1>2, <2>1, <3>1 DEF PathOK, PathDone
  <2>3. text'[file][i] = text[file][i]
    <3>1. Len(text[file]) \in Nat /\ Agree(text[file], text'[file], Len(text[file]))
      BY <1>1, <1>2, <2>1, ReadAgrees
    <3>2. pos \in 0..Len(text[file])
      BY <1>2 DEF Read
    <3>3. i \in 1..Len(text[file])
      BY <3>1, <3>2
    <3> QED
      BY <3>1, <3>3 DEF Agree
  <2> QED
    BY <1>4, <2>2, <2>3 DEF DoneTo, IsSource, Asked
<1>5. InPlace(text'[file], pos + 1)
  <2>1. line.t \notin Properties
    BY DEF Properties
  <2> QED
    BY <1>2, <2>1, NotProperties
<1>6. line.t \notin Ends /\ line.t # "source"
  BY KindsDiffer
<1> QED
  BY <1>1, <1>2, <1>3, <1>4, <1>5, <1>6, TextGrows

(* The end of a file keeps it, whether parsing is over, goes back or       *)
(* enters the next file.                                                   *)
LEMMA EofParsed ==
    ASSUME NEW line, NEW K, Ready(line, K), ParseEof(line)
    PROVE  ParserInv'
<1> DEFINE f == file
           L == Len(Path)
           t == text'
<1>1. /\ Position /\ Forms /\ LineRead(line) /\ PathHere /\ Here /\ file \in Files
      /\ NextOf(text', Path, Reads) = line /\ CallsOK(text', Path, Reads, blocks, K)
      /\ line.t = "eof" /\ prop' = None
  BY DEF Ready, ParserInv, Position, ParseEof
<1>2. /\ text' \in Texts /\ pos \in Nat /\ pos + 1 = Len(text'[file]) /\ stage = "parse"
      /\ pos + 1 \in 1..Len(text'[file])
  BY <1>1 DEF LineRead
<1>3. /\ PathOK(text', Path, Reads) /\ PathTyped(Path, Reads) /\ L = Len(include) + 1
      /\ Path[L] = file /\ Current(Path) = file /\ Reads[Len(Reads)] = pos
      /\ \A m \in 1..Len(include) : Path[m] = include[m][1] /\ Reads[m] = readers[m]
  BY <1>1 DEF PathHere
<1>4. /\ include \in Opens /\ readers \in Seq(Nat) /\ Len(include) = Len(readers) /\ linenr \in Nat
      /\ linenr = pos /\ Len(include) \in Nat /\ AllPlaced(text', nodes)
      /\ \A m \in 1..Len(include) : include[m][2] = readers[m]
  BY <1>1 DEF Position, Here, Opens
<1>5. /\ Len(nodes) \in Nat \ {0} /\ blocks \in BlocksOf(Len(nodes)) /\ IsNodes(nodes)
  BY <1>1, NodesAre DEF Forms
<1>6. /\ Len(blocks) \in Nat \ {0} /\ Block = blocks[Len(blocks)] /\ Block.rest \in Seq(Files)
      /\ Block.prev \in 1..Len(nodes) /\ Block.parent \in 1..Len(nodes)
  BY <1>5, LastCall DEF Block
<1>7. /\ Block.end = "eof" <=> K[Len(K)].at = 0
      /\ Len(blocks) = Len(K) /\ CallsNest(Path, K) /\ Len(K) \in Nat \ {0}
  BY <1>1, <1>3, <1>6, FileEndsCall
<1>8. Len(blocks) \in Nat \ {0}
  BY <1>6
<1>9. CASE Block.end # "eof"
  <2>1. stage' = "error" /\ UNCHANGED <<file, linenr, pos, include, readers, blocks, nodes>>
    BY <1>9 DEF ParseEof, reader
  <2>2. ~WellFormed(text')
    <3>1. Reads[Len(Reads)] + 1 = Len(text'[Current(Path)]) /\ K[Len(K)].at # 0
      BY <1>2, <1>3, <1>7, <1>9
    <3> QED
      BY <1>1, <1>2, <1>3, <3>1, UnclosedIsWrong
  <2>3. Position' /\ Forms'
    BY <1>1, <1>2, <1>4, <1>5, <2>1 DEF Position, Forms, None
  <2> QED
    BY <2>1, <2>2, <2>3 DEF ParserInv, Located, Parsing, Judged
<1>10. CASE Block.end = "eof"
  <2>1. TextOK(text') /\ file \in Dones(text') /\ K[Len(K)].at = 0
    BY <1>1, <1>7, <1>10, FileIsDone
  <2> DEFINE outer == Front(blocks)
             back == SetPrev(outer, Len(outer), Block.prev)
  <2>2. /\ nodes' = SetNext(nodes, Block.prev, None)
        /\ Len(blocks) = 1 => /\ stage' = "parsed"
                              /\ UNCHANGED <<file, linenr, pos, include, readers, blocks>>
        /\ Len(blocks) > 1 =>
              /\ Block.rest = <<>> => LeaveFile /\ blocks' = back /\ stage' = stage
              /\ Block.rest # <<>> => EnterFile(Block.rest, include, readers, back)
    <3>1. nodes' = [nodes EXCEPT ![Block.prev].next = None]
      BY <1>10 DEF ParseEof
    <3>5. Len(blocks) > 1 => Len(blocks) # 1
      <4>1. \A x \in Nat : x > 1 => x # 1
        OBVIOUS
      <4> QED
        BY <1>8, <4>1
    <3>2. ASSUME Len(blocks) = 1
          PROVE  stage' = "parsed" /\ UNCHANGED <<file, linenr, pos, include, readers, blocks>>
      BY <1>10, <3>2 DEF ParseEof, reader
    <3>3. ASSUME Len(blocks) > 1, Block.rest = <<>>
          PROVE  LeaveFile /\ blocks' = back /\ stage' = stage
      <4>1. Len(blocks) # 1
        BY <3>3, <3>5
      <4>2. LeaveFile /\ blocks' = [outer EXCEPT ![Len(outer)].prev = Block.prev] /\ stage' = stage
        BY <1>10, <3>3, <4>1 DEF ParseEof
      <4> QED
        BY <4>2 DEF SetPrev
    <3>4. ASSUME Len(blocks) > 1, Block.rest # <<>>
          PROVE  EnterFile(Block.rest, include, readers, back)
      <4>1. Len(blocks) # 1
        BY <3>4, <3>5
      <4>2. EnterFile(Block.rest, include, readers,
                      [outer EXCEPT ![Len(outer)].prev = Block.prev])
        BY <1>10, <3>4, <4>1 DEF ParseEof
      <4> QED
        BY <4>2 DEF SetPrev
    <3> QED
      BY <3>1, <3>2, <3>3, <3>4 DEF SetNext
  <2>3. Keeps(nodes, nodes') /\ Len(nodes') = Len(nodes) /\ IsNodes(nodes')
    BY <1>5, <1>6, <2>2, NextChanges DEF Keeps
  <2>4. AllPlaced(text', nodes')
    BY <1>4, <2>3, KeptArePlaced
  <2>5. CASE Len(blocks) = 1
    <3>1. stage' = "parsed" /\ UNCHANGED <<file, linenr, pos, include, readers, blocks>>
      BY <2>2, <2>5
    <3>2. L = 1
      BY <1>7, <2>5 DEF CallsNest
    <3>3. \A o \in Files : text'[o] # <<>> => o \in Dones(text')
      <4> TAKE o \in Files
      <4>1. text'[o] # <<>> => o \in Dones(text') \/ \E m \in 1..L : Path[m] = o
        BY <1>3 DEF PathOK, PathCovers
      <4>2. \A m \in 1..L : m = L
        BY <3>2
      <4> QED
        BY <1>3, <2>1, <4>1, <4>2
    <3>4. WellFormed(text')
      BY <2>1, <3>3, AcceptedIsRight
    <3>5. Position' /\ Forms'
      BY <1>1, <1>2, <1>4, <1>5, <2>3, <3>1 DEF Position, Forms, None
    <3> QED
      BY <1>4, <2>4, <3>1, <3>4, <3>5 DEF ParserInv, Located, Parsing, Judged
  <2>6. CASE Len(blocks) > 1
    <3> DEFINE o == Path[L - 1]
               n == Reads[L - 1]
               rest == Block.rest
    <3>1. /\ L > 1 /\ RestOf(text', o, n, Path[L], rest)
      BY <1>1, <1>3, <1>6, <1>7, <2>1, <2>6, RestHere
    <3>2. /\ o \in Files /\ n \in 1..Len(text'[o]) /\ IsSource(text', o, n)
          /\ text'[o][n].files \in Seq(Files) /\ KindAt(text'[o], n) = "source"
          /\ L - 1 \in 1..(L - 1) /\ L - 1 \in 1..L
      BY SMTT(30), <1>2, <1>3, <3>1, SourceLine
    <3>3. /\ rest = <<>> => Asked(text', o, n) \subseteq Dones(text')
          /\ rest # <<>> => /\ Head(rest) \in Files /\ Head(rest) \in Asked(text', o, n)
                            /\ RestOf(text', o, n, Head(rest), Tail(rest))
      <4>1. Path[L] \in Dones(text')
        BY <1>3, <2>1
      <4> QED
        BY <3>1, <3>2, <4>1, RestGoesOn
    <3>4. /\ back \in BlocksOf(Len(nodes)) /\ Len(back) = Len(blocks) - 1
          /\ SameCalls(blocks, back, Len(blocks) - 1)
      <4>1. /\ outer \in BlocksOf(Len(nodes)) /\ Len(outer) = Len(blocks) - 1
            /\ SameCalls(blocks, outer, Len(blocks) - 1) /\ Len(blocks) - 1 \in 1..Len(outer)
        BY <1>5, <2>6, CallReturns
      <4> HIDE DEF outer
      <4>2. Len(outer) \in 1..Len(outer)
        BY <4>1
      <4>3. /\ back \in BlocksOf(Len(nodes)) /\ Len(back) = Len(outer)
            /\ SameCalls(outer, back, Len(outer))
        BY <1>5, <1>6, <4>1, <4>2, PrevChanges
      <4> HIDE DEF back
      <4> QED
        BY <4>1, <4>3 DEF SameCalls
    <3> HIDE DEF outer, back, rest
    <3>5. L - 1 = Len(include) /\ Len(include) > 0 /\ Len(include) \in 1..Len(include)
      BY <1>3, <1>4, <3>1
    <3>6. CASE rest = <<>>
      <4>1. LeaveFile /\ blocks' = back /\ stage' = "parse"
        BY <1>2, <2>2, <2>6, <3>6 DEF rest
      <4>2. /\ file' = Last(include)[1] /\ linenr' = Last(include)[2] /\ pos' = Last(readers)
            /\ include' = Front(include) /\ readers' = Front(readers)
        BY <4>1 DEF LeaveFile
      <4>3. /\ include' \in Opens /\ readers' \in Seq(Nat) /\ Len(include') = Len(readers')
            /\ Last(include) = include[L - 1] /\ Last(readers) = readers[L - 1]
            /\ (\A m \in 1..Len(include') : /\ include'[m] = include[m] /\ readers'[m] = readers[m]
                                            /\ m \in 1..Len(include))
            /\ PathOf(Front(include), Last(include)[1]) = Front(Path)
            /\ ReadsOf(Front(readers), Last(readers)) = Front(Reads)
        BY SMTT(30), <1>1, <1>2, <1>4, <3>5, <4>2, LeavePath DEF Path, Reads
      <4>4. file' = o /\ pos' = n /\ linenr' = n
        <5>1. Path[L - 1] = include[L - 1][1] /\ Reads[L - 1] = readers[L - 1]
              /\ include[L - 1][2] = readers[L - 1]
          BY <1>3, <1>4, <3>5
        <5> QED
          BY <4>2, <4>3, <5>1
      <4>5. Path' = Front(Path) /\ Reads' = Front(Reads)
        BY <4>2, <4>3 DEF Path, Reads
      <4>6. PathOK(text', Front(Path), Front(Reads))
        <5>1. Path[L] \in Dones(text') /\ Asked(text', Path[L - 1], Reads[L - 1]) \subseteq Dones(text')
          BY <1>3, <2>1, <3>3, <3>6
        <5> QED
          BY <1>2, <1>3, <3>1, <5>1, PathLeaves
      <4>7. CallsOK(text', Front(Path), Front(Reads), blocks', Front(K))
        <5>1. Len(blocks') = Len(blocks) - 1 /\ SameCalls(blocks, blocks', Len(blocks) - 1)
          BY <3>4, <4>1
        <5>2. Len(K) > 1
          BY <1>7, <2>6
        <5> QED
          BY <1>1, <1>2, <1>3, <2>1, <5>1, <5>2, CallsLeave
      <4>8. Position'
        <5>1. n \in 0..Len(text'[o]) /\ n \in Nat
          BY <3>2
        <5> QED
          BY <1>2, <3>2, <4>3, <4>4, <5>1 DEF Position
      <4>9. Forms'
        BY <1>1, <1>5, <2>3, <3>4, <4>1 DEF Forms, None
      <4>10. PropFits(nodes', prop', KindAt(text'[file'], pos'))
        BY <1>1, <3>2, <4>4 DEF PropFits, Holders
      <4>11. \A m \in 1..Len(include') : include'[m][2] = readers'[m]
        BY <1>4, <4>3
      <4>12. linenr' = pos' /\ PathOK(text', Path', Reads')
             /\ CallsOK(text', Path', Reads', blocks', Front(K))
        BY <4>4, <4>5, <4>6, <4>7
      <4> QED
        BY <2>1, <2>4, <4>1, <4>8, <4>9, <4>10, <4>11, <4>12, StillParsing
    <3>7. CASE rest # <<>>
      <4> DEFINE h == Head(rest)
      <4>1. EnterFile(rest, include, readers, back)
        BY <2>2, <2>6, <3>7 DEF rest
      <4>2. include' = include /\ readers' = readers
        BY <4>1 DEF EnterFile
      <4>3. h \in Files /\ h \in Asked(text', o, n) /\ RestOf(text', o, n, h, Tail(rest))
        BY <3>3, <3>7
      <4>4. DOMAIN include = 1..(L - 1)
        BY <1>4, <3>5 DEF Opens
      <4>5. \A m \in 1..(L - 1) : include[m][1] = Path[m]
        BY <1>3, <3>5
      <4> HIDE DEF h
      <4>6. CASE \E i \in DOMAIN include : include[i][1] = h
        <5>1. stage' = "error" /\ UNCHANGED <<file, linenr, pos, blocks>>
          BY <4>1, <4>6 DEF EnterFile, h
        <5>2. PICK m \in 1..(L - 1) : Path[m] = h
          BY <4>4, <4>5, <4>6
        <5>3. SourcesItself(text', Path[m])
          <6>1. Path[m] \in Asked(text', Path[L - 1], n) /\ IsSource(text', Path[L - 1], n)
                /\ n \in 1..Len(text'[Path[L - 1]]) /\ L - 1 \in 1..Len(Path)
            BY <3>2, <4>3, <5>2
          <6> HIDE DEF n, o
          <6> QED
            BY <1>2, <1>3, <5>2, <6>1, PathLoops
        <5>4. ~WellFormed(text')
          BY <4>3, <5>2, <5>3, LoopIsWrong
        <5>5. Position' /\ Forms'
          BY <1>1, <1>2, <1>4, <1>5, <2>3, <4>2, <5>1 DEF Position, Forms, None
        <5> QED
          BY <5>1, <5>4, <5>5 DEF ParserInv, Located, Parsing, Judged
      <4>7. CASE ~\E i \in DOMAIN include : include[i][1] = h
        <5> DEFINE call == Call("eof", Last(back).parent, Last(back).prev, Tail(rest))
        <5>1. /\ file' = h /\ linenr' = 0 /\ pos' = 0 /\ stage' = "parse"
              /\ blocks' = Append(back, call)
          BY <1>2, <4>1, <4>2, <4>7 DEF EnterFile, h
        <5>2. \A m \in 1..(L - 1) : Path[m] # h
          BY <4>4, <4>5, <4>7
        <5>3. PathOK(text', [Path EXCEPT ![L] = h], [Reads EXCEPT ![L] = 0])
          <6>1. Path[L] \in Dones(text') /\ h \in Asked(text', Path[L - 1], Reads[L - 1])
            BY <1>3, <2>1, <4>3
          <6> QED
            BY <1>2, <1>3, <3>1, <4>3, <5>2, <6>1, PathTurns
        <5>4. Path' = [Path EXCEPT ![L] = h] /\ Reads' = [Reads EXCEPT ![L] = 0]
          <6>1. /\ PathOf(include, h) = [Path EXCEPT ![Len(include) + 1] = h]
                /\ ReadsOf(readers, 0) = [Reads EXCEPT ![Len(include) + 1] = 0]
            BY <1>1, <1>2, <1>4, <4>3, TurnPath DEF Path, Reads
          <6>2. Path' = PathOf(include, h) /\ Reads' = ReadsOf(readers, 0)
            BY <4>2, <5>1 DEF Path, Reads
          <6> QED
            BY <1>3, <6>1, <6>2
        <5>5. /\ blocks' \in BlocksOf(Len(nodes)) /\ Len(blocks') = Len(back) + 1
              /\ blocks'[Len(back) + 1] = call /\ SameCalls(back, blocks', Len(back))
          <6>1. call \in BlockRecords(Len(nodes))
            <7>1. Tail(rest) \in Seq(Files)
              BY <1>6, <3>7 DEF rest
            <7>2. Last(back).parent \in 1..Len(nodes) /\ Last(back).prev \in 1..Len(nodes)
              BY <1>5, <3>4, LastCall
            <7> QED
              BY <7>1, <7>2 DEF BlockRecords, Call
          <6> HIDE DEF call
          <6> QED
            BY <1>5, <3>4, <5>1, <6>1, CallAdded
        <5>6. /\ Len(blocks') = Len(blocks) /\ SameCalls(blocks, blocks', Len(blocks) - 1)
              /\ blocks'[Len(blocks)].end = "eof" /\ blocks'[Len(blocks)].rest = Tail(rest)
          <6>1. call.end = "eof" /\ call.rest = Tail(rest)
            BY DEF Call
          <6> HIDE DEF call
          <6>2. Len(blocks') = Len(blocks) /\ blocks'[Len(blocks)] = call
            BY <1>6, <3>4, <5>5
          <6>3. SameCalls(blocks, blocks', Len(blocks) - 1)
            BY <3>4, <5>5 DEF SameCalls
          <6> QED
            BY <6>1, <6>2, <6>3
        <5>7. CallsOK(text', [Path EXCEPT ![L] = h], [Reads EXCEPT ![L] = 0], blocks', K)
          <6>1. Len(K) > 1
            BY <1>7, <2>6
          <6>2. RestOf(text', Path[L - 1], Reads[L - 1], h, blocks'[Len(blocks)].rest)
            BY <4>3, <5>6
          <6> QED
            BY <1>1, <1>2, <1>3, <2>1, <4>3, <5>6, <6>1, <6>2, CallsTurn
        <5>8. Position'
          <6>1. pos' \in 0..Len(text'[file'])
            <7>1. text'[h] \in Seq(Line)
              BY <1>2, <4>3 DEF Texts
            <7>2. Len(text'[h]) \in Nat
              BY <7>1
            <7> QED
              BY <5>1, <7>2
          <6> QED
            BY <1>2, <1>4, <4>2, <4>3, <5>1, <6>1 DEF Position
        <5>9. Forms'
          BY <1>1, <1>5, <2>3, <5>5 DEF Forms, None
        <5>10. PropFits(nodes', prop', KindAt(text'[file'], pos'))
          <6>1. KindAt(text'[file'], pos') = "none"
            BY <5>1, KindAtStep
          <6> QED
            BY <1>1, <6>1 DEF PropFits, Holders
        <5>11. \A m \in 1..Len(include') : include'[m][2] = readers'[m]
          BY <1>4, <4>2
        <5>12. linenr' = pos' /\ PathOK(text', Path', Reads')
               /\ CallsOK(text', Path', Reads', blocks', K)
          BY <5>1, <5>3, <5>4, <5>7
        <5> QED
          BY <2>1, <2>4, <5>1, <5>8, <5>9, <5>10, <5>11, <5>12, StillParsing
      <4> QED
        BY <4>6, <4>7
    <3> QED
      BY <3>6, <3>7
  <2>7. Len(blocks) = 1 \/ Len(blocks) > 1
    BY <1>8
  <2> QED
    BY <2>5, <2>6, <2>7
<1> QED
  BY <1>9, <1>10

-----------------------------------------------------------------------------
(* The invariant is true before the first line. *)
LEMMA InitIsRight == Init => ParserInv
<1> SUFFICES ASSUME Init PROVE ParserInv
  OBVIOUS
<1> DEFINE P == <<file>>
           R == <<0>>
           call == [level |-> 1, at |-> 0, depth |-> 0]
           K == <<call>>
<1>1. /\ text = [f \in Files |-> <<>>] /\ file \in Files /\ linenr = 0 /\ pos = 0
      /\ include = <<>> /\ readers = <<>> /\ blocks = <<Call("eof", Top, Top, <<>>)>>
      /\ prop = None /\ nodes = <<Node("menu", "menu", None, <<file, 1>>)>> /\ stage = "parse"
  BY RootsAssumption DEF Init
<1>2. /\ text \in Texts /\ \A f \in Files : text[f] = <<>> /\ Len(text[f]) = 0
  BY <1>1 DEF Texts
<1>3. Position
  <2>1. include \in Opens /\ readers \in Seq(Nat) /\ Len(include) = 0 /\ Len(readers) = 0
    BY <1>1 DEF Opens
  <2> QED
    BY <1>1, <1>2, <2>1 DEF Position
<1>4. IsNodes(nodes) /\ Len(nodes) = 1
  <2> DEFINE top == Node("menu", "menu", None, <<file, 1>>)
  <2>1. IsNode(top)
    BY DEF IsNode, NodeFields, Node
  <2> HIDE DEF top
  <2>2. nodes \in Seq({top}) /\ Len(nodes) = 1
    BY <1>1 DEF top
  <2>3. \A n \in {top} : IsNode(n)
    BY <2>1
  <2> QED
    BY <2>2, <2>3 DEF IsNodes
<1>5. blocks \in BlocksOf(1) /\ Len(blocks) = 1 /\ blocks[1].end = "eof" /\ blocks[1].rest = <<>>
  <2> DEFINE b == Call("eof", Top, Top, <<>>)
  <2>1. b \in BlockRecords(1) /\ b.end = "eof" /\ b.rest = <<>>
    BY DEF BlockRecords, Call, Top
  <2> HIDE DEF b
  <2>2. blocks \in Seq(BlockRecords(1)) /\ Len(blocks) = 1 /\ blocks[1] = b
    BY <1>1, <2>1 DEF b
  <2> QED
    BY <2>1, <2>2 DEF BlocksOf
<1>6. Forms
  BY <1>1, <1>4, <1>5 DEF Forms, None
<1>7. Located
  <2>1. AllPlaced(text, nodes)
    BY <1>4 DEF AllPlaced
  <2> QED
    BY <1>1, <2>1 DEF Located
<1>8. Path = P /\ Reads = R
  <2>1. PathOf(<<>>, file) = <<file>>
    <3>1. <<>> \in Opens /\ Len(<<>>) = 0
      BY DEF Opens
    <3>2. /\ PathOf(<<>>, file) \in Seq(Files) /\ Len(PathOf(<<>>, file)) = Len(<<>>) + 1
          /\ PathOf(<<>>, file)[Len(<<>>) + 1] = file
      BY <1>1, <3>1, PathOfIs
    <3>3. Len(PathOf(<<>>, file)) = 1 /\ PathOf(<<>>, file)[1] = file
      BY <3>1, <3>2
    <3>4. P \in Seq(Files) /\ Len(P) = 1 /\ P[1] = file
      BY <1>1
    <3> HIDE DEF P
    <3>5. PathOf(<<>>, file) = P
      BY <3>2, <3>3, <3>4, SeqsEqual
    <3> QED
      BY <3>5 DEF P
  <2>2. ReadsOf(<<>>, 0) = <<0>>
    BY DEF ReadsOf
  <2> QED
    BY <1>1, <2>1, <2>2 DEF Path, Reads
<1>9. TextOK(text)
  <2>1. Dones(text) = {}
    BY <1>2 DEF Dones
  <2>2. \A f \in Files : LinesOK(text[f])
    BY <1>2 DEF LinesOK
  <2> QED
    BY <1>2, <2>1, <2>2 DEF TextOK
<1>10. /\ P \in Seq(Files) /\ Len(P) = 1 /\ P[1] = file
       /\ R \in Seq(Nat) /\ Len(R) = 1 /\ R[1] = 0
  BY <1>1
<1>11. /\ K \in Seq(CallRecords) /\ Len(K) = 1 /\ K[1] = call
       /\ call.level = 1 /\ call.at = 0 /\ call.depth = 0
  BY DEF CallRecords
<1> HIDE DEF P, R, K, call
<1>12. PathOK(text, P, R)
  <2>1. PathTyped(P, R) /\ PathDistinct(P)
    BY <1>10 DEF PathTyped, PathDistinct
  <2>2. PathRead(text, P, R)
    BY <1>2, <1>1, <1>10 DEF PathRead, ReadTo
  <2>3. PathSourced(text, P, R) /\ PathDone(text, P, R)
    BY <1>10 DEF PathSourced, PathDone, DoneTo
  <2>4. PathCovers(text, P)
    BY <1>2 DEF PathCovers
  <2> QED
    BY <2>1, <2>2, <2>3, <2>4 DEF PathOK
<1>13. CallsOK(text, P, R, blocks, K)
  <2>1. CallsNest(P, K)
    BY <1>10, <1>11 DEF CallsNest
  <2>2. Calls(text, P, R, blocks, K)
    BY <1>5, <1>10, <1>11 DEF Calls, OpenAt
  <2>3. CallsDeep(text, P, R, K)
    BY <1>10, <1>11, DepthStep DEF CallsDeep
  <2>4. AllCalled(text, P, R, K)
    BY <1>10 DEF AllCalled
  <2>5. Rests(text, P, R, blocks, K)
    BY <1>5, <1>11 DEF Rests
  <2> QED
    BY <2>1, <2>2, <2>3, <2>4, <2>5 DEF CallsOK
<1>14. PropFits(nodes, prop, KindAt(text[file], pos))
  BY <1>1, KindAtStep DEF PropFits, Holders
<1>15. Parsing
  BY <1>8, <1>9, <1>12, <1>13, <1>14 DEF Parsing
<1> QED
  BY <1>1, <1>3, <1>6, <1>7, <1>15 DEF ParserInv, Judged

(* Every line keeps it. *)
LEMMA ParseKeepsRight ==
    ASSUME LinesRight, ParserInv, [Parse]_treeVars
    PROVE  ParserInv'
<1>1. CASE UNCHANGED treeVars
  BY <1>1 DEF treeVars, reader, ParserInv, Position, Forms, Located, Parsing, Judged, Path, Reads
<1>2. CASE Parse
  <2>1. PICK line \in Lines :
            /\ NextLine(line)
            /\ \/ ParseEntry(line) \/ ParseBlock(line) \/ ParseEnd(line)
               \/ ParseSource(line) \/ ParseEof(line) \/ ParseProperty(line)
    BY <1>2 DEF Parse
  <2>2. PICK K : Ready(line, K)
    BY <2>1, LineIsRead DEF Ready
  <2> QED
    BY <2>1, <2>2, EntryParsed, BlockParsed, EndParsed, SourceParsed, EofParsed, PropertyParsed
<1> QED
  BY <1>1, <1>2

(* The invariant says what each variable may be, *)
LEMMA RightIsTyped == ParserInv => TypeOK
<1> SUFFICES ASSUME ParserInv PROVE TypeOK
  OBVIOUS
<1>1. Position /\ Forms /\ stage \in {"parse", "parsed", "error"}
  BY DEF ParserInv, Judged
<1>2. \A f \in Files : ToSet(text[f]) \subseteq Line
  BY <1>1 DEF Position, Texts, ToSet
<1>3. DOMAIN text = Files
  BY <1>1 DEF Position, Texts
<1>4. DOMAIN nodes = 1..Len(nodes) /\ Len(nodes) \in Nat \ {0}
  BY <1>1, NodesAre DEF Forms
<1>5. DOMAIN blocks = 1..Len(blocks)
  BY <1>1 DEF Forms, BlocksOf
<1>6. \A i \in 1..Len(blocks) : /\ blocks[i].end \in Ends \cup {"eof"}
                                /\ blocks[i].prev \in 1..Len(nodes)
                                /\ blocks[i].parent \in 1..Len(nodes)
  BY <1>1, <1>4, LastCall DEF Forms
<1>7. prop \in DOMAIN nodes \cup {None}
  BY <1>1, <1>4 DEF Forms, None
<1> QED
  BY <1>1, <1>2, <1>3, <1>4, <1>5, <1>6, <1>7 DEF TypeOK, Position

(* and that the nodes are where they say. *)
LEMMA RightIsWhereItSays == ParserInv => WhereItSays
<1> SUFFICES ASSUME ParserInv, stage # "error" PROVE WhereItSays
  BY DEF WhereItSays
<1>1. linenr = pos /\ AllPlaced(text, nodes)
  BY DEF ParserInv, Located
<1>2. DOMAIN nodes = 1..Len(nodes) /\ Len(nodes) \in Nat
  BY NodesAre DEF ParserInv, Forms
<1>3. ASSUME NEW n \in DOMAIN nodes \ {Top} PROVE Placed(text, nodes[n])
  <2>1. n \in 2..Len(nodes)
    BY <1>2, <1>3 DEF Top
  <2> QED
    BY <1>1, <2>1 DEF AllPlaced
<1> QED
  BY <1>1, <1>3 DEF WhereItSays, Placed

(* The invariant of the parser, however the files are nested, sourced and  *)
(* read again: the include path and the readers describe the open files,   *)
(* the calls of _parse_block are the blocks that are open in them, and     *)
(* the node that properties go to is that of the line before them.         *)
THEOREM ParserIsRight == ASSUME LinesRight PROVE ParseSpec => []ParserInv
<1>1. Init => ParserInv
  BY InitIsRight
<1>2. ParserInv /\ [Parse]_treeVars => ParserInv'
  BY ParseKeepsRight
<1> QED
  BY <1>1, <1>2, PTL DEF ParseSpec

(* _parse_block, _enter_file and _leave_file keep every stack, position and *)
(* node what it should be: the include path is as long as the file stack,  *)
(* no more is read of a file than it has, and every call is at nodes that  *)
(* exist.                                                                  *)
THEOREM ParserTypeCorrect == ASSUME LinesRight PROVE ParseSpec => []TypeOK
BY ParserIsRight, RightIsTyped, PTL

(* The filename and linenr of a node are those of the line that made it,   *)
(* and linenr is the position in the current file, across every file that  *)
(* _enter_file and _leave_file go into and back from.                      *)
THEOREM NodesSayWhereTheyAre == ASSUME LinesRight PROVE ParseSpec => []WhereItSays
BY ParserIsRight, RightIsWhereItSays, PTL

(* The parser accepts the files exactly when nothing is wrong with them:   *)
(* each block is ended by its own end in its own file, each property is    *)
(* said of what can have it, each file that must be there is, and no file  *)
(* sources itself in the end, which _enter_file finds out from the include *)
(* path alone.                                                             *)
THEOREM ParserAcceptsRightly == ASSUME LinesRight PROVE ParseSpec => []AcceptsRightly
<1>1. ParserInv => AcceptsRightly
  BY DEF ParserInv, Judged, AcceptsRightly
<1> QED
  BY <1>1, ParserIsRight, PTL

-----------------------------------------------------------------------------
Frames == [item : Items(g), skip : Items(g) \cup {NoItem},
           deps : SUBSET Items(g), rest : Seq(Items(g))]

SearchTypeOK ==
    /\ IsGraph(g)
    /\ visited \in [Items(g) -> {0, 1, 2}]
    /\ stack \in Seq(Frames)
    /\ loop \in Seq(Items(g))
    /\ next \in Nat \ {0}
    /\ outcome \in {"search", "loop", "accepted"}
    /\ finished \in Seq(Items(g))

DepEdge(a, b) == a \in g.syms /\ b \in g.dependents[a]

\* The calls of the frames: what they have left to do are edges.
CallsOf(frames) ==
    \A n \in 1..Len(frames) :
        /\ frames[n].item \in g.syms => frames[n].deps \subseteq g.dependents[frames[n].item]
        /\ frames[n].item \in g.choices => frames[n].deps = {}
        /\ \A j \in 1..Len(frames[n].rest) : Edge(frames[n].item, frames[n].rest[j])

ChainedIn(frames) ==
    \A n \in 1..(Len(frames) - 1) : Edge(frames[n].item, frames[n + 1].item)

\* A symbol called by its choice calls nothing but dependents, and a choice
\* called by one of its symbols skips it.
KindsOf(frames) ==
    \A n \in 2..Len(frames) :
        ~DepEdge(frames[n - 1].item, frames[n].item) =>
            /\ frames[n].item \in g.syms =>
                 /\ frames[n].rest = <<>>
                 /\ n < Len(frames) => DepEdge(frames[n].item, frames[n + 1].item)
            /\ frames[n].item \in g.choices => frames[n].skip = frames[n - 1].item

SearchCalls == CallsOf(stack)
Chained == ChainedIn(stack)
Kinds == loop = <<>> => KindsOf(stack)

\* An item that is marked 1 has a call that runs.
Visiting ==
    loop = <<>> => \A i \in Items(g) : visited[i] = 1 => \E n \in 1..Len(stack) : stack[n].item = i

\* The dependents a call is through with are marked 2, but for the last.
Explored ==
    loop = <<>> =>
        \A n \in 1..Len(stack) : stack[n].item \in g.syms =>
            \A d \in g.dependents[stack[n].item] \ stack[n].deps :
                visited[d] = 2 \/ (n < Len(stack) /\ stack[n + 1].item = d)

Checked ==
    loop = <<>> =>
        \A m \in 1..Len(g.order) : m < next =>
            visited[g.order[m]] = 2 \/ (Len(stack) > 0 /\ stack[1].item = g.order[m])

Settled == \A i \in Items(g) : visited[i] = 2 => \E n \in 1..Len(finished) : finished[n] = i

Ordered ==
    \A n \in 1..Len(finished) : finished[n] \in g.syms =>
        \A d \in g.dependents[finished[n]] : \E m \in 1..(n - 1) : finished[m] = d

\* The loop so far goes from a call that runs down to its first item.
Looping ==
    loop # <<>> =>
        /\ Len(stack) > 0
        /\ \E n \in 1..Len(stack) : stack[n].item = loop[1]
        /\ Edge(stack[Len(stack)].item, loop[Len(loop)])
        /\ \A n \in 1..(Len(loop) - 1) : Edge(loop[n + 1], loop[n])

Ended ==
    /\ outcome = "loop" =>
          loop # <<>> /\ Len(stack) > 0 /\ stack[Len(stack)].item = loop[1]
    /\ outcome = "accepted" => loop = <<>> /\ Len(stack) = 0 /\ next > Len(g.order)

SearchInv ==
    /\ SearchTypeOK /\ SearchCalls /\ Chained /\ Kinds /\ Visiting /\ Explored /\ Checked
    /\ Settled /\ Ordered /\ Looping /\ Ended

-----------------------------------------------------------------------------
\* A sequence without its last element
LEMMA Prefix ==
    ASSUME NEW S, NEW s \in Seq(S), Len(s) > 0
    PROVE  /\ SubSeq(s, 1, Len(s) - 1) \in Seq(S)
           /\ Len(SubSeq(s, 1, Len(s) - 1)) = Len(s) - 1
           /\ \A n \in 1..(Len(s) - 1) : SubSeq(s, 1, Len(s) - 1)[n] = s[n]
<1>1. Len(s) \in Nat /\ Len(s) - 1 \in Nat
  OBVIOUS
<1> DEFINE m == Len(s) - 1
<1>2. m \in Nat /\ m <= Len(s)
  BY <1>1
<1>3. Len(SubSeq(s, 1, m)) = m /\ \A n \in 1..m : SubSeq(s, 1, m)[n] = s[n]
  <2> HIDE DEF m
  <2> QED
    BY <1>2
<1>4. SubSeq(s, 1, m) \in Seq(S)
  <2> HIDE DEF m
  <2> QED
    BY <1>2
<1> QED
  BY <1>3, <1>4

\* A sequence with another last element
LEMMA Replaced ==
    ASSUME NEW S, NEW s \in Seq(S), NEW v \in S, Len(s) > 0
    PROVE  /\ [s EXCEPT ![Len(s)] = v] \in Seq(S)
           /\ Len([s EXCEPT ![Len(s)] = v]) = Len(s)
           /\ \A n \in 1..(Len(s) - 1) : [s EXCEPT ![Len(s)] = v][n] = s[n]
           /\ [s EXCEPT ![Len(s)] = v][Len(s)] = v
  OBVIOUS

\* What comes after the first element of a sequence
LEMMA Rest ==
    ASSUME NEW S, NEW s \in Seq(S), s # <<>>
    PROVE  /\ Len(s) \in Nat /\ Len(s) > 0 /\ Head(s) = s[1] /\ Head(s) \in S
           /\ Tail(s) \in Seq(S) /\ Len(Tail(s)) = Len(s) - 1
           /\ \A j \in 1..(Len(s) - 1) : Tail(s)[j] = s[j + 1]
  OBVIOUS

\* The innermost call
LEMMA Innermost ==
    ASSUME SearchTypeOK, stack # <<>>
    PROVE  /\ stack \in Seq(Frames) /\ Len(stack) \in Nat /\ Len(stack) > 0
           /\ Len(stack) \in 1..Len(stack)
           /\ Running = stack[Len(stack)] /\ Running \in Frames
           /\ Running.item \in Items(g) /\ Running.rest \in Seq(Items(g))
<1>1. stack \in Seq(Frames)
  BY DEF SearchTypeOK
<1>2. /\ Len(stack) \in Nat /\ Len(stack) > 0 /\ Len(stack) \in 1..Len(stack)
      /\ stack[Len(stack)] \in Frames
  <2> HIDE DEF Frames
  <2> QED
    BY <1>1
<1> QED
  BY <1>1, <1>2 DEF Running, Frames

\* A frame of a new call is one, and all it has to do are edges.
LEMMA FrameIsCall ==
    ASSUME SearchTypeOK, NEW i \in Items(g), NEW from \in Items(g) \cup {NoItem}
    PROVE  /\ Frame(i, from) \in Frames
           /\ Frame(i, from).item = i /\ Frame(i, from).skip = from
           /\ i \in g.syms => Frame(i, from).deps = g.dependents[i]
           /\ i \in g.choices => Frame(i, from).deps = {}
           /\ \A j \in 1..Len(Frame(i, from).rest) : Edge(i, Frame(i, from).rest[j])
           /\ i \in g.syms /\ from # NoItem => Frame(i, from).rest = <<>>
<1>1. Further(i, from) \in Seq(Items(g))
  <2>1. CASE i \in g.choices
    BY <2>1 DEF Further, SearchTypeOK, IsGraph, Items
  <2>2. CASE i \in g.syms
    <3>1. i \notin g.choices /\ g.choiceOf[i] \in g.choices \cup {NoItem}
      BY <2>2 DEF SearchTypeOK, IsGraph
    <3>2. CASE g.choiceOf[i] # NoItem /\ from = NoItem
      <4>1. Further(i, from) = <<g.choiceOf[i]>>
        BY <2>2, <3>1, <3>2 DEF Further
      <4> QED
        BY <3>1, <3>2, <4>1 DEF Items
    <3>3. CASE ~(g.choiceOf[i] # NoItem /\ from = NoItem)
      <4>1. Further(i, from) = <<>>
        BY <2>2, <3>1, <3>3 DEF Further
      <4> QED
        BY <4>1
    <3> QED
      BY <3>2, <3>3
  <2> QED
    BY <2>1, <2>2 DEF Items
<1>2. \A j \in 1..Len(Further(i, from)) : Edge(i, Further(i, from)[j])
  <2>1. CASE i \in g.choices
    <3>1. i \notin g.syms /\ g.members[i] \in Seq(g.syms)
      BY <2>1 DEF SearchTypeOK, IsGraph
    <3> QED
      BY <2>1, <3>1 DEF Further, Edge, ToRange
  <2>2. CASE i \in g.syms
    BY <2>2 DEF Further, SearchTypeOK, IsGraph, Edge
  <2> QED
    BY <2>1, <2>2 DEF Items
<1>3. IF i \in g.syms THEN g.dependents[i] \subseteq Items(g) /\ i \notin g.choices
                      ELSE i \in g.choices
  BY DEF SearchTypeOK, IsGraph, Items
<1>4. i \in g.syms /\ from # NoItem => Further(i, from) = <<>>
  BY DEF Further, SearchTypeOK, IsGraph
<1> QED
  BY <1>1, <1>2, <1>3, <1>4 DEF Frame, Frames

-----------------------------------------------------------------------------
\* The frames from which i is called are those that run, further on by the
\* call: i comes after the last of them, and what was done before is marked.
Prepared(frames, i, from) ==
    /\ frames \in Seq(Frames) /\ Len(frames) = Len(stack)
    /\ \A n \in 1..Len(frames) : frames[n].item = stack[n].item
    /\ CallsOf(frames) /\ ChainedIn(frames) /\ KindsOf(frames)
    /\ i \in Items(g) /\ from \in Items(g) \cup {NoItem}
    /\ Len(frames) > 0 => Edge(frames[Len(frames)].item, i)
    /\ \A n \in 1..Len(frames) : frames[n].item \in g.syms =>
          \A d \in g.dependents[frames[n].item] \ frames[n].deps :
              \/ visited[d] = 2
              \/ n < Len(frames) /\ frames[n + 1].item = d
              \/ n = Len(frames) /\ d = i
    /\ Len(frames) > 0 /\ ~DepEdge(frames[Len(frames)].item, i) =>
          /\ i \in g.syms => from # NoItem
          /\ i \in g.choices => from = frames[Len(frames)].item
          /\ frames[Len(frames)].item \in g.syms /\ Len(frames) > 1 =>
                DepEdge(frames[Len(frames) - 1].item, frames[Len(frames)].item)

\* The checks of the order go on with the call.
CheckedWith(frames, i, m) ==
    \/ visited[g.order[m]] = 2
    \/ Len(frames) > 0 /\ frames[1].item = g.order[m]
    \/ Len(frames) = 0 /\ i = g.order[m]

\* An item that was not visited: a frame is added for it.
LEMMA EnterInv ==
    ASSUME SearchInv, Searching, UNCHANGED <<g, loop, outcome, finished>>, next' \in Nat \ {0},
           NEW frames, NEW i, NEW from, Prepared(frames, i, from),
           \A m \in 1..Len(g.order) : m < next' => CheckedWith(frames, i, m),
           visited[i] = 0, visited' = [visited EXCEPT ![i] = 1],
           stack' = Append(frames, Frame(i, from))
    PROVE  SearchInv'
<1> DEFINE f == Frame(i, from)
<1> DEFINE L == Len(frames)
<1>1. SearchTypeOK /\ loop = <<>> /\ i \in Items(g) /\ from \in Items(g) \cup {NoItem}
      /\ visited \in [Items(g) -> {0, 1, 2}] /\ outcome = "search"
  BY DEF SearchInv, Searching, Prepared, SearchTypeOK
<1>2. /\ f \in Frames /\ f.item = i /\ f.skip = from
      /\ i \in g.syms => f.deps = g.dependents[i]
      /\ i \in g.choices => f.deps = {}
      /\ \A j \in 1..Len(f.rest) : Edge(i, f.rest[j])
      /\ i \in g.syms /\ from # NoItem => f.rest = <<>>
  BY <1>1, FrameIsCall
<1> HIDE DEF f
<1>3. /\ stack' = Append(frames, f) /\ frames \in Seq(Frames)
      /\ L \in Nat /\ L = Len(stack)
  BY DEF Prepared, f
<1>4. /\ stack' \in Seq(Frames) /\ Len(stack') = L + 1 /\ stack'[L + 1] = f
      /\ \A n \in 1..L : stack'[n] = frames[n]
  BY <1>2, <1>3
<1>0. L \in Nat
  BY <1>3
<1> HIDE DEF L
<1>5. /\ \A n \in 1..L : frames[n].item = stack[n].item
      /\ Items(g)' = Items(g) /\ Frames' = Frames
      /\ \A a, b : Edge(a, b)' <=> Edge(a, b)
      /\ \A a, b : DepEdge(a, b)' <=> DepEdge(a, b)
  BY DEF Prepared, Items, Frames, Edge, DepEdge, L
<1>6. /\ visited' \in [Items(g) -> {0, 1, 2}] /\ visited'[i] = 1
      /\ \A j \in Items(g) : j # i => visited'[j] = visited[j]
      /\ \A j \in Items(g) : visited'[j] = 2 <=> visited[j] = 2
  BY <1>1
<1>7. SearchTypeOK'
  BY <1>1, <1>4, <1>5, <1>6 DEF SearchTypeOK
<1>8. SearchCalls'
  BY <1>2, <1>3, <1>4, <1>5 DEF SearchCalls, CallsOf, Prepared, L
<1>9. Chained'
  BY <1>2, <1>3, <1>4, <1>5 DEF Chained, ChainedIn, Prepared, L
<1>10. Kinds'
  <2> SUFFICES ASSUME NEW n \in 2..(L + 1), ~DepEdge(stack'[n - 1].item, stack'[n].item)
               PROVE  /\ stack'[n].item \in g.syms =>
                           /\ stack'[n].rest = <<>>
                           /\ n < L + 1 => DepEdge(stack'[n].item, stack'[n + 1].item)
                      /\ stack'[n].item \in g.choices => stack'[n].skip = stack'[n - 1].item
    <3> SUFFICES ASSUME NEW n \in 2..Len(stack'),
                        ~DepEdge(stack[n - 1].item, stack[n].item)'
                 PROVE  (/\ stack[n].item \in g.syms =>
                              /\ stack[n].rest = <<>>
                              /\ n < Len(stack) => DepEdge(stack[n].item, stack[n + 1].item)
                         /\ stack[n].item \in g.choices => stack[n].skip = stack[n - 1].item)'
      BY DEF Kinds, KindsOf
    <3>1. n \in 2..(L + 1) /\ Len(stack') = L + 1
      BY <1>4
    <3>2. ~DepEdge(stack'[n - 1].item, stack'[n].item)
      BY <1>5
    <3>3. /\ stack'[n].item \in g.syms =>
               /\ stack'[n].rest = <<>>
               /\ n < L + 1 => DepEdge(stack'[n].item, stack'[n + 1].item)
          /\ stack'[n].item \in g.choices => stack'[n].skip = stack'[n - 1].item
      BY <3>1, <3>2
    <3> QED
      BY <1>5, <3>1, <3>3
  <2>1. CASE n = L + 1
    BY <1>1, <1>2, <1>3, <1>4, <2>1 DEF Prepared, L
  <2>2. CASE n = L
    <3>1. /\ L \in 2..L /\ L - 1 \in 1..L /\ stack'[L] = frames[L] /\ stack'[L - 1] = frames[L - 1]
          /\ ~DepEdge(frames[L - 1].item, frames[L].item)
      BY <1>3, <1>4, <2>2
    <3>2. KindsOf(frames) /\ Len(frames) = L
      BY DEF Prepared, L
    <3>3. /\ frames[L].item \in g.syms => frames[L].rest = <<>>
          /\ frames[L].item \in g.choices => frames[L].skip = frames[L - 1].item
      BY <3>1, <3>2 DEF KindsOf
    <3>4. frames[L].item \in g.syms => DepEdge(frames[L].item, i)
      BY <1>3, <2>2, <3>1 DEF Prepared, L
    <3> QED
      BY <1>2, <1>4, <2>2, <3>1, <3>3, <3>4
  <2>3. CASE n < L
    <3>1. n \in 2..L /\ n - 1 \in 1..L /\ n + 1 \in 1..L /\ n \in 1..L
      BY <1>3, <2>3
    <3>2. KindsOf(frames) /\ Len(frames) = L
      BY DEF Prepared, L
    <3> QED
      BY <1>4, <2>3, <3>1, <3>2 DEF KindsOf
  <2>4. n = L + 1 \/ n = L \/ n < L
    BY <1>0
  <2> QED
    BY <2>1, <2>2, <2>3, <2>4
<1>11. Visiting'
  <2> SUFFICES ASSUME NEW j \in Items(g), visited'[j] = 1
               PROVE  \E n \in 1..(L + 1) : stack'[n].item = j
    BY <1>4, <1>5 DEF Visiting
  <2>1. CASE j = i
    BY <1>0, <1>2, <1>4, <2>1
  <2>2. CASE j # i
    <3>1. PICK n \in 1..Len(stack) : stack[n].item = j
      BY <1>1, <1>6, <2>2 DEF SearchInv, Visiting
    <3>2. n \in 1..L /\ n \in 1..(L + 1)
      BY <1>0, <1>3
    <3> QED
      BY <1>4, <1>5, <3>1, <3>2
  <2> QED
    BY <2>1, <2>2
<1>12. Explored'
  <2> SUFFICES ASSUME NEW n \in 1..(L + 1), stack'[n].item \in g.syms,
                      NEW d \in g.dependents[stack'[n].item] \ stack'[n].deps
               PROVE  visited'[d] = 2 \/ (n < L + 1 /\ stack'[n + 1].item = d)
    BY <1>4 DEF Explored
  <2>1. CASE n = L + 1
    BY <1>2, <1>4, <2>1
  <2>2. CASE n \in 1..L
    <3>1. stack'[n] = frames[n] /\ d \in Items(g)
      BY <1>1, <1>4, <2>2 DEF SearchTypeOK, IsGraph
    <3>2. \/ visited[d] = 2
          \/ n < L /\ frames[n + 1].item = d
          \/ n = L /\ d = i
      BY <2>2, <3>1 DEF Prepared, L
    <3> QED
      BY <1>2, <1>3, <1>4, <1>6, <2>2, <3>1, <3>2
  <2>3. n = L + 1 \/ n \in 1..L
    BY <1>0
  <2> QED
    BY <2>1, <2>2, <2>3
<1>13. Checked'
  <2> SUFFICES ASSUME NEW m \in 1..Len(g.order), m < next'
               PROVE  visited'[g.order[m]] = 2 \/ (L + 1 > 0 /\ stack'[1].item = g.order[m])
    BY <1>4 DEF Checked
  <2>1. CheckedWith(frames, i, m) /\ g.order[m] \in Items(g)
    BY <1>1 DEF SearchTypeOK, IsGraph, Items
  <2>2. CASE L = 0
    BY <1>2, <1>3, <1>4, <1>6, <2>1, <2>2 DEF CheckedWith, L
  <2>3. CASE L > 0
    BY <1>2, <1>3, <1>4, <1>6, <2>1, <2>3 DEF CheckedWith, L
  <2> QED
    BY <1>3, <2>2, <2>3
<1>14. Settled' /\ Ordered'
  BY <1>5, <1>6 DEF Settled, Ordered, SearchInv
<1>15. Looping' /\ Ended'
  BY <1>1 DEF Looping, Ended
<1> QED
  BY <1>7, <1>8, <1>9, <1>10, <1>11, <1>12, <1>13, <1>14, <1>15 DEF SearchInv

\* What a call that is over, or that was not needed, leaves: the frames run
\* on, and the item that was called is marked 2.
LEMMA PassInv ==
    ASSUME SearchInv, Searching, UNCHANGED <<g, visited, loop, outcome, finished>>,
           next' \in Nat \ {0}, NEW frames, NEW i, NEW from, Prepared(frames, i, from),
           \A m \in 1..Len(g.order) : m < next' => CheckedWith(frames, i, m),
           visited[i] = 2, stack' = frames
    PROVE  SearchInv'
<1> DEFINE L == Len(stack)
<1>1. SearchTypeOK /\ loop = <<>> /\ i \in Items(g) /\ outcome = "search"
  BY DEF SearchInv, Searching, Prepared
<1>2. /\ stack' \in Seq(Frames) /\ Len(stack') = L /\ L \in Nat
      /\ \A n \in 1..L : stack'[n].item = stack[n].item
  BY <1>1 DEF Prepared, SearchTypeOK
<1>3. /\ Items(g)' = Items(g) /\ Frames' = Frames
      /\ \A a, b : Edge(a, b)' <=> Edge(a, b)
      /\ \A a, b : DepEdge(a, b)' <=> DepEdge(a, b)
  BY DEF Items, Frames, Edge, DepEdge
<1>4. SearchTypeOK'
  BY <1>1, <1>2, <1>3 DEF SearchTypeOK
<1>5. SearchCalls' /\ Chained' /\ Kinds'
  BY <1>1, <1>2, <1>3 DEF SearchCalls, CallsOf, Chained, ChainedIn, Kinds, KindsOf, Prepared
<1>6. Visiting'
  BY <1>1, <1>2, <1>3 DEF Visiting, SearchInv
<1>7. Explored'
  BY <1>1, <1>2 DEF Explored, Prepared
<1>8. Checked'
  BY <1>1, <1>2 DEF Checked, CheckedWith, Prepared
<1>9. Settled' /\ Ordered'
  BY <1>3 DEF Settled, Ordered, SearchInv
<1>10. Looping' /\ Ended'
  BY <1>1 DEF Looping, Ended
<1> QED
  BY <1>4, <1>5, <1>6, <1>7, <1>8, <1>9, <1>10 DEF SearchInv

\* An item whose call runs: the call returns the loop it closes.
LEMMA CloseInv ==
    ASSUME SearchInv, Searching, UNCHANGED <<g, visited, outcome, finished>>,
           next' \in Nat \ {0}, NEW frames, NEW i, NEW from, Prepared(frames, i, from),
           visited[i] = 1, stack' = frames, loop' = <<i>>
    PROVE  SearchInv'
<1> DEFINE L == Len(stack)
<1>1. SearchTypeOK /\ loop = <<>> /\ i \in Items(g) /\ outcome = "search"
  BY DEF SearchInv, Searching, Prepared
<1>2. /\ stack' \in Seq(Frames) /\ Len(stack') = L /\ L \in Nat
      /\ \A n \in 1..L : stack'[n].item = stack[n].item
  BY <1>1 DEF Prepared, SearchTypeOK
<1>3. /\ Items(g)' = Items(g) /\ Frames' = Frames
      /\ \A a, b : Edge(a, b)' <=> Edge(a, b)
  BY DEF Items, Frames, Edge
<1>4. loop' # <<>> /\ loop' \in Seq(Items(g)) /\ Len(loop') = 1 /\ loop'[1] = i
  BY <1>1
<1>5. SearchTypeOK'
  BY <1>1, <1>2, <1>3, <1>4 DEF SearchTypeOK
<1>6. SearchCalls' /\ Chained'
  BY <1>2, <1>3 DEF SearchCalls, CallsOf, Chained, ChainedIn, Prepared
<1>7. Kinds' /\ Visiting' /\ Explored' /\ Checked'
  BY <1>4 DEF Kinds, Visiting, Explored, Checked
<1>8. Settled' /\ Ordered'
  BY <1>3 DEF Settled, Ordered, SearchInv
<1>9. Looping'
  <2>1. PICK n \in 1..Len(stack) : stack[n].item = i
    BY <1>1 DEF SearchInv, Visiting
  <2>2. L > 0 /\ stack'[n].item = i
    BY <1>2, <2>1
  <2>3. Edge(stack'[L].item, i)
    BY <1>2, <2>2 DEF Prepared
  <2> QED
    BY <1>2, <1>3, <1>4, <2>1, <2>2, <2>3 DEF Looping
<1>10. Ended'
  BY <1>1 DEF Ended
<1> QED
  BY <1>5, <1>6, <1>7, <1>8, <1>9, <1>10 DEF SearchInv

\* The three together
LEMMA VisitInv ==
    ASSUME SearchInv, Searching, UNCHANGED <<g, outcome, finished>>, next' \in Nat \ {0},
           NEW frames, NEW i, NEW from, Prepared(frames, i, from),
           \A m \in 1..Len(g.order) : m < next' => CheckedWith(frames, i, m),
           Visit(i, from, frames)
    PROVE  SearchInv'
<1>1. visited[i] \in {0, 1, 2}
  BY DEF SearchInv, SearchTypeOK, Prepared
<1>2. CASE visited[i] = 0
  BY <1>2, EnterInv DEF Visit
<1>3. CASE visited[i] = 1
  BY <1>3, CloseInv DEF Visit
<1>4. CASE visited[i] = 2
  BY <1>4, PassInv DEF Visit
<1> QED
  BY <1>1, <1>2, <1>3, <1>4

-----------------------------------------------------------------------------
LEMMA InitInv == SearchStart => SearchInv
<1> SUFFICES ASSUME SearchStart PROVE SearchInv
  OBVIOUS
<1>1. /\ IsGraph(g) /\ stack = <<>> /\ loop = <<>> /\ finished = <<>> /\ next = 1
      /\ outcome = "search" /\ visited = [i \in Items(g) |-> 0]
  BY DEF SearchStart, SearchInit
<1>2. SearchTypeOK
  BY <1>1 DEF SearchTypeOK
<1>3. SearchCalls /\ Chained /\ Kinds /\ Visiting /\ Explored /\ Checked
  BY <1>1 DEF SearchCalls, CallsOf, Chained, ChainedIn, Kinds, KindsOf, Visiting, Explored,
              Checked, IsGraph
<1>4. Settled /\ Ordered /\ Looping /\ Ended
  BY <1>1 DEF Settled, Ordered, Looping, Ended
<1> QED
  BY <1>2, <1>3, <1>4 DEF SearchInv

\* A symbol is checked from nowhere.
LEMMA CheckNextInv == SearchInv /\ CheckNext => SearchInv'
<1> SUFFICES ASSUME SearchInv, CheckNext PROVE SearchInv'
  OBVIOUS
<1> DEFINE i == g.order[next]
<1>1. /\ Searching /\ stack = <<>> /\ next \in Nat \ {0} /\ next <= Len(g.order)
      /\ next' = next + 1 /\ SearchTypeOK /\ Visit(i, NoItem, <<>>)
      /\ UNCHANGED <<g, outcome, finished>>
  BY DEF CheckNext, SearchInv, SearchTypeOK
<1>2. i \in Items(g) /\ next' \in Nat \ {0}
  BY <1>1 DEF SearchTypeOK, IsGraph, Items
<1>3. Prepared(<<>>, i, NoItem)
  BY <1>1, <1>2 DEF Prepared, CallsOf, ChainedIn, KindsOf
<1>4. ASSUME NEW m \in 1..Len(g.order), m < next' PROVE CheckedWith(<<>>, i, m)
  <2>1. CASE m = next
    BY <2>1 DEF CheckedWith
  <2>2. CASE m < next
    BY <1>1, <2>2 DEF CheckedWith, Checked, SearchInv, Searching
  <2> QED
    BY <1>1, <1>4, <2>1, <2>2
<1> HIDE DEF i
<1> QED
  BY <1>1, <1>2, <1>3, <1>4, VisitInv

\* What a call is through with after one more dependent
LEMMA CallDependentInv ==
    ASSUME SearchInv, NEW d \in Items(g), CallDependent(d) PROVE SearchInv'
<1> DEFINE L == Len(stack)
           f == [Running EXCEPT !.deps = @ \ {d}]
           frames == [stack EXCEPT ![L] = f]
<1>1. /\ Searching /\ stack # <<>> /\ d \in Running.deps /\ SearchTypeOK /\ next' = next
      /\ UNCHANGED <<g, outcome, finished>> /\ loop = <<>>
  BY DEF CallDependent, SearchInv, Searching
<1>2. L \in Nat /\ L > 0 /\ stack \in Seq(Frames) /\ Running = stack[L] /\ Running \in Frames
  BY <1>1 DEF SearchTypeOK, Running
<1>3. Visit(d, NoItem, frames)
  BY DEF CallDependent, Running
<1>4. /\ f \in Frames /\ f.item = Running.item /\ f.deps = Running.deps \ {d}
      /\ f.rest = Running.rest /\ f.skip = Running.skip
  BY <1>2 DEF Frames
<1>5. /\ frames \in Seq(Frames) /\ Len(frames) = L /\ frames[L] = f
      /\ \A n \in 1..(L - 1) : frames[n] = stack[n]
  <2> HIDE DEF f
  <2> QED
    BY <1>2, <1>4, Replaced
<1> HIDE DEF f, frames
<1>6. /\ \A n \in 1..L : frames[n].item = stack[n].item /\ frames[n].rest = stack[n].rest
                           /\ frames[n].skip = stack[n].skip
                           /\ frames[n].deps \subseteq stack[n].deps
      /\ \A n \in 1..L : n # L => frames[n].deps = stack[n].deps
  <2> SUFFICES ASSUME NEW n \in 1..L
               PROVE  /\ frames[n].item = stack[n].item /\ frames[n].rest = stack[n].rest
                      /\ frames[n].skip = stack[n].skip
                      /\ frames[n].deps \subseteq stack[n].deps
                      /\ n # L => frames[n].deps = stack[n].deps
    OBVIOUS
  <2>1. CASE n = L
    BY <1>2, <1>4, <1>5, <2>1
  <2>2. CASE n # L
    BY <1>2, <1>5, <2>2
  <2> QED
    BY <2>1, <2>2
<1>7. DepEdge(Running.item, d)
  <2>1. Running.item \in Items(g) /\ L \in 1..L
    BY <1>2 DEF Frames
  <2>2. /\ Running.item \in g.syms => Running.deps \subseteq g.dependents[Running.item]
        /\ Running.item \in g.choices => Running.deps = {}
    BY <1>2, <2>1 DEF SearchInv, SearchCalls, CallsOf
  <2> QED
    BY <1>1, <2>1, <2>2 DEF DepEdge, Items
<1>8. Prepared(frames, d, NoItem)
  <2>1. CallsOf(frames)
    <3> SUFFICES ASSUME NEW n \in 1..L
                 PROVE  /\ frames[n].item \in g.syms =>
                              frames[n].deps \subseteq g.dependents[frames[n].item]
                        /\ frames[n].item \in g.choices => frames[n].deps = {}
                        /\ \A j \in 1..Len(frames[n].rest) :
                              Edge(frames[n].item, frames[n].rest[j])
      BY <1>5 DEF CallsOf
    <3>1. /\ stack[n].item \in g.syms => stack[n].deps \subseteq g.dependents[stack[n].item]
          /\ stack[n].item \in g.choices => stack[n].deps = {}
          /\ \A j \in 1..Len(stack[n].rest) : Edge(stack[n].item, stack[n].rest[j])
      BY DEF SearchInv, SearchCalls, CallsOf
    <3> QED
      BY <1>6, <3>1
  <2>2. ChainedIn(frames)
    BY <1>2, <1>5, <1>6 DEF ChainedIn, SearchInv, Chained
  <2>3. KindsOf(frames)
    <3> SUFFICES ASSUME NEW n \in 2..L, ~DepEdge(frames[n - 1].item, frames[n].item)
                 PROVE  /\ frames[n].item \in g.syms =>
                             /\ frames[n].rest = <<>>
                             /\ n < L => DepEdge(frames[n].item, frames[n + 1].item)
                        /\ frames[n].item \in g.choices => frames[n].skip = frames[n - 1].item
      BY <1>5 DEF KindsOf
    <3>1. n \in 1..L /\ n - 1 \in 1..L /\ (n < L => n + 1 \in 1..L)
      BY <1>2
    <3>2. KindsOf(stack)
      BY <1>1 DEF SearchInv, Kinds
    <3>3. /\ stack[n].item \in g.syms =>
               /\ stack[n].rest = <<>>
               /\ n < L => DepEdge(stack[n].item, stack[n + 1].item)
          /\ stack[n].item \in g.choices => stack[n].skip = stack[n - 1].item
      BY <1>6, <3>1, <3>2 DEF KindsOf
    <3> QED
      BY <1>6, <3>1, <3>3
  <2>4. ASSUME NEW n \in 1..L, frames[n].item \in g.syms,
               NEW e \in g.dependents[frames[n].item] \ frames[n].deps
        PROVE  \/ visited[e] = 2
               \/ n < L /\ frames[n + 1].item = e
               \/ n = L /\ e = d
    <3>1. CASE e \in stack[n].deps
      <4>1. n = L
        BY <1>6, <2>4, <3>1
      <4> QED
        BY <1>2, <1>4, <1>5, <2>4, <3>1, <4>1
    <3>2. CASE e \notin stack[n].deps
      <4>1. visited[e] = 2 \/ (n < L /\ stack[n + 1].item = e)
        BY <1>1, <1>6, <2>4, <3>2 DEF SearchInv, Explored
      <4> QED
        BY <1>2, <1>6, <4>1
    <3> QED
      BY <3>1, <3>2
  <2> QED
    BY <1>2, <1>5, <1>6, <1>7, <2>1, <2>2, <2>3, <2>4 DEF Prepared, DepEdge, Edge
<1>9. ASSUME NEW m \in 1..Len(g.order), m < next' PROVE CheckedWith(frames, d, m)
  BY <1>1, <1>2, <1>5, <1>6, <1>9 DEF CheckedWith, SearchInv, Checked
<1> QED
  BY <1>1, <1>3, <1>8, <1>9, VisitInv DEF SearchTypeOK

\* The frames after one more of the further calls
LEMMA Shortened ==
    ASSUME SearchInv, loop = <<>>, stack # <<>>, Running.deps = {}, Running.rest # <<>>,
           NEW frames, frames = [stack EXCEPT ![Len(stack)].rest = Tail(@)]
    PROVE  /\ frames \in Seq(Frames) /\ Len(frames) = Len(stack)
           /\ \A n \in 1..Len(stack) : /\ frames[n].item = stack[n].item
                                       /\ frames[n].deps = stack[n].deps
           /\ CallsOf(frames) /\ ChainedIn(frames) /\ KindsOf(frames)
           /\ Head(Running.rest) \in Items(g) /\ Edge(Running.item, Head(Running.rest))
<1> DEFINE L == Len(stack)
           f == [Running EXCEPT !.rest = Tail(@)]
<1>1. /\ L \in Nat /\ L > 0 /\ L \in 1..L /\ stack \in Seq(Frames) /\ Running = stack[L]
      /\ Running \in Frames /\ Running.rest \in Seq(Items(g))
  BY Innermost DEF SearchInv
<1>5. /\ Tail(Running.rest) \in Seq(Items(g)) /\ Head(Running.rest) = Running.rest[1]
      /\ Len(Tail(Running.rest)) = Len(Running.rest) - 1 /\ Len(Running.rest) \in Nat /\ Len(Running.rest) > 0
      /\ \A j \in 1..(Len(Running.rest) - 1) : Tail(Running.rest)[j] = Running.rest[j + 1]
  BY <1>1, Rest
<1>2. /\ f \in Frames /\ f.item = Running.item /\ f.deps = Running.deps /\ f.skip = Running.skip
      /\ f.rest = Tail(Running.rest)
  BY <1>1, <1>5 DEF Frames
<1>3. frames = [stack EXCEPT ![L] = f]
  BY DEF Running
<1> HIDE DEF f, Frames
<1>4. /\ frames \in Seq(Frames) /\ Len(frames) = L /\ frames[L] = f
      /\ \A n \in 1..(L - 1) : frames[n] = stack[n]
  <2>1. stack \in Seq(Frames) /\ f \in Frames /\ Len(stack) > 0
    BY <1>1, <1>2
  <2>2. /\ [stack EXCEPT ![Len(stack)] = f] \in Seq(Frames)
        /\ Len([stack EXCEPT ![Len(stack)] = f]) = Len(stack)
        /\ \A n \in 1..(Len(stack) - 1) : [stack EXCEPT ![Len(stack)] = f][n] = stack[n]
        /\ [stack EXCEPT ![Len(stack)] = f][Len(stack)] = f
    BY <2>1, Replaced
  <2> QED
    BY <1>3, <2>2
<1>6. \A n \in 1..L : /\ frames[n].item = stack[n].item /\ frames[n].skip = stack[n].skip
                      /\ frames[n].deps = stack[n].deps
                      /\ n # L => frames[n] = stack[n]
  <2> SUFFICES ASSUME NEW n \in 1..L
               PROVE  /\ frames[n].item = stack[n].item /\ frames[n].skip = stack[n].skip
                      /\ frames[n].deps = stack[n].deps
                      /\ n # L => frames[n] = stack[n]
    OBVIOUS
  <2>1. CASE n = L
    BY <1>1, <1>2, <1>4, <2>1
  <2>2. CASE n # L
    BY <1>1, <1>4, <2>2
  <2> QED
    BY <2>1, <2>2
<1>7. \A j \in 1..Len(Running.rest) : Edge(Running.item, Running.rest[j])
  BY <1>1 DEF SearchInv, SearchCalls, CallsOf
<1>8. CallsOf(frames)
  <2> SUFFICES ASSUME NEW n \in 1..L
               PROVE  /\ frames[n].item \in g.syms =>
                            frames[n].deps \subseteq g.dependents[frames[n].item]
                      /\ frames[n].item \in g.choices => frames[n].deps = {}
                      /\ \A j \in 1..Len(frames[n].rest) :
                            Edge(frames[n].item, frames[n].rest[j])
    BY <1>4 DEF CallsOf
  <2>1. /\ stack[n].item \in g.syms => stack[n].deps \subseteq g.dependents[stack[n].item]
        /\ stack[n].item \in g.choices => stack[n].deps = {}
        /\ \A j \in 1..Len(stack[n].rest) : Edge(stack[n].item, stack[n].rest[j])
    BY DEF SearchInv, SearchCalls, CallsOf
  <2>2. CASE n = L
    <3>1. \A j \in 1..Len(f.rest) : Edge(Running.item, f.rest[j])
      <4> SUFFICES ASSUME NEW j \in 1..(Len(Running.rest) - 1) PROVE Edge(Running.item, f.rest[j])
        BY <1>2, <1>5
      <4>1. f.rest[j] = Running.rest[j + 1] /\ j + 1 \in 1..Len(Running.rest)
        BY <1>2, <1>5
      <4> QED
        BY <1>7, <4>1
    <3> QED
      BY <1>1, <1>2, <1>4, <2>1, <2>2, <3>1
  <2>3. CASE n # L
    BY <1>6, <2>1, <2>3
  <2> QED
    BY <2>2, <2>3
<1>9. ChainedIn(frames)
  BY <1>1, <1>4, <1>6 DEF ChainedIn, SearchInv, Chained
<1>10. KindsOf(frames)
  <2> SUFFICES ASSUME NEW n \in 2..L, ~DepEdge(frames[n - 1].item, frames[n].item)
               PROVE  /\ frames[n].item \in g.syms =>
                           /\ frames[n].rest = <<>>
                           /\ n < L => DepEdge(frames[n].item, frames[n + 1].item)
                      /\ frames[n].item \in g.choices => frames[n].skip = frames[n - 1].item
    BY <1>4 DEF KindsOf
  <2>1. n \in 1..L /\ n - 1 \in 1..L /\ (n < L => n + 1 \in 1..L)
    BY <1>1
  <2>2. KindsOf(stack)
    BY DEF SearchInv, Kinds
  <2>3. /\ stack[n].item \in g.syms =>
             /\ stack[n].rest = <<>>
             /\ n < L => DepEdge(stack[n].item, stack[n + 1].item)
        /\ stack[n].item \in g.choices => stack[n].skip = stack[n - 1].item
    BY <1>6, <2>1, <2>2 DEF KindsOf
  <2>4. CASE n = L
    <3>1. stack[n].item \notin g.syms
      BY <1>1, <2>3, <2>4
    <3> QED
      BY <1>6, <2>1, <2>3, <3>1
  <2>5. CASE n # L
    BY <1>6, <2>1, <2>3, <2>5
  <2> QED
    BY <2>4, <2>5
<1>11. Head(Running.rest) \in Items(g) /\ Edge(Running.item, Head(Running.rest))
  <2>1. Head(Running.rest) = Running.rest[1] /\ 1 \in 1..Len(Running.rest)
    BY <1>1, <1>5
  <2> QED
    BY <1>1, <1>7, <2>1
<1> QED
  BY <1>4, <1>6, <1>8, <1>9, <1>10, <1>11

\* The symbol a choice was called by is skipped; another item is called.
LEMMA CallRestInv == SearchInv /\ CallRest => SearchInv'
<1> SUFFICES ASSUME SearchInv, CallRest PROVE SearchInv'
  OBVIOUS
<1> DEFINE L == Len(stack)
           i == Head(Running.rest)
<1>1. /\ loop = <<>> /\ Searching /\ stack # <<>> /\ Running.deps = {} /\ Running.rest # <<>>
      /\ UNCHANGED <<g, outcome, finished>> /\ next' = next /\ SearchTypeOK
  BY DEF CallRest, Searching, SearchInv
<1>2. PICK frames : /\ frames = [stack EXCEPT ![Len(stack)].rest = Tail(@)]
                    /\ IF i = Running.skip THEN stack' = frames /\ UNCHANGED <<visited, loop>>
                       ELSE Visit(i, Running.item, frames)
  BY DEF CallRest
<1>3. /\ frames \in Seq(Frames) /\ Len(frames) = L
      /\ \A n \in 1..L : frames[n].item = stack[n].item /\ frames[n].deps = stack[n].deps
      /\ CallsOf(frames) /\ ChainedIn(frames) /\ KindsOf(frames)
      /\ i \in Items(g) /\ Edge(Running.item, i)
  BY <1>1, <1>2, Shortened
<1>4. L \in Nat /\ L > 0 /\ Running = stack[L] /\ Running.item \in Items(g) /\ L \in 1..L
  BY <1>1, Innermost
<1>5. ASSUME NEW n \in 1..L, stack[n].item \in g.syms,
             NEW d \in g.dependents[stack[n].item] \ stack[n].deps
      PROVE  visited[d] = 2 \/ (n < L /\ stack[n + 1].item = d)
  BY <1>1, <1>5 DEF SearchInv, Explored
<1>6. ASSUME NEW m \in 1..Len(g.order), m < next
      PROVE  visited[g.order[m]] = 2 \/ (L > 0 /\ stack[1].item = g.order[m])
  BY <1>1, <1>6 DEF SearchInv, Checked
<1>7. CASE i = Running.skip
  <2>1. /\ stack' = frames /\ visited' = visited /\ loop' = loop /\ Len(stack') = L
        /\ Items(g)' = Items(g) /\ Frames' = Frames
        /\ \A a, b : Edge(a, b)' <=> Edge(a, b)
        /\ \A a, b : DepEdge(a, b)' <=> DepEdge(a, b)
    BY <1>1, <1>2, <1>3, <1>7 DEF Items, Frames, Edge, DepEdge
  <2>2. SearchTypeOK'
    BY <1>1, <1>3, <2>1 DEF SearchTypeOK
  <2>3. SearchCalls' /\ Chained' /\ Kinds'
    BY <1>1, <1>3, <2>1 DEF SearchCalls, CallsOf, Chained, ChainedIn, Kinds, KindsOf
  <2>4. Visiting'
    BY <1>1, <1>3, <2>1 DEF Visiting, SearchInv
  <2>5. Explored'
    <3> SUFFICES ASSUME NEW n \in 1..L, stack'[n].item \in g.syms,
                        NEW d \in g.dependents[stack'[n].item] \ stack'[n].deps
                 PROVE  visited[d] = 2 \/ (n < L /\ stack'[n + 1].item = d)
      BY <1>1, <2>1 DEF Explored
    <3>1. visited[d] = 2 \/ (n < L /\ stack[n + 1].item = d)
      BY <1>3, <1>5, <2>1
    <3> QED
      BY <1>3, <1>4, <2>1, <3>1
  <2>6. Checked'
    BY <1>1, <1>3, <1>4, <1>6, <2>1 DEF Checked
  <2>7. Settled' /\ Ordered'
    <3>1. finished' = finished /\ g' = g /\ Settled /\ Ordered
      BY <1>1 DEF SearchInv
    <3> QED
      BY <2>1, <3>1 DEF Settled, Ordered
  <2>8. Looping' /\ Ended'
    BY <1>1, <2>1 DEF Looping, Ended, Searching
  <2> QED
    BY <2>2, <2>3, <2>4, <2>5, <2>6, <2>7, <2>8 DEF SearchInv
<1>8. CASE i # Running.skip
  <2> DEFINE from == Running.item
  <2>1. frames[L].item = from
    BY <1>3, <1>4
  <2>2. ~DepEdge(from, i) => /\ i \in g.syms => from # NoItem
                             /\ i \in g.choices => from = frames[L].item
    BY <1>1, <1>4, <2>1 DEF SearchTypeOK, IsGraph
  <2>3. from \in g.syms /\ L > 1 => DepEdge(frames[L - 1].item, frames[L].item)
    <3> SUFFICES ASSUME from \in g.syms, L > 1 PROVE DepEdge(stack[L - 1].item, stack[L].item)
      BY <1>3, <1>4
    <3>1. L \in 2..L /\ KindsOf(stack)
      BY <1>1, <1>4 DEF SearchInv, Kinds
    <3> QED
      BY <1>1, <1>4, <3>1 DEF KindsOf
  <2>4. ASSUME NEW n \in 1..L, frames[n].item \in g.syms,
               NEW d \in g.dependents[frames[n].item] \ frames[n].deps
        PROVE  \/ visited[d] = 2
               \/ n < L /\ frames[n + 1].item = d
               \/ n = L /\ d = i
    <3>1. visited[d] = 2 \/ (n < L /\ stack[n + 1].item = d)
      BY <1>3, <1>5, <2>4
    <3> QED
      BY <1>3, <1>4, <3>1
  <2>5. Prepared(frames, i, from)
    <3> HIDE DEF i
    <3> QED
      BY <1>3, <1>4, <2>1, <2>2, <2>3, <2>4 DEF Prepared
  <2>6. ASSUME NEW m \in 1..Len(g.order), m < next' PROVE CheckedWith(frames, i, m)
    BY <1>1, <1>3, <1>4, <1>6, <2>6 DEF CheckedWith
  <2>7. Visit(i, from, frames) /\ next' \in Nat \ {0}
    BY <1>1, <1>2, <1>8 DEF SearchTypeOK
  <2> HIDE DEF i, from
  <2> QED
    BY <1>1, <2>5, <2>6, <2>7, VisitInv
<1> QED
  BY <1>7, <1>8

\* A call that is over: its item is marked 2, after all its dependents.
LEMMA ReturnInv == SearchInv /\ Return => SearchInv'
<1> SUFFICES ASSUME SearchInv, Return PROVE SearchInv'
  OBVIOUS
<1> DEFINE L == Len(stack)
           i == Running.item
<1>1. /\ loop = <<>> /\ loop' = loop /\ outcome = "search" /\ stack # <<>> /\ Running.deps = {}
      /\ visited' = [visited EXCEPT ![i] = 2] /\ finished' = Append(finished, i)
      /\ UNCHANGED <<g, next, outcome>> /\ SearchTypeOK
  BY DEF Return, Searching, SearchInv
<1>2. L \in Nat /\ L > 0 /\ Running = stack[L] /\ i \in Items(g) /\ L \in 1..L /\ stack \in Seq(Frames)
  BY <1>1, Innermost
<1>3. /\ stack' \in Seq(Frames) /\ Len(stack') = L - 1
      /\ \A n \in 1..(L - 1) : stack'[n] = stack[n]
  <2>1. stack' = SubSeq(stack, 1, Len(stack) - 1)
    BY DEF Return, Below
  <2> QED
    BY <1>2, <2>1, Prefix
<1>4. /\ Items(g)' = Items(g) /\ Frames' = Frames
      /\ \A a, b : Edge(a, b)' <=> Edge(a, b)
      /\ \A a, b : DepEdge(a, b)' <=> DepEdge(a, b)
  BY <1>1 DEF Items, Frames, Edge, DepEdge
<1>5. /\ finished \in Seq(Items(g)) /\ Len(finished) \in Nat
      /\ finished' \in Seq(Items(g)) /\ Len(finished') = Len(finished) + 1
      /\ finished'[Len(finished) + 1] = i
      /\ \A n \in 1..Len(finished) : finished'[n] = finished[n]
  <2> HIDE DEF i
  <2>1. finished \in Seq(Items(g))
    BY <1>1 DEF SearchTypeOK
  <2> QED
    BY <1>1, <1>2, <2>1
<1> HIDE DEF i
<1>6. /\ visited' \in [Items(g) -> {0, 1, 2}] /\ visited'[i] = 2
      /\ \A j \in Items(g) : j # i => visited'[j] = visited[j]
      /\ \A j \in Items(g) : visited[j] = 2 => visited'[j] = 2
  BY <1>1, <1>2 DEF SearchTypeOK
<1>7. i \in g.syms => \A d \in g.dependents[i] : d \in Items(g) /\ visited[d] = 2
  <2> SUFFICES ASSUME i \in g.syms, NEW d \in g.dependents[i]
               PROVE  d \in Items(g) /\ visited[d] = 2
    OBVIOUS
  <2>1. stack[L].item = i /\ stack[L].deps = {}
    BY <1>1, <1>2 DEF i
  <2>2. visited[d] = 2 \/ (L < L /\ stack[L + 1].item = d)
    BY <1>1, <1>2, <2>1 DEF SearchInv, Explored
  <2>3. d \in Items(g)
    BY <1>1 DEF SearchTypeOK, IsGraph
  <2> QED
    BY <1>2, <2>2, <2>3
<1>8. SearchTypeOK'
  <2>1. IsGraph(g)'
    BY <1>1 DEF SearchTypeOK
  <2> QED
    BY <1>1, <1>3, <1>4, <1>5, <1>6, <2>1 DEF SearchTypeOK
<1>9. SearchCalls' /\ Chained'
  <2>1. CallsOf(stack) /\ ChainedIn(stack)
    BY DEF SearchInv, SearchCalls, Chained
  <2>2. SearchCalls'
    <3> SUFFICES ASSUME NEW n \in 1..(L - 1)
                 PROVE  /\ stack'[n].item \in g.syms =>
                              stack'[n].deps \subseteq g.dependents[stack'[n].item]
                        /\ stack'[n].item \in g.choices => stack'[n].deps = {}
                        /\ \A j \in 1..Len(stack'[n].rest) :
                              Edge(stack'[n].item, stack'[n].rest[j])
      BY <1>1, <1>3, <1>4 DEF SearchCalls, CallsOf
    <3> QED
      BY <1>2, <1>3, <2>1 DEF CallsOf
  <2>3. Chained'
    <3> SUFFICES ASSUME NEW n \in 1..(L - 2) PROVE Edge(stack'[n].item, stack'[n + 1].item)
      BY <1>2, <1>3, <1>4 DEF Chained, ChainedIn
    <3> QED
      BY <1>2, <1>3, <2>1 DEF ChainedIn
  <2> QED
    BY <2>2, <2>3
<1>10. Kinds'
  <2> SUFFICES ASSUME NEW n \in 2..(L - 1), ~DepEdge(stack'[n - 1].item, stack'[n].item)
               PROVE  /\ stack'[n].item \in g.syms =>
                           /\ stack'[n].rest = <<>>
                           /\ n < L - 1 => DepEdge(stack'[n].item, stack'[n + 1].item)
                      /\ stack'[n].item \in g.choices => stack'[n].skip = stack'[n - 1].item
    BY <1>1, <1>3, <1>4 DEF Kinds, KindsOf
  <2>1. n \in 2..L /\ n \in 1..(L - 1) /\ n - 1 \in 1..(L - 1) /\ (n < L - 1 => n + 1 \in 1..(L - 1))
    BY <1>2
  <2>2. KindsOf(stack)
    BY <1>1 DEF SearchInv, Kinds
  <2> QED
    BY <1>2, <1>3, <2>1, <2>2 DEF KindsOf
<1>11. Visiting'
  <2> SUFFICES ASSUME NEW j \in Items(g), visited'[j] = 1
               PROVE  \E n \in 1..(L - 1) : stack'[n].item = j
    BY <1>3, <1>4 DEF Visiting
  <2>1. j # i /\ visited[j] = 1
    BY <1>6
  <2>2. PICK n \in 1..L : stack[n].item = j
    BY <1>1, <2>1 DEF SearchInv, Visiting
  <2>3. n \in 1..(L - 1)
    BY <1>2, <2>1, <2>2 DEF i
  <2> QED
    BY <1>3, <2>2, <2>3
<1>12. Explored'
  <2> SUFFICES ASSUME NEW n \in 1..Len(stack'), stack'[n].item \in g'.syms,
                      NEW d \in g'.dependents[stack'[n].item] \ stack'[n].deps
               PROVE  visited'[d] = 2 \/ (n < Len(stack') /\ stack'[n + 1].item = d)
    BY DEF Explored
  <2>1. n \in 1..(L - 1) /\ Len(stack') = L - 1 /\ stack'[n] = stack[n] /\ g' = g
    BY <1>1, <1>3
  <2>2. n \in 1..L /\ n \in 1..Len(stack) /\ loop = <<>>
    BY <1>1, <1>2, <2>1
  <2>3. d \in Items(g)
    BY <1>1, <2>1 DEF SearchTypeOK, IsGraph
  <2>4. visited[d] = 2 \/ (n < L /\ stack[n + 1].item = d)
    BY <1>1, <2>1, <2>2 DEF SearchInv, Explored
  <2>5. n = L - 1 => stack[n + 1].item = i
    BY <1>2 DEF i
  <2>6. n < L - 1 => stack'[n + 1] = stack[n + 1]
    BY <1>3, <2>1
  <2> QED
    BY <1>2, <1>6, <2>1, <2>3, <2>4, <2>5, <2>6
<1>13. Checked'
  <2> SUFFICES ASSUME NEW m \in 1..Len(g.order), m < next
               PROVE  visited'[g.order[m]] = 2 \/ (L - 1 > 0 /\ stack'[1].item = g.order[m])
    BY <1>1, <1>3 DEF Checked
  <2>1. g.order[m] \in Items(g)
    BY <1>1 DEF SearchTypeOK, IsGraph, Items
  <2>2. visited[g.order[m]] = 2 \/ (L > 0 /\ stack[1].item = g.order[m])
    BY <1>1 DEF SearchInv, Checked
  <2>3. L = 1 => stack[1].item = i
    BY <1>2 DEF i
  <2> QED
    BY <1>2, <1>3, <1>6, <2>1, <2>2, <2>3
<1>14. Settled'
  <2> SUFFICES ASSUME NEW j \in Items(g), visited'[j] = 2
               PROVE  \E n \in 1..(Len(finished) + 1) : finished'[n] = j
    BY <1>4, <1>5 DEF Settled
  <2>1. CASE j = i
    BY <1>5, <2>1
  <2>2. CASE j # i
    <3>1. PICK n \in 1..Len(finished) : finished[n] = j
      BY <1>6, <2>2 DEF SearchInv, Settled
    <3> QED
      BY <1>5, <3>1
  <2> QED
    BY <2>1, <2>2
<1>15. Ordered'
  <2> SUFFICES ASSUME NEW n \in 1..(Len(finished) + 1), finished'[n] \in g.syms,
                      NEW d \in g.dependents[finished'[n]]
               PROVE  \E m \in 1..(n - 1) : finished'[m] = d
    BY <1>1, <1>5 DEF Ordered
  <2>1. CASE n = Len(finished) + 1
    <3>1. d \in Items(g) /\ visited[d] = 2
      BY <1>5, <1>7, <2>1
    <3>2. PICK m \in 1..Len(finished) : finished[m] = d
      BY <3>1 DEF SearchInv, Settled
    <3> QED
      BY <1>5, <2>1, <3>2
  <2>2. CASE n \in 1..Len(finished)
    <3>1. PICK m \in 1..(n - 1) : finished[m] = d
      BY <1>5, <2>2 DEF SearchInv, Ordered
    <3> QED
      BY <1>5, <2>2, <3>1
  <2>3. n = Len(finished) + 1 \/ n \in 1..Len(finished)
    BY <1>5
  <2> QED
    BY <2>1, <2>2, <2>3
<1>16. Looping' /\ Ended'
  BY <1>1 DEF Looping, Ended
<1> QED
  BY <1>8, <1>9, <1>10, <1>11, <1>12, <1>13, <1>14, <1>15, <1>16 DEF SearchInv

\* On the way back a call that runs is added to the loop.
LEMMA ReturnLoopInv == SearchInv /\ ReturnLoop => SearchInv'
<1> SUFFICES ASSUME SearchInv, ReturnLoop PROVE SearchInv'
  OBVIOUS
<1> DEFINE L == Len(stack)
           K == Len(loop)
<1>1. /\ outcome = "search" /\ loop # <<>> /\ stack # <<>> /\ SearchTypeOK /\ Looping
      /\ UNCHANGED <<g, visited, next, finished>>
  BY DEF ReturnLoop, SearchInv
<1>2. L \in Nat /\ L > 0 /\ Running = stack[L] /\ Running.item \in Items(g) /\ stack \in Seq(Frames)
  BY <1>1, Innermost
<1>3. /\ Items(g)' = Items(g) /\ Frames' = Frames
      /\ \A a, b : Edge(a, b)' <=> Edge(a, b)
  BY <1>1 DEF Items, Frames, Edge
<1>4. loop \in Seq(Items(g)) /\ K \in Nat /\ K > 0
  BY <1>1 DEF SearchTypeOK
<1>5. IsGraph(g)' /\ Settled' /\ Ordered'
  <2>1. IsGraph(g) /\ Settled /\ Ordered
    BY DEF SearchInv, SearchTypeOK
  <2> QED
    BY <1>1, <1>3, <2>1 DEF Settled, Ordered
<1>6. CASE Running.item = loop[1]
  <2>1. outcome' = "loop" /\ stack' = stack /\ loop' = loop
    BY <1>6 DEF ReturnLoop
  <2>2. SearchTypeOK'
    BY <1>1, <1>3, <1>5, <2>1 DEF SearchTypeOK
  <2>3. SearchCalls' /\ Chained'
    <3>1. CallsOf(stack) /\ ChainedIn(stack)
      BY DEF SearchInv, SearchCalls, Chained
    <3> QED
      BY <1>1, <1>3, <2>1, <3>1 DEF SearchCalls, CallsOf, Chained, ChainedIn
  <2>4. Kinds' /\ Visiting' /\ Explored' /\ Checked'
    BY <1>1, <2>1 DEF Kinds, Visiting, Explored, Checked
  <2>5. Looping' /\ Ended'
    BY <1>1, <1>2, <1>3, <1>6, <2>1 DEF Looping, Ended
  <2> QED
    BY <1>5, <2>2, <2>3, <2>4, <2>5 DEF SearchInv
<1>7. CASE Running.item # loop[1]
  <2>1. outcome' = outcome /\ stack' = Below /\ loop' = Append(loop, Running.item)
    BY <1>7 DEF ReturnLoop
  <2>2. /\ stack' \in Seq(Frames) /\ Len(stack') = L - 1
        /\ \A n \in 1..(L - 1) : stack'[n] = stack[n]
    BY <1>2, <2>1, Prefix DEF Below
  <2>3. /\ loop' \in Seq(Items(g)) /\ Len(loop') = K + 1 /\ loop'[K + 1] = Running.item
        /\ \A n \in 1..K : loop'[n] = loop[n]
    BY <1>2, <1>4, <2>1
  <2>4. loop' # <<>> /\ loop'[1] = loop[1]
    BY <1>4, <2>3
  <2>5. SearchTypeOK'
    BY <1>1, <1>3, <1>5, <2>1, <2>2, <2>3 DEF SearchTypeOK
  <2>6. SearchCalls'
    <3> SUFFICES ASSUME NEW n \in 1..(L - 1)
                 PROVE  /\ stack'[n].item \in g.syms =>
                              stack'[n].deps \subseteq g.dependents[stack'[n].item]
                        /\ stack'[n].item \in g.choices => stack'[n].deps = {}
                        /\ \A j \in 1..Len(stack'[n].rest) :
                              Edge(stack'[n].item, stack'[n].rest[j])
      BY <1>1, <1>3, <2>2 DEF SearchCalls, CallsOf
    <3>1. CallsOf(stack)
      BY DEF SearchInv, SearchCalls
    <3>2. n \in 1..L /\ stack'[n] = stack[n]
      BY <1>2, <2>2
    <3> QED
      BY <3>1, <3>2 DEF CallsOf
  <2>7. Chained'
    <3> SUFFICES ASSUME NEW n \in 1..(L - 2) PROVE Edge(stack'[n].item, stack'[n + 1].item)
      BY <1>2, <1>3, <2>2 DEF Chained, ChainedIn
    <3>1. ChainedIn(stack)
      BY DEF SearchInv, Chained
    <3> QED
      BY <1>2, <2>2, <3>1 DEF ChainedIn
  <2>8. Kinds' /\ Visiting' /\ Explored' /\ Checked'
    BY <2>4 DEF Kinds, Visiting, Explored, Checked
  <2>9. Looping'
    <3>1. PICK m \in 1..L : stack[m].item = loop[1]
      BY <1>1 DEF Looping
    <3>2. m \in 1..(L - 1) /\ L - 1 \in 1..(L - 1)
      BY <1>2, <1>7, <3>1
    <3>3. stack'[m].item = loop'[1]
      BY <2>2, <2>4, <3>1, <3>2
    <3>4. Edge(stack'[L - 1].item, Running.item)
      <4>1. ChainedIn(stack)
        BY DEF SearchInv, Chained
      <4>2. Edge(stack[L - 1].item, stack[L - 1 + 1].item)
        BY <3>2, <4>1 DEF ChainedIn
      <4> QED
        BY <1>2, <2>2, <3>2, <4>2
    <3>5. ASSUME NEW n \in 1..K PROVE Edge(loop'[n + 1], loop'[n])
      <4>1. CASE n = K
        BY <1>1, <1>2, <1>4, <2>3, <4>1 DEF Looping
      <4>2. CASE n # K
        BY <1>1, <1>4, <2>3, <4>2 DEF Looping
      <4> QED
        BY <4>1, <4>2
    <3> QED
      BY <1>2, <1>3, <1>4, <2>2, <2>3, <3>2, <3>3, <3>4, <3>5 DEF Looping
  <2>10. Ended'
    BY <1>1, <2>1 DEF Ended
  <2> QED
    BY <1>5, <2>5, <2>6, <2>7, <2>8, <2>9, <2>10 DEF SearchInv
<1> QED
  BY <1>6, <1>7

\* Nothing but the outcome changes when the file is accepted.
LEMMA AcceptInv == SearchInv /\ Accept => SearchInv'
<1> SUFFICES ASSUME SearchInv, Accept PROVE SearchInv'
  OBVIOUS
<1>1. /\ loop = <<>> /\ stack = <<>> /\ next > Len(g.order) /\ outcome' = "accepted"
      /\ UNCHANGED <<g, visited, stack, loop, next, finished>>
  BY DEF Accept, Searching
<1>2. /\ Items(g)' = Items(g) /\ Frames' = Frames /\ \A a, b : Edge(a, b)' <=> Edge(a, b)
      /\ \A a, b : DepEdge(a, b)' <=> DepEdge(a, b)
  BY <1>1 DEF Items, Frames, Edge, DepEdge
<1>3. SearchTypeOK'
  BY <1>1, <1>2 DEF SearchInv, SearchTypeOK
<1>4. SearchCalls' /\ Chained' /\ Kinds'
  BY <1>1, <1>2 DEF SearchCalls, CallsOf, Chained, ChainedIn, Kinds, KindsOf
<1>5. Visiting' /\ Explored' /\ Checked' /\ Settled' /\ Ordered'
  BY <1>1, <1>2 DEF SearchInv, Visiting, Explored, Checked, Settled, Ordered
<1>6. Looping' /\ Ended'
  BY <1>1 DEF Looping, Ended
<1> QED
  BY <1>3, <1>4, <1>5, <1>6 DEF SearchInv

LEMMA StutterInv == SearchInv /\ UNCHANGED loopVars => SearchInv'
<1> SUFFICES ASSUME SearchInv, UNCHANGED loopVars PROVE SearchInv'
  OBVIOUS
<1>1. UNCHANGED <<g, visited, stack, loop, next, outcome, finished>>
  BY DEF loopVars
<1>2. /\ Items(g)' = Items(g) /\ Frames' = Frames /\ \A a, b : Edge(a, b)' <=> Edge(a, b)
      /\ \A a, b : DepEdge(a, b)' <=> DepEdge(a, b)
  BY <1>1 DEF Items, Frames, Edge, DepEdge
<1>3. SearchTypeOK'
  BY <1>1, <1>2 DEF SearchInv, SearchTypeOK
<1>5. Visiting' /\ Explored' /\ Checked'
  BY <1>1, <1>2 DEF SearchInv, Visiting, Explored, Checked
<1>6. Settled' /\ Ordered' /\ Ended'
  BY <1>1, <1>2 DEF SearchInv, Settled, Ordered, Ended
<1>4. SearchCalls' /\ Chained' /\ Kinds' /\ Looping'
  BY <1>1, <1>2 DEF SearchInv, SearchCalls, CallsOf, Chained, ChainedIn, Kinds, KindsOf, Looping
<1> QED
  BY <1>3, <1>4, <1>5, <1>6 DEF SearchInv

-----------------------------------------------------------------------------
\* The calls are what the invariant says all through the search.
THEOREM SearchIsRight == SearchSpec => []SearchInv
<1>1. SearchStart => SearchInv
  BY InitInv
<1>2. SearchInv /\ [SearchNext]_loopVars => SearchInv'
  BY CheckNextInv, CallDependentInv, CallRestInv, ReturnInv, ReturnLoopInv, AcceptInv,
     StutterInv DEF SearchNext
<1> QED
  BY <1>1, <1>2, PTL DEF SearchSpec

\* The error _found_dep_loop raises shows a loop of the graph, whatever the
\* graph: every item of it comes after the next one, and the last after the
\* first.
THEOREM LoopsAreReal == SearchSpec => []LoopIsReal
<1>1. SearchInv => LoopIsReal
  BY DEF SearchInv, Looping, Ended, LoopIsReal
<1> QED
  BY <1>1, SearchIsRight, PTL

\* A loop that was met is raised: the call it started at runs still.
THEOREM LoopsAreRaised == SearchSpec => []LoopIsRaised
<1>1. SearchInv => LoopIsRaised
  <2> SUFFICES ASSUME SearchInv, loop # <<>> PROVE \E n \in DOMAIN stack : stack[n].item = loop[1]
    BY DEF LoopIsRaised
  <2>1. PICK n \in 1..Len(stack) : stack[n].item = loop[1]
    BY DEF SearchInv, Looping
  <2>2. DOMAIN stack = 1..Len(stack)
    BY DEF SearchInv, SearchTypeOK
  <2> QED
    BY <2>1, <2>2
<1> QED
  BY <1>1, SearchIsRight, PTL

\* In a graph that is accepted every symbol finished after all its
\* dependents: their values can be computed in the reverse order.
THEOREM AcceptedIsOrdered == SearchSpec => []EvaluationOrder
<1>1. SearchInv => EvaluationOrder
  <2> SUFFICES ASSUME SearchInv, outcome = "accepted"
               PROVE  /\ g.syms \subseteq ToRange(finished)
                      /\ \A n \in DOMAIN finished :
                            finished[n] \in g.syms =>
                                \A d \in g.dependents[finished[n]] :
                                    \E m \in 1..(n - 1) : finished[m] = d
    BY DEF EvaluationOrder
  <2>1. SearchTypeOK /\ loop = <<>> /\ Len(stack) = 0 /\ next > Len(g.order)
    BY DEF SearchInv, Ended
  <2>2. DOMAIN finished = 1..Len(finished)
    BY <2>1 DEF SearchTypeOK
  <2>3. ASSUME NEW s \in g.syms PROVE s \in ToRange(finished)
    <3>1. PICK m \in DOMAIN g.order : g.order[m] = s
      BY <2>1 DEF SearchTypeOK, IsGraph, ToRange
    <3>2. m \in 1..Len(g.order) /\ m < next
      BY <2>1, <3>1 DEF SearchTypeOK, IsGraph
    <3>3. visited[s] = 2 /\ s \in Items(g)
      BY <2>1, <3>1, <3>2 DEF SearchInv, Checked, Items
    <3>4. PICK n \in 1..Len(finished) : finished[n] = s
      BY <3>3 DEF SearchInv, Settled
    <3> QED
      BY <2>2, <3>4 DEF ToRange
  <2> QED
    BY <2>2, <2>3 DEF SearchInv, Ordered
<1> QED
  BY <1>1, SearchIsRight, PTL

-----------------------------------------------------------------------------
\* A loop is not only that a choice has symbols and they are in it: one of
\* its steps goes from a symbol to a dependent, of those added already, of
\* the next to be added, or of those between the calls that close it.
DepAt(frames, j) == DepEdge(frames[j].item, frames[j + 1].item)

Mixed ==
    loop # <<>> =>
        \/ \E n \in 1..(Len(loop) - 1) : DepEdge(loop[n + 1], loop[n])
        \/ DepEdge(stack[Len(stack)].item, loop[Len(loop)])
        \/ \A m \in 1..Len(stack) : stack[m].item = loop[1] =>
              \E j \in m..(Len(stack) - 1) : DepAt(stack, j)

LEMMA MixedInit == SearchStart => Mixed
  BY DEF SearchStart, SearchInit, Mixed

\* The call of a further item closes a loop: the calls of a choice and of
\* its symbols alone do not come back to where they were.
LEMMA MixedRest ==
    ASSUME SearchInv, CallRest, loop' # <<>> PROVE Mixed'
<1> DEFINE L == Len(stack)
           i == Head(Running.rest)
<1>1. /\ loop = <<>> /\ Searching /\ stack # <<>> /\ Running.deps = {} /\ Running.rest # <<>>
      /\ g' = g /\ SearchTypeOK
  BY DEF CallRest, Searching, SearchInv
<1>2. PICK frames : /\ frames = [stack EXCEPT ![Len(stack)].rest = Tail(@)]
                    /\ IF i = Running.skip THEN stack' = frames /\ UNCHANGED <<visited, loop>>
                       ELSE Visit(i, Running.item, frames)
  BY DEF CallRest
<1>3. /\ Len(frames) = L /\ \A n \in 1..L : frames[n].item = stack[n].item
      /\ i \in Items(g) /\ Edge(Running.item, i)
  BY <1>1, <1>2, Shortened
<1>4. /\ L \in Nat /\ L > 0 /\ Running = stack[L] /\ Running.item \in Items(g)
      /\ Running.rest \in Seq(Items(g))
  BY <1>1, Innermost
<1> HIDE DEF i
<1>5. /\ i # Running.skip /\ stack' = frames /\ loop' = <<i>> /\ visited[i] = 1
  <2>1. CASE i = Running.skip
    BY <1>1, <1>2, <2>1
  <2>2. CASE i # Running.skip
    <3>1. Visit(i, Running.item, frames)
      BY <1>2, <2>2
    <3>2. visited[i] \in {0, 1, 2}
      BY <1>1, <1>3 DEF SearchTypeOK
    <3> QED
      BY <1>1, <2>2, <3>1, <3>2 DEF Visit
  <2> QED
    BY <2>1, <2>2
<1>6. \A a, b : DepEdge(a, b)' <=> DepEdge(a, b)
  BY <1>1 DEF DepEdge
<1>7. CASE DepEdge(Running.item, i)
  BY <1>3, <1>4, <1>5, <1>6, <1>7 DEF Mixed
<1>8. CASE ~DepEdge(Running.item, i)
  <2> SUFFICES ASSUME NEW m \in 1..L, stack[m].item = i
               PROVE  \E j \in m..(L - 1) : DepAt(stack, j)
    <3>1. (\A n \in 1..L : stack[n].item = i => \E j \in n..(L - 1) : DepAt(stack, j)) => Mixed'
      <4> SUFFICES ASSUME \A n \in 1..L : stack[n].item = i => \E j \in n..(L - 1) : DepAt(stack, j),
                          NEW n \in 1..L, stack'[n].item = i
                   PROVE  \E j \in n..(L - 1) : DepAt(stack, j)'
        BY <1>3, <1>5 DEF Mixed
      <4>1. PICK j \in n..(L - 1) : DepAt(stack, j)
        BY <1>3, <1>5
      <4>2. j \in 1..L /\ j + 1 \in 1..L
        BY <1>4
      <4> QED
        BY <1>3, <1>5, <1>6, <4>1, <4>2 DEF DepAt
    <3> QED
      BY <3>1
  <2>1. KindsOf(stack) /\ ChainedIn(stack)
    BY <1>1 DEF SearchInv, Kinds, Chained
  <2>2. CASE Running.item \in g.syms
    <3>1. i \in g.choices /\ i \notin g.syms
      BY <1>1, <1>3, <1>8, <2>2 DEF Edge, DepEdge, SearchTypeOK, IsGraph, Items
    <3>2. m < L /\ m \in 1..(L - 1) /\ m + 1 \in 2..L /\ m + 1 \in 1..L
      BY <1>4, <2>2, <3>1
    <3>3. ~DepEdge(stack[m].item, stack[m + 1].item)
      BY <3>1 DEF DepEdge
    <3>4. stack[m + 1].item \in g.syms
      <4>1. Edge(i, stack[m + 1].item)
        BY <2>1, <3>2 DEF ChainedIn
      <4> QED
        BY SMTT(30), <1>1, <3>1, <4>1 DEF Edge, ToRange, SearchTypeOK, IsGraph
    <3>5. /\ stack[m + 1].rest = <<>>
          /\ m + 1 < L => DepEdge(stack[m + 1].item, stack[m + 2].item)
      <4>1. m + 1 - 1 = m /\ m + 1 + 1 = m + 2
        BY <3>2
      <4> QED
        BY <2>1, <3>2, <3>3, <3>4, <4>1 DEF KindsOf
    <3>6. m + 1 < L
      BY <1>1, <1>4, <3>2, <3>5
    <3>7. m + 1 \in m..(L - 1) /\ m + 1 + 1 = m + 2
      BY <1>4, <3>2, <3>6
    <3> QED
      BY <3>5, <3>6, <3>7 DEF DepAt
  <2>3. CASE Running.item \in g.choices
    <3>1. Running.item \notin g.syms /\ i \in g.syms
      BY <1>1, <1>3, <2>3 DEF Edge, ToRange, SearchTypeOK, IsGraph
    <3>2. m < L /\ L - 1 \in m..(L - 1) /\ L \in 2..L /\ L - 1 + 1 = L
      BY <1>1, <1>4, <2>3, <3>1 DEF SearchTypeOK, IsGraph
    <3>3. CASE DepEdge(stack[L - 1].item, stack[L].item)
      BY <3>2, <3>3 DEF DepAt
    <3>4. CASE ~DepEdge(stack[L - 1].item, stack[L].item)
      <4>1. Running.skip = stack[L - 1].item
        BY <1>4, <2>1, <2>3, <3>2, <3>4 DEF KindsOf
      <4>2. m < L - 1
        BY <1>4, <1>5, <3>2, <4>1
      <4>3. /\ L - 1 \in 2..L /\ L - 1 < L /\ L - 1 - 1 = L - 2 /\ L - 2 \in m..(L - 1)
            /\ L - 2 + 1 = L - 1 /\ L - 1 \in 1..(L - 1)
        BY <1>4, <4>2
      <4>4. stack[L - 1].item \in g.syms
        <5>1. Edge(stack[L - 1].item, stack[L - 1 + 1].item)
          BY <2>1, <4>3 DEF ChainedIn
        <5>2. Edge(stack[L - 1].item, Running.item)
          BY <1>4, <3>2, <5>1
        <5>3. \A c \in g.choices : Running.item \notin ToRange(g.members[c])
          BY <1>1, <3>1 DEF ToRange, SearchTypeOK, IsGraph
        <5> QED
          BY <5>2, <5>3 DEF Edge
      <4>5. DepEdge(stack[L - 2].item, stack[L - 1].item)
        BY <2>1, <3>2, <3>4, <4>3, <4>4 DEF KindsOf
      <4> QED
        BY <4>3, <4>5 DEF DepAt
    <3> QED
      BY <3>3, <3>4
  <2> QED
    BY <1>4, <2>2, <2>3 DEF Items
<1> QED
  BY <1>7, <1>8

LEMMA MixedStep == SearchInv /\ Mixed /\ [SearchNext]_loopVars => Mixed'
<1> SUFFICES ASSUME SearchInv, Mixed, [SearchNext]_loopVars, loop' # <<>> PROVE Mixed'
  BY DEF Mixed
<1>1. CASE CheckNext
  <2>1. visited[g.order[next]] \in {0, 2}
    <3>1. /\ SearchTypeOK /\ loop = <<>> /\ Len(stack) = 0 /\ next \in 1..Len(g.order)
      BY <1>1 DEF SearchInv, SearchTypeOK, CheckNext, Searching
    <3>2. g.order[next] \in Items(g)
      BY <3>1 DEF SearchTypeOK, IsGraph, Items
    <3>3. visited[g.order[next]] # 1
      BY <3>1, <3>2 DEF SearchInv, Visiting
    <3> QED
      BY <3>1, <3>2, <3>3 DEF SearchTypeOK
  <2>2. loop' = loop
    <3>1. Visit(g.order[next], NoItem, <<>>)
      BY <1>1 DEF CheckNext
    <3>2. CASE visited[g.order[next]] = 0
      BY <3>1, <3>2 DEF Visit
    <3>3. CASE visited[g.order[next]] = 2
      BY <3>1, <3>3 DEF Visit
    <3> QED
      BY <2>1, <3>2, <3>3
  <2> QED
    BY <1>1, <2>2 DEF CheckNext, Searching
<1>2. ASSUME NEW d \in Items(g), CallDependent(d) PROVE Mixed'
  <2> DEFINE L == Len(stack)
             frames == [stack EXCEPT ![L].deps = @ \ {d}]
  <2>1. /\ loop = <<>> /\ stack # <<>> /\ d \in Running.deps /\ g' = g /\ SearchTypeOK
        /\ Visit(d, NoItem, frames)
    BY <1>2 DEF CallDependent, Searching, SearchInv
  <2>2. /\ L \in Nat /\ L > 0 /\ L \in 1..L /\ Running = stack[L] /\ Running \in Frames
        /\ stack \in Seq(Frames)
    BY <2>1, Innermost
  <2>3. Len(frames) = L /\ frames[L].item = Running.item
    BY <2>2 DEF Frames
  <2>4. DepEdge(Running.item, d)
    <3>1. /\ Running.item \in g.syms => Running.deps \subseteq g.dependents[Running.item]
          /\ Running.item \in g.choices => Running.deps = {}
      BY <2>2 DEF SearchInv, SearchCalls, CallsOf
    <3> QED
      BY <2>1, <2>2, <3>1 DEF DepEdge, Frames, Items
  <2> HIDE DEF frames
  <2>5. loop' = <<d>> /\ stack' = frames
    <3>1. visited[d] \in {0, 1, 2}
      BY <1>2, <2>1 DEF SearchTypeOK
    <3> QED
      BY <2>1, <3>1 DEF Visit
  <2>6. Len(stack') = L /\ stack'[L].item = Running.item /\ Len(loop') = 1 /\ loop'[1] = d
    BY <2>3, <2>5
  <2>7. DepEdge(stack[Len(stack)].item, loop[Len(loop)])'
    BY <2>1, <2>4, <2>6 DEF DepEdge
  <2> QED
    BY <2>7 DEF Mixed
<1>3. CASE CallRest
  BY <1>3, MixedRest
<1>4. CASE Return
  BY <1>4 DEF Return, Searching
<1>5. CASE ReturnLoop
  <2> DEFINE L == Len(stack)
             K == Len(loop)
  <2>1. /\ loop # <<>> /\ stack # <<>> /\ SearchTypeOK /\ g' = g
        /\ \A a, b : DepEdge(a, b)' <=> DepEdge(a, b)
    BY <1>5 DEF ReturnLoop, SearchInv, DepEdge
  <2>2. L \in Nat /\ L > 0 /\ Running = stack[L] /\ Running.item \in Items(g) /\ stack \in Seq(Frames)
    BY <2>1, Innermost
  <2>3. loop \in Seq(Items(g)) /\ K \in Nat /\ K > 0
    BY <2>1 DEF SearchTypeOK
  <2>4. CASE Running.item = loop[1]
    <3>1. stack' = stack /\ loop' = loop
      BY <1>5, <2>4 DEF ReturnLoop
    <3> QED
      BY <2>1, <3>1 DEF Mixed, DepAt
  <2>5. CASE Running.item # loop[1]
    <3>1. stack' = Below /\ loop' = Append(loop, Running.item)
      BY <1>5, <2>5 DEF ReturnLoop
    <3>2. /\ Len(stack') = L - 1 /\ \A n \in 1..(L - 1) : stack'[n] = stack[n]
      BY <2>2, <3>1, Prefix DEF Below
    <3>3. /\ Len(loop') = K + 1 /\ loop'[K + 1] = Running.item
          /\ \A n \in 1..K : loop'[n] = loop[n]
      BY <2>2, <2>3, <3>1
    <3>4. CASE \E n \in 1..(K - 1) : DepEdge(loop[n + 1], loop[n])
      <4>1. PICK n \in 1..(K - 1) : DepEdge(loop[n + 1], loop[n])
        BY <3>4
      <4>2. n \in 1..K /\ n + 1 \in 1..K
        BY <2>3
      <4>3. DepEdge(loop'[n + 1], loop'[n])
        BY <3>3, <4>1, <4>2
      <4> QED
        BY <2>1, <2>3, <3>3, <4>2, <4>3 DEF Mixed
    <3>5. CASE DepEdge(stack[L].item, loop[K])
      <4>1. loop'[K + 1] = stack[L].item /\ loop'[K] = loop[K]
        BY <2>2, <2>3, <3>3
      <4>2. K \in 1..(Len(loop') - 1)
        BY <2>3, <3>3
      <4>3. \E n \in 1..(Len(loop') - 1) : DepEdge(loop'[n + 1], loop'[n])
        BY <3>5, <4>1, <4>2
      <4> QED
        BY <2>1, <4>3 DEF Mixed, DepEdge
    <3>6. CASE \A m \in 1..L : stack[m].item = loop[1] => \E j \in m..(L - 1) : DepAt(stack, j)
      <4>1. PICK m \in 1..L : stack[m].item = loop[1]
        BY <2>1 DEF SearchInv, Looping
      <4>2. m < L /\ L - 1 \in 1..(L - 1) /\ L - 1 + 1 = L
        BY <2>2, <2>5, <4>1
      <4>3. CASE DepAt(stack, L - 1)
        <5>1. DepEdge(stack'[L - 1].item, loop'[K + 1])
          BY <2>2, <3>2, <3>3, <4>2, <4>3 DEF DepAt
        <5> QED
          BY <2>1, <3>2, <3>3, <5>1 DEF Mixed
      <4>4. CASE ~DepAt(stack, L - 1)
        <5>1. ASSUME NEW n \in 1..(L - 1), stack'[n].item = loop'[1]
              PROVE  \E j \in n..(L - 2) : DepAt(stack, j)'
          <6>1. n \in 1..L /\ stack[n].item = loop[1]
            BY <2>2, <2>3, <3>2, <3>3, <5>1
          <6>2. PICK j \in n..(L - 1) : DepAt(stack, j)
            BY <3>6, <6>1
          <6>3. j \in n..(L - 2) /\ j \in 1..(L - 1) /\ j + 1 \in 1..(L - 1)
            BY <2>2, <4>4, <6>2
          <6> QED
            BY <2>1, <3>2, <6>2, <6>3 DEF DepAt
        <5> QED
          BY <2>2, <3>2, <5>1 DEF Mixed
      <4> QED
        BY <4>3, <4>4
    <3> QED
      BY <2>1, <3>4, <3>5, <3>6 DEF Mixed
  <2> QED
    BY <2>4, <2>5
<1>6. CASE Accept
  BY <1>6 DEF Accept, Searching
<1>7. CASE UNCHANGED loopVars
  BY <1>7 DEF loopVars, Mixed, DepAt, DepEdge
<1> QED
  BY <1>1, <1>2, <1>3, <1>4, <1>5, <1>6, <1>7 DEF SearchNext

\* No error for a choice and its symbols alone: every loop that is reported
\* has a step from a symbol to one of its dependents.
THEOREM LoopsHaveDependencies == SearchSpec => []LoopHasDependency
<1>1. SearchInv /\ Mixed => LoopHasDependency
  <2> DEFINE before(n) == IF n = Len(loop) THEN loop[1] ELSE loop[n + 1]
  <2> SUFFICES ASSUME SearchInv, Mixed, outcome = "loop"
               PROVE  \E n \in DOMAIN loop :
                         before(n) \in g.syms /\ loop[n] \in g.dependents[before(n)]
    BY DEF LoopHasDependency
  <2>1. /\ loop # <<>> /\ Len(stack) > 0 /\ stack[Len(stack)].item = loop[1] /\ SearchTypeOK
    BY DEF SearchInv, Ended
  <2>2. /\ DOMAIN loop = 1..Len(loop) /\ Len(loop) \in Nat /\ Len(loop) > 0 /\ Len(stack) \in Nat
    BY <2>1 DEF SearchTypeOK
  <2>3. CASE \E n \in 1..(Len(loop) - 1) : DepEdge(loop[n + 1], loop[n])
    <3>1. PICK n \in 1..(Len(loop) - 1) : DepEdge(loop[n + 1], loop[n])
      BY <2>3
    <3>2. n \in DOMAIN loop /\ n # Len(loop)
      <4>1. \A l \in Nat : \A k \in 1..(l - 1) : k \in 1..l /\ k # l
        OBVIOUS
      <4> QED
        BY <2>2, <4>1
    <3> QED
      BY <3>1, <3>2 DEF DepEdge
  <2>4. CASE DepEdge(loop[1], loop[Len(loop)])
    <3>1. Len(loop) \in DOMAIN loop /\ before(Len(loop)) = loop[1]
      BY <2>2
    <3> QED
      BY <2>4, <3>1 DEF DepEdge
  <2>5. ~(\A m \in 1..Len(stack) : stack[m].item = loop[1] =>
             \E j \in m..(Len(stack) - 1) : DepAt(stack, j))
    <3>1. Len(stack) \in 1..Len(stack) /\ Len(stack)..(Len(stack) - 1) = {}
      BY <2>1, <2>2
    <3> QED
      BY <2>1, <3>1
  <2> QED
    BY <2>1, <2>3, <2>4, <2>5 DEF Mixed
<1> QED
  BY <1>1, SearchIsRight, MixedInit, MixedStep, PTL DEF SearchSpec

\* A loop that the search meets is raised as an error, which names items that
\* do depend on each other in a loop.
THEOREM LoopsAreReported == SearchSpec => []LoopReported
<1>1. LoopIsRaised /\ LoopIsReal /\ LoopHasDependency => LoopReported
  BY DEF LoopReported
<1> QED
  BY LoopsAreRaised, LoopsAreReal, LoopsHaveDependencies, <1>1, PTL
=============================================================================
