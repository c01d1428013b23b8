----------------------------- MODULE KconfigParse ----------------------------
(***************************************************************************)
(* How kconfiglib reads Kconfig files: the parser, with its stack of open  *)
(* files and of open blocks.                                               *)
(*                                                                         *)
(* A line is a record of what the tokenizer makes of it; t says which:     *)
(*   config s; choice; comment; menu; if cond; endif, endmenu, endchoice   *)
(*   source files (those its pattern matches, in order) obligatory         *)
(*   type type prompt; prompt prompt (prompt is <<condition>>, <<>> without*)
(*   one); depends cond; visible cond; default value cond; select s cond;  *)
(*   imply s cond; range low high cond; optional                           *)
(* and eof, the end of a file.  Choices have the one name C: they are the  *)
(* places where one choice is defined.  Help texts, options, mainmenu and  *)
(* macros are left out.  Expressions are those of KconfigEval.             *)
(***************************************************************************)
EXTENDS Integers, FiniteSets, SequencesExt

CONSTANTS
    Files, Roots,       \* the files; those parsing may start with
    Line,               \* the lines there may be in them
    NextLines(_, _)     \* those a file may have after its first ones

ASSUME RootsAssumption == Roots \subseteq Files

VARIABLES
    text,               \* history: the lines read of each file
    file, linenr, pos,  \* the current file, and how much of it was read
    include, readers,   \* _include_path and _filestack: where each of the
                        \* files that led here stopped
    blocks,             \* the _parse_block() calls that are not over
    prop,               \* the node _parse_properties() is at, or None
    nodes,              \* the menu nodes, in the order they were made
    stream,             \* history: the lines that were met, of all files
    defs,               \* what is kept for each symbol and the choice
    stage               \* "parse", "error", "parsed", "tree", "search"

reader == <<file, linenr, pos, include, readers>>
treeVars == <<text, reader, blocks, prop, nodes, stream, defs, stage>>

None == 0
Top == 1
C == "C"
Y == <<"const", 2>>
N == <<"const", 0>>
Item(i) == <<"item", i>>

EndOf == [if |-> "endif", menu |-> "endmenu", choice |-> "endchoice"]
Blocks == DOMAIN EndOf
Entries == {"config", "comment"}
Ends == {EndOf[b] : b \in Blocks}
Properties == {"type", "prompt", "depends", "visible", "default", "select",
               "imply", "range", "optional"}

(* _make_and *)
MakeAnd(a, b) == CASE a = Y -> b
                   [] a # Y /\ b = Y -> a
                   [] Y \notin {a, b} /\ N \in {a, b} -> N
                   [] {Y, N} \cap {a, b} = {} -> <<"and", a, b>>

-----------------------------------------------------------------------------
(* What the tokenizer makes of a line, whatever the line *)
IsLine(line) ==
    /\ line.t \in Entries \cup Blocks \cup Ends \cup Properties \cup {"source", "eof"}
    /\ line.t = "source" => line.files \in Seq(Files)

ASSUME LineAssumption == \A line \in Line : IsLine(line)

(* A menu node; its kind says what its item is. *)
Node(kind, name, parent, where) ==
    [kind |-> kind, name |-> name, parent |-> parent, list |-> None, next |-> None,
     prompt |-> IF kind \in {"menu", "comment"} THEN <<Y>> ELSE <<>>,
     dep |-> Y, visibility |-> Y, defaults |-> <<>>, ranges |-> <<>>,
     selects |-> <<>>, implies |-> <<>>, where |-> where]

NodeOf(line, parent) ==
    LET where == <<file, linenr + 1>> IN
    CASE line.t = "config" -> Node("symbol", line.s, parent, where)
      [] line.t = "choice" -> Node("choice", C, parent, where)
      [] line.t = "if" -> [Node("if", "if", parent, where) EXCEPT !.dep = line.cond]
      [] line.t \in {"menu", "comment"} -> Node(line.t, line.t, parent, where)

(* A symbol or choice before its properties are added *)
Undefined == [type |-> "unknown", optional |-> FALSE, choice |-> "none",
              direct |-> N, rev |-> N, weak |-> N, defaults |-> <<>>,
              ranges |-> <<>>, selectors |-> <<>>, members |-> <<>>]

Def(ds, i) == IF i \in DOMAIN ds THEN ds[i] ELSE Undefined
Defined(ds, i, d) ==
    [j \in DOMAIN ds \cup {i} |-> IF j = i THEN d ELSE ds[j]]

Call(end, parent, prev, rest) ==
    [end |-> end, parent |-> parent, prev |-> prev, rest |-> rest]

Init ==
    /\ text = [f \in Files |-> <<>>]
    /\ file \in Roots /\ linenr = 0 /\ pos = 0
    /\ include = <<>> /\ readers = <<>>
    /\ blocks = <<Call("eof", Top, Top, <<>>)>>
    /\ prop = None
    /\ nodes = <<Node("menu", "menu", None, <<file, 1>>)>>
    /\ stream = <<>>
    /\ defs = [i \in {} |-> Undefined]
    /\ stage = "parse"

Block == Last(blocks)

(* _next_line: what was read of a file before is read again the same. *)
Lines == IF pos < Len(text[file]) THEN {text[file][pos + 1]}
         ELSE NextLines(file, text[file])

NextLine(line) ==
    /\ stage = "parse"
    /\ text' = [text EXCEPT ![file] = IF pos < Len(@) THEN @ ELSE Append(@, line)]

Consume(line) ==
    /\ pos' = pos + 1 /\ linenr' = linenr + 1
    /\ stream' = Append(stream, line)
    /\ UNCHANGED <<file, include, readers>>

ParseError ==
    /\ stage' = "error"
    /\ UNCHANGED <<blocks, prop, nodes, defs>>

(* config and comment: the new node comes after prev, and is where the     *)
(* properties that follow go.                                              *)
ParseEntry(line) ==
    LET n == Len(nodes) + 1 IN
    /\ line.t \in Entries
    /\ Consume(line)
    /\ nodes' = Append([nodes EXCEPT ![Block.prev].next = n],
                       NodeOf(line, Block.parent))
    /\ blocks' = [blocks EXCEPT ![Len(blocks)].prev = n]
    /\ defs' = IF line.t = "config" THEN Defined(defs, line.s, Def(defs, line.s))
               ELSE defs
    /\ prop' = n
    /\ UNCHANGED stage

(* menu, choice and if: the nodes of the block are chained to the node, *)
ParseBlock(line) ==
    LET n == Len(nodes) + 1 IN
    /\ line.t \in Blocks
    /\ Consume(line)
    /\ nodes' = Append(nodes, NodeOf(line, Block.parent))
    /\ blocks' = Append(blocks, Call(EndOf[line.t], n, n, <<>>))
    /\ defs' = IF line.t = "choice" THEN Defined(defs, C, Def(defs, C)) ELSE defs
    /\ prop' = IF line.t = "if" THEN None ELSE n
    /\ UNCHANGED stage

(* and are tilted up at its end, where the node comes after prev itself. *)
TiltedUp(ns, n, prev) == [ns EXCEPT ![n].list = ns[n].next, ![prev].next = n]

EndBlock ==
    LET n == Block.parent
        outer == blocks[Len(blocks) - 1]
    IN /\ nodes' = TiltedUp([nodes EXCEPT ![Block.prev].next = None], n, outer.prev)
       /\ blocks' = [Front(blocks) EXCEPT ![Len(blocks) - 1].prev = n]
       /\ UNCHANGED <<defs, stage>>

ParseEnd(line) ==
    /\ line.t \in Ends
    /\ Consume(line)
    /\ prop' = None
    /\ IF line.t = Block.end THEN EndBlock
       ELSE stage' = "error" /\ UNCHANGED <<nodes, blocks, defs>>

(* _enter_file, with "recursive 'source' of ... detected"; path is the     *)
(* include path, readers the files to come back to.                        *)
EnterFile(files, path, stopped, open) ==
    /\ include' = path /\ readers' = stopped
    /\ UNCHANGED defs
    /\ IF \E i \in DOMAIN path : path[i][1] = Head(files)
       THEN stage' = "error" /\ UNCHANGED <<file, linenr, pos, blocks>>
       ELSE /\ file' = Head(files) /\ linenr' = 0 /\ pos' = 0
            /\ blocks' = Append(open, Call("eof", Last(open).parent,
                                           Last(open).prev, Tail(files)))
            /\ UNCHANGED stage

(* source, rsource, osource, orsource: the block goes on in each file. *)
ParseSource(line) ==
    /\ line.t = "source"
    /\ prop' = None
    /\ UNCHANGED nodes
    /\ IF line.files # <<>>
       THEN /\ EnterFile(line.files, Append(include, <<file, linenr + 1>>),
                         Append(readers, pos + 1), blocks)
            /\ UNCHANGED stream
       ELSE /\ stage' = IF line.obligatory THEN "error" ELSE stage
            /\ pos' = pos + 1 /\ linenr' = linenr + 1
            /\ UNCHANGED <<file, include, readers, stream, blocks, defs>>

\* Mutant of LeaveFile: the line number is not restored.
LeaveFileAtLine ==
    /\ file' = Last(include)[1]
    /\ pos' = Last(readers)
    /\ include' = Front(include) /\ readers' = Front(readers)
    /\ UNCHANGED linenr

\* Mutant of LeaveFile: the readers are not popped.
LeaveFileOpen ==
    /\ file' = Last(include)[1] /\ linenr' = Last(include)[2]
    /\ pos' = Last(readers)
    /\ include' = Front(include)
    /\ UNCHANGED readers

(* _leave_file *)
LeaveFile ==
    /\ file' = Last(include)[1] /\ linenr' = Last(include)[2]
    /\ pos' = Last(readers)
    /\ include' = Front(include) /\ readers' = Front(readers)

(* At the end of a file, its _parse_block() returns the last node to the   *)
(* one of the file that sourced it, which enters the next file or goes on. *)
ParseEof(line) ==
    LET outer == Front(blocks)
        back == [outer EXCEPT ![Len(outer)].prev = Block.prev]
    IN /\ line.t = "eof"
       /\ prop' = None
       /\ UNCHANGED stream
       /\ IF Block.end # "eof"
          THEN stage' = "error" /\ UNCHANGED <<reader, blocks, nodes, defs>>
          ELSE /\ nodes' = [nodes EXCEPT ![Block.prev].next = None]
               /\ CASE Len(blocks) = 1 ->
                         stage' = "parsed" /\ UNCHANGED <<reader, blocks, defs>>
                    [] Len(blocks) > 1 /\ Block.rest = <<>> ->
                         LeaveFile /\ blocks' = back /\ UNCHANGED <<stage, defs>>
                    [] Len(blocks) > 1 /\ Block.rest # <<>> ->
                         EnterFile(Block.rest, include, readers, back)

-----------------------------------------------------------------------------
(* _parse_properties: a property of the node, which may turn out not to be *)
(* one it can have                                                         *)
WithProperty(n, line) ==
    CASE line.t = "type" /\ line.prompt = <<>> -> n
      [] line.t = "prompt" \/ (line.t = "type" /\ line.prompt # <<>>) ->
            [n EXCEPT !.prompt = line.prompt]
      [] line.t = "depends" -> [n EXCEPT !.dep = MakeAnd(@, line.cond)]
      [] line.t = "visible" -> [n EXCEPT !.visibility = MakeAnd(@, line.cond)]
      [] line.t = "default" ->
            [n EXCEPT !.defaults = Append(@, <<line.value, line.cond>>)]
      [] line.t = "select" ->
            [n EXCEPT !.selects = Append(@, <<line.s, line.cond>>)]
      [] line.t = "imply" ->
            [n EXCEPT !.implies = Append(@, <<line.s, line.cond>>)]
      [] line.t = "range" ->
            [n EXCEPT !.ranges = Append(@, <<line.low, line.high, line.cond>>)]
      [] line.t = "optional" -> n

(* What the property says of the symbol or choice as a whole *)
WithDef(d, line) ==
    CASE line.t = "type" -> [d EXCEPT !.type = line.type]
      [] line.t = "optional" -> [d EXCEPT !.optional = TRUE]
      [] line.t \notin {"type", "optional"} -> d

\* Mutant of Misplaced: optional may be said of a symbol too.
MisplacedNoOptional(kind, line) ==
    \/ line.t \in {"select", "imply"} /\ kind # "symbol"
    \/ line.t = "visible" /\ kind # "menu"
    \/ line.t \in {"type", "prompt"} /\ kind \notin {"symbol", "choice"}

(* The error of select, imply and optional is a KconfigError.  That of the *)
(* others is an AttributeError: a type is set on node.item, which of a     *)
(* menu or comment is a number, as _parse_prompt() finds out when it warns *)
(* that the node, whose title is its prompt, has one; and only menus have  *)
(* a visibility.                                                           *)
Misplaced(kind, line) ==
    \/ line.t \in {"select", "imply"} /\ kind # "symbol"
    \/ line.t = "optional" /\ kind # "choice"
    \/ line.t = "visible" /\ kind # "menu"
    \/ line.t \in {"type", "prompt"} /\ kind \notin {"symbol", "choice"}

ParseProperty(line) ==
    /\ line.t \in Properties
    /\ Consume(line)
    /\ IF prop = None \/ Misplaced(nodes[prop].kind, line) THEN ParseError
       ELSE /\ nodes' = [nodes EXCEPT ![prop] = WithProperty(@, line)]
            /\ defs' = IF nodes[prop].kind \in {"symbol", "choice"}
                       THEN [defs EXCEPT ![nodes[prop].name] = WithDef(@, line)]
                       ELSE defs
            /\ UNCHANGED <<blocks, prop, stage>>

Parse ==
    \E line \in Lines :
        /\ NextLine(line)
        /\ \/ ParseEntry(line) \/ ParseBlock(line) \/ ParseEnd(line)
           \/ ParseSource(line) \/ ParseEof(line) \/ ParseProperty(line)

(* The parser alone; KconfigTree and KconfigLoad go on from what it parsed *)
ParseSpec == Init /\ [][Parse]_treeVars

(* The lines of a file are lines, whatever was read of it. *)
LinesRight ==
    \A f \in Files : \A lines \in Seq(Line) : NextLines(f, lines) \subseteq Line

-----------------------------------------------------------------------------
TypeOK ==
    /\ DOMAIN text = Files
    /\ \A f \in Files : ToSet(text[f]) \subseteq Line
    /\ file \in Files /\ linenr \in Nat /\ pos \in 0..Len(text[file])
    /\ Len(include) = Len(readers)
    /\ \A i \in DOMAIN blocks :
          /\ blocks[i].end \in Ends \cup {"eof"}
          /\ {blocks[i].parent, blocks[i].prev} \subseteq DOMAIN nodes
    /\ prop \in DOMAIN nodes \cup {None}
    /\ stage \in {"parse", "parsed", "error", "tree", "search"}

(* The nodes and errors say where they are: the line numbers kept apart    *)
(* from the open files agree with them across every sourced file.          *)
WhereItSays ==
    stage # "error" =>
    /\ linenr = pos
    /\ \A n \in DOMAIN nodes \ {Top} :
          LET line == text[nodes[n].where[1]][nodes[n].where[2]] IN
          CASE nodes[n].kind = "symbol" -> line.t = "config" /\ line.s = nodes[n].name
            [] nodes[n].kind # "symbol" -> line.t = nodes[n].kind

-----------------------------------------------------------------------------
(* A file is accepted unless something is wrong with it: a block that is   *)
(* not closed, or closed by another end, in the file it was opened in, a   *)
(* property where none can be, no file to source, or one that sources      *)
(* itself in the end.                                                      *)
Depth(lines, i) ==
    Cardinality({j \in 1..i : lines[j].t \in Blocks})
      - Cardinality({j \in 1..i : lines[j].t \in Ends})

Matching(lines, i, j) ==
    /\ i < j /\ lines[i].t \in Blocks /\ lines[j].t = EndOf[lines[i].t]
    /\ Depth(lines, j) = Depth(lines, i) - 1
    /\ \A l \in i..(j - 1) : Depth(lines, l) >= Depth(lines, i)

Nested(lines) ==
    /\ \A j \in DOMAIN lines : lines[j].t \in Ends =>
          \E i \in DOMAIN lines : Matching(lines, i, j)
    /\ \A i \in DOMAIN lines : lines[i].t \in Blocks /\ Last(lines).t = "eof" =>
          \E j \in DOMAIN lines : Matching(lines, i, j)

PropertiesInPlace(lines) ==
    \A i \in DOMAIN lines : lines[i].t \in Properties =>
        LET before == {j \in 1..i : lines[j].t \notin Properties} IN
        /\ before # {}
        /\ lines[Max(before)].t \in {"config", "choice", "menu", "comment"}
        /\ lines[i].t = "optional" => lines[Max(before)].t = "choice"
        /\ lines[i].t = "visible" => lines[Max(before)].t = "menu"
        /\ lines[i].t \in {"select", "imply"} => lines[Max(before)].t = "config"
        /\ lines[i].t \in {"type", "prompt"} => lines[Max(before)].t \in {"config", "choice"}

(* The files that some of the files source; texts are the lines of each *)
Sourced(texts, fs) ==
    UNION {UNION {ToSet(line.files) : line \in {l \in ToSet(texts[f]) : l.t = "source"}} :
             f \in fs}

(* f is in every set of files that has those it sources, and theirs. *)
SourcesItself(texts, f) ==
    \A fs \in SUBSET Files : Sourced(texts, fs \cup {f}) \subseteq fs => f \in fs

WellFormed(texts) ==
    /\ \A f \in Files :
          /\ texts[f] # <<>> => Nested(texts[f])
          /\ PropertiesInPlace(texts[f])
          /\ ~SourcesItself(texts, f)
    /\ \A f \in Files : \A line \in ToSet(texts[f]) :
          line.t = "source" /\ line.obligatory => line.files # <<>>

AcceptsRightly ==
    stage \in {"parsed", "error"} => (stage = "parsed" <=> WellFormed(text))
=============================================================================
