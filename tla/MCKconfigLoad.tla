--------------------------- MODULE MCKconfigLoad ---------------------------
(***************************************************************************)
(* KconfigLoad on the Kconfig files that can be put together from a few    *)
(* pieces.                                                                 *)
(***************************************************************************)
EXTENDS KconfigLoad
CONSTANT MaxPieces
A == Item("A")
B == Item("B")
D == Item("D")
Plain(t) == [t |-> t]
Config(s) == [t |-> "config", s |-> s]
Bool(prompt) == [t |-> "type", type |-> "bool", prompt |-> prompt]
If(t, cond) == [t |-> t, cond |-> cond]
Default(value, cond) == [t |-> "default", value |-> value, cond |-> cond]
To(t, s, cond) == [t |-> t, s |-> s, cond |-> cond]
Source(files) == [t |-> "source", files |-> files, obligatory |-> TRUE]

Pieces ==
    {<<Config("A"), Bool(<<Y>>)>>,
     <<Config("A"), Bool(<<>>), Default(Y, B), To("select", "B", Y)>>,
     <<Config("B"), Bool(<<Y>>), If("depends", A), Default(Y, A)>>,
     <<Config("D"), Bool(<<<<"!=", A, Y>>>>), To("imply", "A", B)>>,
     <<If("if", A)>>, <<If("if", <<"!=", N, B>>)>>, <<Plain("endif")>>,
     <<Plain("menu"), If("visible", B), If("depends", A)>>, <<Plain("endmenu")>>,
     <<Plain("choice"), [t |-> "prompt", prompt |-> <<B>>]>>, <<Plain("endchoice")>>,
     <<Plain("comment"), If("depends", <<"or", A, B>>)>>, <<Plain("optional")>>,
     <<Source(<<"sub">>)>>}

Starts == {piece[1] : piece \in Pieces}
Started(lines) == {i \in DOMAIN lines : lines[i] \in Starts}

(* A piece is chosen by its first line; the rest of it follows. *)
Rest(lines) ==
    LET last == Max(Started(lines)) IN
    {piece \in Pieces : /\ Len(piece) > Len(lines) - last + 1
                        /\ SubSeq(piece, 1, Len(lines) - last + 1)
                              = SubSeq(lines, last, Len(lines))}

(* Files whose items may depend on each other in a loop: C is a choice of  *)
(* X and Z, D a symbol with a default.                                     *)
Loops ==
    <<{Plain("choice")}, {[t |-> "prompt", prompt |-> <<Y>>], [t |-> "prompt", prompt |-> <<D>>]},
      {Config("X")}, {Bool(<<Y>>), Bool(<<Item("E")>>)},
      {Config("Z")}, {Bool(<<Y>>), Bool(<<D>>)},
      {Plain("endchoice")},
      {Config("D")}, {Bool(<<>>), Bool(<<Item("E")>>)}, {Default(Item("X"), Y), Default(Y, Item("Z"))},
      {Config("E")}, {Bool(<<>>)}, {Default(D, Y), Default(Item("Z"), Y), To("imply", "D", Y)},
      {Plain("eof")}>>

(* A choice whose W, Y, V ask after each other by way of D *)
Missed ==
    <<{Plain("choice")}, {[t |-> "prompt", prompt |-> <<Y>>]},
      {Config("W")}, {Bool(<<Y>>)}, {Config("Y")}, {Bool(<<Y>>), Bool(<<D>>)},
      {Config("V")}, {Bool(<<Y>>)}, {Plain("endchoice")},
      {Config("D")}, {Bool(<<>>)}, {Default(Item("V"), Y), Default(Item("W"), Y)}, {Plain("eof")}>>

(* Blocks in blocks *)
Nest ==
    <<{Plain("menu")}, {If("visible", B), If("depends", B), [t |-> "prompt", prompt |-> <<Y>>]},
      {Plain("choice"), If("if", D)},
      {Config("A"), Default(<<"and", A, B>>, Y)}, {Bool(<<Y>>), Bool(<<D>>)},
      {If("if", A), Plain("comment")},
      {Config("D")}, {Bool(<<>>), Bool(<<Y>>)}, {If("depends", A), Default(B, A)},
      {Source(<<"leaf">>), Config("A")},
      {To("select", "B", D), Plain("endif")},
      {Plain("endif"), Plain("endchoice")},
      {Plain("endchoice"), Plain("endmenu")},
      {Plain("endmenu"), Config("B")}, {Plain("eof")}>>
Leaf == <<{Config("B"), If("depends", A)}, {Bool(<<A>>)}, {Plain("eof")}>>

(* All of them *)
MCLine ==
    UNION {ToSet(piece) : piece \in Pieces}
    \cup UNION UNION {ToSet(family) : family \in {Loops, Missed, Nest, Leaf}}

InPieces(lines) ==
    LET going == IF lines = <<>> THEN {} ELSE Rest(lines)
        begun == Cardinality(Started(text["root"])) + Cardinality(Started(text["sub"]))
    IN IF going # {} THEN {piece[Len(lines) - Max(Started(lines)) + 2] : piece \in going}
       ELSE {Plain("eof")} \cup IF begun >= MaxPieces THEN {} ELSE Starts

MCNextLines(f, lines) ==
    CASE f = "loops" -> Loops[Len(lines) + 1]
      [] f = "missed" -> Missed[Len(lines) + 1]
      [] f = "nest" -> Nest[Len(lines) + 1]
      [] f = "leaf" -> Leaf[Len(lines) + 1]
      [] f \in {"root", "sub"} -> InPieces(lines)
=============================================================================
