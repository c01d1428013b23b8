-------------------------- MODULE KconfigInstances --------------------------
(***************************************************************************)
(* Small Kconfig files, as the parser leaves them, for the evaluation of   *)
(* KconfigEval.                                                            *)
(***************************************************************************)
EXTENDS KconfigExpr, Integers, Sequences

Y == <<"const", 2>>
M == <<"const", 1>>
N == <<"const", 0>>
I(i) == <<"item", i>>

(* A symbol as the parser leaves it, with the properties a file does not   *)
(* give at their defaults.                                                 *)
Plain == [type |-> "bool", prompts |-> <<>>, defaults |-> <<>>, ranges |-> <<>>,
          direct |-> Y, rev |-> N, weak |-> N, selectors |-> <<>>,
          choiceOf |-> NoItem, inputs |-> {}]

(* The instance with symbols S and choices C (functions from names to such *)
(* records) that asks for the attributes in asked.                         *)
Instance(S, C, asked) ==
    LET i == S @@ C IN
    [syms |-> DOMAIN S, choices |-> DOMAIN C,
     type |-> [x \in DOMAIN i |-> i[x].type],
     prompts |-> [x \in DOMAIN i |-> i[x].prompts],
     defaults |-> [x \in DOMAIN i |-> i[x].defaults],
     ranges |-> [x \in DOMAIN S |-> S[x].ranges],
     direct |-> [x \in DOMAIN S |-> S[x].direct],
     rev |-> [x \in DOMAIN S |-> S[x].rev],
     weak |-> [x \in DOMAIN S |-> S[x].weak],
     selectors |-> [x \in DOMAIN S |-> S[x].selectors],
     choiceOf |-> [x \in DOMAIN S |-> S[x].choiceOf],
     members |-> [x \in DOMAIN C |-> C[x].members],
     optional |-> {x \in DOMAIN C : C[x].optional},
     inputs |-> [x \in DOMAIN i |-> i[x].inputs],
     prompted |-> {x \in DOMAIN S : S[x].prompts # <<>>},
     auto |-> {}, asked |-> asked]

(* The instances ks with the dependents that _build_dep registers *)
Registered(ks) == [n \in DOMAIN ks |-> ks[n] @@ [dependents |-> Dependents(ks[n])]]

(* config MODULES bool "m" default y / config A tristate "a" default y /   *)
(* choice tristate "c" depends on A default Z / X tristate "x" / Z bool    *)
(* "z" / endchoice                                                         *)
TristateChoice ==
    Instance([MODULES |-> [Plain EXCEPT !.prompts = <<Y>>, !.inputs = {0},
                                        !.defaults = <<<<Y, Y>>>>],
              A |-> [Plain EXCEPT !.type = "tristate", !.prompts = <<Y>>,
                                  !.defaults = <<<<Y, Y>>>>, !.inputs = {1}],
              X |-> [Plain EXCEPT !.type = "tristate", !.prompts = <<I("C")>>,
                                  !.direct = I("C"), !.choiceOf = "C",
                                  !.inputs = {1, 2}],
              Z |-> [Plain EXCEPT !.prompts = <<I("C")>>, !.direct = I("C"),
                                  !.choiceOf = "C", !.inputs = {2}]],
             [C |-> [type |-> "tristate", prompts |-> <<I("A")>>,
                     defaults |-> <<<<"Z", I("A")>>>>, members |-> <<"X", "Z">>,
                     optional |-> FALSE, inputs |-> {1, 2}]],
             ({"vis", "tri"} \X {"MODULES", "A", "X", "Z"})
             \cup {<<"vis", "C">>, <<"sel", "C">>, <<"asg", "X">>})

(* config P tristate "p" / config Q tristate "q" depends on P select T /   *)
(* config T tristate depends on U, implied by P / config U bool "u"        *)
(* default y if T : two symbols whose values meet in select and imply.     *)
SelectImply ==
    Instance([MODULES |-> [Plain EXCEPT !.defaults = <<<<Y, Y>>>>],
              P |-> [Plain EXCEPT !.type = "tristate", !.prompts = <<Y>>,
                                  !.inputs = {1, 2}],
              Q |-> [Plain EXCEPT !.type = "tristate", !.prompts = <<I("P")>>,
                                  !.direct = I("P"), !.inputs = {2}],
              T |-> [Plain EXCEPT !.type = "tristate", !.prompts = <<I("U")>>,
                                  !.direct = I("U"), !.inputs = {0, 1},
                                  !.rev = <<"and", I("Q"), I("P")>>, !.weak = I("P"),
                                  !.selectors = <<<<"Q", I("P")>>>>],
              U |-> [Plain EXCEPT !.prompts = <<Y>>, !.inputs = {0},
                                  !.defaults = <<<<Y, M>>>>]],
             [c \in {} |-> Plain],
             ({"vis", "tri"} \X {"MODULES", "P", "Q", "T", "U"})
             \cup {<<"str", "Q">>, <<"asg", "T">>})

(* config B bool "b" / config L int default 3 if B / config N int "n"      *)
(* range 1 L if B, default 4 / config R bool "r" depends on N > 2 /        *)
(* config S string "s" if R default "7" if !R                              *)
IntRange ==
    Instance([B |-> [Plain EXCEPT !.prompts = <<Y>>, !.inputs = {0, 2}],
              L |-> [Plain EXCEPT !.type = "int",
                                  !.defaults = <<<<<<"const", 3>>, I("B")>>>>],
              N |-> [Plain EXCEPT !.type = "int", !.prompts = <<Y>>,
                                  !.ranges = <<<<<<"const", 1>>, I("L"), I("B")>>>>,
                                  !.defaults = <<<<<<"const", 4>>, Y>>>>,
                                  !.inputs = {0, 2, 5}],
              R |-> [Plain EXCEPT !.prompts = <<<<"<", <<"const", 2>>, I("N")>>>>,
                                  !.direct = <<"<", <<"const", 2>>, I("N")>>,
                                  !.inputs = {2}],
              S |-> [Plain EXCEPT !.type = "string", !.prompts = <<I("R")>>,
                                  !.defaults = <<<<<<"const", 7>>,
                                                   <<"not", I("R")>>>>>>,
                                  !.inputs = {8}]],
             [c \in {} |-> Plain],
             ({"vis", "tri"} \X {"B", "R"}) \cup ({"vis", "str"} \X {"L", "N", "S"})
             \cup {<<"asg", "R">>})

(* An optional bool choice with a symbol that depends on the other one's   *)
(* condition: choice bool "c" optional / X bool "x" / Z bool "z" if G /    *)
(* endchoice / config G bool "g" depends on F / config F bool "f"          *)
OptionalChoice ==
    Instance([F |-> [Plain EXCEPT !.prompts = <<Y>>, !.inputs = {2}],
              G |-> [Plain EXCEPT !.prompts = <<I("F")>>, !.direct = I("F"),
                                  !.inputs = {2}],
              X |-> [Plain EXCEPT !.prompts = <<I("C")>>, !.direct = I("C"),
                                  !.choiceOf = "C", !.inputs = {2}],
              Z |-> [Plain EXCEPT !.prompts = <<<<"and", I("G"), I("C")>>>>,
                                  !.direct = I("C"), !.choiceOf = "C"]],
             [C |-> [type |-> "bool", prompts |-> <<Y>>, defaults |-> <<>>,
                     members |-> <<"Z", "X">>, optional |-> TRUE,
                     inputs |-> {2}]],
             ({"vis", "tri"} \X {"F", "G", "X", "Z"})
             \cup {<<"vis", "C">>, <<"sel", "C">>, <<"asg", "C">>})

(* Both symbols of a choice also have a definition outside of it, with the *)
(* only prompt: choice bool "c" / config X bool / config Z bool /          *)
(* endchoice / config X bool "x" / config Z bool "z".  The direct          *)
(* dependencies, C || y, are simplified to y.                              *)
OutsideChoice ==
    LET outside == [Plain EXCEPT !.prompts = <<Y>>, !.choiceOf = "C",
                                 !.inputs = {2}] IN
    Instance([X |-> outside, Z |-> outside],
             [C |-> [type |-> "bool", prompts |-> <<Y>>, defaults |-> <<>>,
                     members |-> <<"X", "Z">>, optional |-> FALSE,
                     inputs |-> {2}]],
             ({"vis", "tri"} \X {"X", "Z"}) \cup {<<"vis", "C">>, <<"sel", "C">>})
-----------------------------------------------------------------------------
(* What the instances of KconfigFiles have more: the order of the symbols, *)
(* what the process does with files, and the Kconfig files edited next.    *)
Filed(k, order) ==
    k @@ [order |-> order, named |-> k.syms, texts |-> k.inputs, sources |-> {},
          defconfig |-> NoItem, fragments |-> {}, does |-> {}, backups |-> {},
          failures |-> {}, edited |-> {}]

(* config A bool "a" / config N int "n" depends on A default 1 *)
Before ==
    LET k == Filed(Instance([A |-> [Plain EXCEPT !.prompts = <<Y>>, !.inputs = {2}],
                             N |-> [Plain EXCEPT !.type = "int", !.prompts = <<I("A")>>,
                                       !.direct = I("A"), !.inputs = {2},
                                       !.defaults = <<<<<<"const", 1>>, I("A")>>>>]],
                            [c \in {} |-> Plain], {}), <<"A", "N">>)
    IN [k EXCEPT !.sources = {"A", "N"}, !.does = {"build"},
                 !.failures = {"idle", "down"}, !.texts["N"] = 1..3,
                 !.edited = {"Before", "After"}]

(* A is gone, N does not depend on it any more. *)
After ==
    LET k == Filed(Instance([N |-> [Plain EXCEPT !.type = "int", !.prompts = <<Y>>,
                                       !.inputs = {2},
                                       !.defaults = <<<<<<"const", 1>>, Y>>>>]],
                            [c \in {} |-> Plain], {}), <<"N">>)
    IN [k EXCEPT !.sources = {"A", "N"}, !.does = {"build"},
                 !.failures = {"idle", "down"}, !.texts["N"] = 1..3,
                 !.edited = {"After"}]
-----------------------------------------------------------------------------
(* The depth of every expression of an instance and of its parts *)
RECURSIVE Parts(_), DepthOf(_)
Parts(e) == {e} \cup CASE Leaf(e) -> {} [] e[1] = "not" -> Parts(e[2])
                       [] OTHER -> Parts(e[2]) \cup Parts(e[3])
DepthOf(e) == CASE Leaf(e) -> 0 [] e[1] = "not" -> 1 + DepthOf(e[2])
                [] OTHER -> 1 + Max2(DepthOf(e[2]), DepthOf(e[3]))

Depths(k) == [e \in UNION {Parts(x) : x \in Expressions(k)} |-> DepthOf(e)]

(* Each attribute ranked after the ones its computation reads in any of    *)
(* the sets of values in all.                                              *)
RECURSIVE Ranked(_, _)
Ranked(reads, ranks) ==
    LET ready == {e \in DOMAIN reads \ DOMAIN ranks : reads[e] \subseteq DOMAIN ranks}
    IN IF ready = {} THEN ranks
       ELSE Ranked(reads, [e \in ready |-> Cardinality(DOMAIN ranks)] @@ ranks)

RankOf(k, all) ==
    LET reads == [e \in Attributes(k) |->
                     {r \in UNION {Value(k, e, now).r : now \in all} :
                        r[1] \notin {"user", "mode", "pick"}}]
    IN Ranked(reads @@ <<>>, <<>>)
=============================================================================
