----------------------------- MODULE Algorithms -----------------------------
(***************************************************************************)
(* The rule language of a control asked every question of a bounded set,   *)
(* beside what a control decides from its document, and what is right of   *)
(* the answers.                                                            *)
(***************************************************************************)
EXTENDS Rules, Decisions

CONSTANTS
  Trees,       \* rules as trees, to be written out and parsed
  Texts,       \* sequences of tokens, to be parsed as they are
  Readings     \* values a name may have

Bindings == [Names -> Readings]

\* ------------------------------------------------------------ a reference
\* How tightly the root of a tree binds.
Strength(tree) ==
  CASE tree.op = "or" -> 1 [] tree.op = "and" -> 2 [] tree.op = "not" -> 3
    [] tree.op \in Comparisons -> 4
    [] tree.op \in {"+", "-"} /\ Len(tree.of) = 2 -> 5
    [] tree.op \in {"*", "/"} -> 6
    [] tree.op = "-" /\ Len(tree.of) = 1 -> 7
    [] OTHER -> 8
\* How tightly each operand has to bind to stand without brackets.
Needs(tree, i) ==
  LET s == Strength(tree)
  IN CASE s = 8 -> 1 [] s \in {3, 7} -> s [] s = 4 -> 5
       [] OTHER -> IF i = 1 THEN s ELSE s + 1

RECURSIVE Written(_, _), Nesting(_, _), Flat(_)
\* A tree as the tokens an operator would write, with no bracket to spare.
Written(tree, need) ==
  LET part(i) == Written(tree.of[i], Needs(tree, i))
      listed == FoldLeft(LAMBDA text, i : text \o <<",">> \o part(i), part(1),
                         [i \in 1..(Len(tree.of) - 1) |-> i + 1])
      bare == CASE tree.of = <<>> -> <<tree.op>>
                [] tree.op \in Functions -> <<tree.op, "(">> \o listed \o <<")">>
                [] Len(tree.of) = 1 -> <<tree.op>> \o part(1)
                [] OTHER -> part(1) \o <<tree.op>> \o part(2)
  IN IF Strength(tree) < need THEN <<"(">> \o bare \o <<")">> ELSE bare
\* How deep that text nests: a bracket, a not, a minus and an argument are a
\* level each.
Nesting(tree, need) ==
  LET level == IF tree.op \in Functions \/ Len(tree.of) = 1 THEN 1 ELSE 0
      deepest == Max({0} \cup {level + Nesting(tree.of[i], Needs(tree, i)) : i \in DOMAIN tree.of})
  IN IF Strength(tree) < need THEN 1 + deepest ELSE deepest
\* The words of a tree from left to right.
Flat(tree) ==
  LET parts == [i \in DOMAIN tree.of |-> Flat(tree.of[i])]
  IN IF Len(tree.of) = 2 /\ tree.op \notin Functions
     THEN parts[1] \o <<tree.op>> \o parts[2]
     ELSE <<tree.op>> \o FlattenSeq(parts)
Words(text) == SelectSeq(text, LAMBDA token : token \notin {"(", ")", ","})

-----------------------------------------------------------------------------
\* A tree written out is parsed.
ParsesTree ==
  \E tree \in Trees : Asks("tree", tree) /\ answer' = ParseRule(Written(tree, 1))
\* Any text at all is parsed.
ParsesText ==
  \E text \in Texts : Asks("text", text) /\ answer' = ParseRule(text)
\* A tree is evaluated under every binding of its names.
Evaluates ==
  \E tree \in Trees :
    Asks("value", tree) /\ answer' = [b \in Bindings |-> Evaluate(tree, b)]
Next ==
  \/ Decides
  \/ question.kind = "none" /\ (ParsesTree \/ ParsesText \/ Evaluates)
Spec == Init /\ [][Next]_vars

-----------------------------------------------------------------------------
(* A rule means what its writer meant: written with Python's precedence and  *)
(* no spare bracket, it reads back as the very tree, unless it nests past    *)
(* the limit, when it is refused; and of any text that is accepted at all,   *)
(* no word is dropped or moved.  (rules.py: _Parser.)                        *)
ReadsBack ==
  /\ Of("tree") => IF Nesting(question.of, 1) > MaxNesting THEN ~answer.ok
                   ELSE answer.ok /\ answer.tree = question.of
  /\ Of("text") => (answer.ok => Flat(answer.tree) = Words(question.of))

(* A rule can guard itself: a condition that keeps a division by zero out of *)
(* the branch taken keeps it out of the cycle, whatever the readings, nan    *)
(* included; and the order its writer gave the arguments of min and max does *)
(* not change their value.  (rules.py: _Logical.evaluate, _Call.evaluate.)   *)
GuardsItself ==
  Of("value") =>
    LET tree == question.of
        zero == Tree("0", <<>>)
        inverse == Tree("/", <<Tree("1", <<>>), tree>>)
        byIf == Tree("if", <<Tree("==", <<tree, zero>>), zero, inverse>>)
        byAnd == Tree("and", <<Tree("!=", <<tree, zero>>), inverse>>)
        turned == Tree(tree.op, Reverse(tree.of))
        agree(v, w) == v.is = w.is /\ (v.is = "number" => Same(v, w))
    IN \A b \in Bindings :
         /\ IsError(Evaluate(byIf, b)) <=> IsError(answer[b])
         /\ IsError(Evaluate(byAnd, b)) <=> IsError(answer[b])
         /\ tree.op \in {"min", "max"} => agree(answer[b], Evaluate(turned, b))
=============================================================================
