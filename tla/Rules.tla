------------------------------- MODULE Rules -------------------------------
(***************************************************************************)
(* The expression language of src/toinflux/rules.py: its recursive descent *)
(* over tokens and its evaluation, as operators.                           *)
(*                                                                         *)
(* A token is a string; its kind is the set it is in.  A tree is a record: *)
(* the token at its root and its operands, a minus with one operand being  *)
(* the unary one.  A position after the last token holds none.  A number   *)
(* is a fraction, so that arithmetic is exact; overflow to infinity is not *)
(* modelled, and a nan arrives as the value of a name.                     *)
(***************************************************************************)
EXTENDS Integers, Sequences, FiniteSets, SequencesExt

CONSTANTS
  Value,       \* the value of every literal
  Names,       \* the identifiers a control declared
  MaxNesting   \* how deep an expression may nest

ASSUME NestingIsBounded == MaxNesting \in Nat

Comparisons == {"<", "<=", ">", ">=", "==", "!="}
Keywords == {"and", "or", "not"}

\* How many arguments each function takes; Unbounded where there is no most.
Unbounded == 1000
FunctionArity ==
  [min |-> 2..Unbounded, max |-> 2..Unbounded, abs |-> {1}, clamp |-> {3}, if |-> {3}]
Functions == DOMAIN FunctionArity

-----------------------------------------------------------------------------
\* Parsing.  A result is the tree and the position after it, or Failed.

Failed == [ok |-> FALSE]
Parsed(tree, next) == [ok |-> TRUE, tree |-> tree, next |-> next]
Tree(op, of) == [op |-> op, of |-> of]

At(t, p, tokens) == p \in DOMAIN t /\ t[p] \in tokens

\* Each level of precedence consumes the one above it.
Tighter == [expression |-> "conjunction", conjunction |-> "negation",
            negation |-> "comparison", comparison |-> "sum", sum |-> "product",
            product |-> "unary", unary |-> "primary"]
Chained == [expression |-> {"or"}, conjunction |-> {"and"}, sum |-> {"+", "-"},
            product |-> {"*", "/"}]
Prefix == [negation |-> {"not"}, unary |-> {"-"}]

RECURSIVE Parse(_, _, _, _)

\* The plausible bug of a chain: it leans to the right.
ChainToTheRight(level, t, p, depth) ==
  LET left == Parse(Tighter[level], t, p, depth)
      right == Parse(level, t, left.next + 1, depth)
  IN IF ~left.ok \/ ~At(t, left.next, Chained[level]) THEN left
     ELSE IF right.ok THEN Parsed(Tree(t[left.next], <<left.tree, right.tree>>), right.next)
     ELSE Failed
\* A chain of operands of one level, which leans to the left.
Chain(level, t, p, depth) ==
  LET RECURSIVE More(_)
      More(left) ==
        IF ~left.ok \/ ~At(t, left.next, Chained[level]) THEN left
        ELSE LET right == Parse(Tighter[level], t, left.next + 1, depth)
             IN IF right.ok
                THEN More(Parsed(Tree(t[left.next], <<left.tree, right.tree>>), right.next))
                ELSE Failed
  IN More(Parse(Tighter[level], t, p, depth))

\* One comparison of two sums: a second one right after it is refused.
Comparison(t, p, depth) ==
  LET left == Parse("sum", t, p, depth)
  IN IF ~left.ok \/ ~At(t, left.next, Comparisons) THEN left
     ELSE LET right == Parse("sum", t, left.next + 1, depth)
          IN IF right.ok /\ ~At(t, right.next, Comparisons)
             THEN Parsed(Tree(t[left.next], <<left.tree, right.tree>>), right.next)
             ELSE Failed

\* A not or a minus before an operand of its own level: one level of nesting.
Prefixed(level, t, p, depth) ==
  LET operand == Parse(level, t, p + 1, depth + 1)
  IN IF depth + 1 > MaxNesting \/ ~operand.ok THEN Failed
     ELSE Parsed(Tree(t[p], <<operand.tree>>), operand.next)

\* A call whose name is at p: arguments between brackets, as many as the
\* function takes.
Call(t, p, depth) ==
  LET RECURSIVE More(_, _)
      More(got, q) ==
        IF ~At(t, q, {","}) THEN Parsed(got, q)
        ELSE LET next == Parse("expression", t, q + 1, depth)
             IN IF next.ok THEN More(Append(got, next.tree), next.next) ELSE Failed
      first == Parse("expression", t, p + 2, depth)
      arguments == CASE At(t, p + 2, {")"}) -> Parsed(<<>>, p + 2)
                     [] first.ok /\ ~At(t, p + 2, {")"}) -> More(<<first.tree>>, first.next)
                     [] OTHER -> Failed
  IN IF /\ t[p] \in Functions
        /\ arguments.ok
        /\ At(t, arguments.next, {")"})
        /\ Len(arguments.tree) \in FunctionArity[t[p]]
     THEN Parsed(Tree(t[p], arguments.tree), arguments.next + 1)
     ELSE Failed

\* A name or a call: a keyword is neither, and a name must be declared.
NameOrCall(t, p, depth) ==
  IF t[p] \in Keywords THEN Failed
  ELSE IF At(t, p + 1, {"("}) THEN Call(t, p, depth)
  ELSE IF t[p] \in Names THEN Parsed(Tree(t[p], <<>>), p + 1) ELSE Failed

\* A literal, an expression in brackets, a name or a call.
Primary(t, p, depth) ==
  LET inner == Parse("expression", t, p + 1, depth)
  IN CASE At(t, p, DOMAIN Value) -> Parsed(Tree(t[p], <<>>), p + 1)
       [] At(t, p, {"("}) ->
            IF inner.ok /\ At(t, inner.next, {")"}) THEN [inner EXCEPT !.next = @ + 1] ELSE Failed
       [] At(t, p, Names \cup Functions \cup Keywords) -> NameOrCall(t, p, depth)
       [] OTHER -> Failed

Parse(level, t, p, depth) ==
  CASE level = "expression" ->
         IF depth + 1 > MaxNesting THEN Failed ELSE Chain(level, t, p, depth + 1)
    [] level \in DOMAIN Chained \ {"expression"} -> Chain(level, t, p, depth)
    [] level = "comparison" -> Comparison(t, p, depth)
    [] level \in DOMAIN Prefix ->
         IF At(t, p, Prefix[level]) THEN Prefixed(level, t, p, depth)
         ELSE Parse(Tighter[level], t, p, depth)
    [] level = "primary" -> Primary(t, p, depth)

\* A whole rule, with nothing left over.  The outermost expression is not
\* nesting.
ParseRule(t) ==
  LET result == Parse("expression", t, 1, -1)
  IN IF result.ok /\ result.next = Len(t) + 1 THEN result ELSE Failed

-----------------------------------------------------------------------------
\* Evaluation.  A value is a number, nan, or the error that fails the cycle.

Fraction(p, q) == [is |-> "number", p |-> IF q < 0 THEN -p ELSE p, q |-> IF q < 0 THEN -q ELSE q]
Number(n) == Fraction(n, 1)
Nan == [is |-> "nan"]
Error == [is |-> "error"]
IsNan(v) == v.is = "nan"
IsError(v) == v.is = "error"
Truth(b) == Number(IF b THEN 1 ELSE 0)

Below(v, w) == v.p * w.q < w.p * v.q
Same(v, w) == v.p * w.q = w.p * v.q
\* Every comparison with a nan is false, but for the one that says not equal.
Compared(op, v, w) ==
  IF IsNan(v) \/ IsNan(w) THEN op = "!="
  ELSE CASE op = "<" -> Below(v, w)
         [] op = "<=" -> ~Below(w, v)
         [] op = ">" -> Below(w, v)
         [] op = ">=" -> ~Below(v, w)
         [] op = "==" -> Same(v, w)
         [] op = "!=" -> ~Same(v, w)
IsTrue(v) == IsNan(v) \/ v.p # 0

\* The first of the values no other is better than, as Python's min and max
\* choose it: a later one replaces it only where it compares better.
Best(op, values) ==
  FoldLeft(LAMBDA best, v : IF Compared(op, v, best) THEN v ELSE best,
           values[1], Tail(values))

Arithmetic(op, v, w) ==
  IF op = "/" /\ ~IsNan(w) /\ w.p = 0 THEN Error
  ELSE IF IsNan(v) \/ IsNan(w) THEN Nan
  ELSE CASE op = "+" -> Fraction(v.p * w.q + w.p * v.q, v.q * w.q)
         [] op = "-" -> Fraction(v.p * w.q - w.p * v.q, v.q * w.q)
         [] op = "*" -> Fraction(v.p * w.p, v.q * w.q)
         [] op = "/" -> Fraction(v.p * w.q, v.q * w.p)

Plain(op, values) ==
  CASE op = "min" -> Best("<", values)
    [] op = "max" -> Best(">", values)
    [] op = "abs" -> IF Compared("<", values[1], Number(0)) THEN Arithmetic("-", Number(0), values[1])
                     ELSE values[1]
    [] op = "clamp" -> IF Compared(">", values[2], values[3]) THEN Error
                       ELSE Best(">", <<values[2], Best("<", <<values[1], values[3]>>)>>)

\* A nan comes out of a function it went into.
Applied(op, values) ==
  IF \E i \in DOMAIN values : IsNan(values[i]) THEN Nan ELSE Plain(op, values)

RECURSIVE Evaluate(_, _)

\* The operands of a tree from the left, or the first error among them.
Operands(tree, bindings) ==
  FoldLeft(LAMBDA got, operand :
             IF IsError(got) THEN got
             ELSE LET v == Evaluate(operand, bindings)
                  IN IF IsError(v) THEN Error ELSE [got EXCEPT !.of = Append(@, v)],
           [is |-> "values", of |-> <<>>], tree.of)

Strict(tree, bindings) ==
  LET got == Operands(tree, bindings)
      v == got.of[1]
  IN IF IsError(got) THEN Error
     ELSE CASE tree.op \in Functions -> Applied(tree.op, got.of)
            [] tree.op = "not" -> Truth(~IsTrue(v))
            [] tree.op \in Comparisons -> Truth(Compared(tree.op, v, got.of[2]))
            [] OTHER -> IF Len(tree.of) = 1 THEN Arithmetic("-", Number(0), v)
                        ELSE Arithmetic(tree.op, v, got.of[2])

\* The plausible bug of a guard: everything is evaluated first.
Eager(tree, bindings) ==
  LET got == Operands(tree, bindings)
      v(i) == got.of[i]
  IN IF IsError(got) THEN Error
     ELSE CASE tree.op = "and" -> Truth(IsTrue(v(1)) /\ IsTrue(v(2)))
            [] tree.op = "or" -> Truth(IsTrue(v(1)) \/ IsTrue(v(2)))
            [] tree.op = "if" -> IF IsTrue(v(1)) THEN v(2) ELSE v(3)
\* and, or and if evaluate what can change their answer, and no more.
Lazy(tree, bindings) ==
  LET first == Evaluate(tree.of[1], bindings)
      second == Evaluate(tree.of[2], bindings)
      truth(v) == IF IsError(v) THEN Error ELSE Truth(IsTrue(v))
  IN IF IsError(first) THEN Error
     ELSE CASE tree.op = "and" -> IF IsTrue(first) THEN truth(second) ELSE Truth(FALSE)
            [] tree.op = "or" -> IF IsTrue(first) THEN Truth(TRUE) ELSE truth(second)
            [] tree.op = "if" -> IF IsTrue(first) THEN second ELSE Evaluate(tree.of[3], bindings)

\* The value of a tree; a name with no value fails the cycle.
Evaluate(tree, bindings) ==
  CASE tree.op \in DOMAIN Value -> Number(Value[tree.op])
    [] tree.op \in Names -> IF tree.op \in DOMAIN bindings THEN bindings[tree.op] ELSE Error
    [] tree.op \in {"and", "or", "if"} -> Lazy(tree, bindings)
    [] OTHER -> Strict(tree, bindings)
=============================================================================
