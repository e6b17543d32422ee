---------------------------- MODULE Conditions ----------------------------
(***************************************************************************)
(* support/kconfig/expr.c: the operands of dependency expressions, what     *)
(* they are worth, and the rules that make one operand of two or turn one   *)
(* around.  Expressions applies them all over a tree.                      *)
(***************************************************************************)
EXTENDS Integers, KconfigTypes

CONSTANTS
    Number,    \* the texts that are numbers, with their values
    Rank       \* the order of strcmp on texts

no == 0
mod == 1
yes == 2
Tristates == {no, mod, yes}

Consts == {"y", "m", "n"}  \* symbol_yes, symbol_mod, symbol_no
ConstValue == [c \in Consts |-> CASE c = "n" -> no [] c = "m" -> mod [] c = "y" -> yes]

Equalities == {"=", "!="}
Comparisons == Equalities \cup {"<", "<=", ">", ">="}
Junctions == {"and", "or"}

NULL == [op |-> "null"]
Sym(s) == [op |-> "symbol", left |-> s]
Not(e) == [op |-> "not", left |-> e]
Two(op, e, f) == [op |-> op, left |-> e, right |-> f]

expr_alloc_and(e, f) == IF e = NULL THEN f ELSE IF f = NULL THEN e ELSE Two("and", e, f)
expr_alloc_or(e, f)  == IF e = NULL THEN f ELSE IF f = NULL THEN e ELSE Two("or", e, f)

(* The texts "y", "m" and "n" are no numbers, and differ for strcmp; no symbol *)
(* has these names, which sym_lookup keeps for the constants.              *)
ASSUME TextsAssumption ==
    /\ Consts \cap Symbols = {} /\ Consts \cap DOMAIN Number = {}
    /\ Consts \subseteq DOMAIN Rank
    /\ \A a \in DOMAIN Rank : Rank[a] \in Int /\ \A b \in DOMAIN Rank : Rank[a] = Rank[b] => a = b
    /\ \A a \in DOMAIN Number : Number[a] \in Int

-----------------------------------------------------------------------------
(***************************************************************************)
(* Values.  Two texts that are not both numbers are compared as strings:    *)
(* that is what happens to a boolean and a constant.                       *)
(***************************************************************************)
EXPR_AND(v, w) == IF v < w THEN v ELSE w
EXPR_OR(v, w)  == IF v > w THEN v ELSE w
EXPR_NOT(v)    == 2 - v

Compare(op, a, b) ==
    CASE op = "=" -> a = b [] op = "!=" -> a # b [] op = "<" -> a < b
      [] op = "<=" -> a <= b [] op = ">" -> a > b [] op = ">=" -> a >= b

TriText == [v \in Tristates |-> CASE v = no -> "n" [] v = mod -> "m" [] v = yes -> "y"]

(* When the symbols have the values curr: tristates, or the texts of the    *)
(* others.  What is not a symbol is a constant: it has its name for text.  *)
TriOf(s, curr) == IF s \in Consts THEN ConstValue[s]
                  ELSE IF TypeOf(s) \in Logical THEN curr[s] ELSE no
TextOf(s, curr) == IF s \notin Symbols THEN s
                   ELSE IF TypeOf(s) \in Logical THEN TriText[curr[s]] ELSE curr[s]

(* expr_parse_string: the texts that are numbers to s, with their values.   *)
Numerals(s) == IF TypeOf(s) \in Logical THEN ConstValue ELSE Number

(* What the symbols in DOMAIN text, with these texts, are compared by.      *)
Keys(text) ==
    IF /\ \E s \in DOMAIN text : TypeOf(s) # "string"
       /\ \A s \in DOMAIN text : text[s] \in DOMAIN Numerals(s)
    THEN [s \in DOMAIN text |-> Numerals(s)[text[s]]] ELSE [s \in DOMAIN text |-> Rank[text[s]]]
Ordered(op, key, s, t) == Compare(op, key[s], key[t])
Related(op, s, t, curr) == Ordered(op, Keys([u \in {s, t} |-> TextOf(u, curr)]), s, t)

(* The value of an operand that has none itself, and of one that may be       *)
(* negated.                                                                *)
AtomValue(e, curr) ==
    IF e.op = "symbol" THEN TriOf(e.left, curr)
    ELSE IF Related(e.op, e.left, e.right, curr) THEN yes ELSE no
LiteralValue(e, curr) == IF e.op = "not" THEN EXPR_NOT(AtomValue(e.left, curr)) ELSE AtomValue(e, curr)

-----------------------------------------------------------------------------
(***************************************************************************)
(* One step of a simplification.                                           *)
(***************************************************************************)
Neutral(op) == Sym(IF op = "and" THEN "y" ELSE "n")
Absorbing(op) == Sym(IF op = "and" THEN "n" ELSE "y")

(* expr_eliminate_yn of a tree whose operands are l and r by now. *)
Reduced(op, l, r) ==
    IF l = Absorbing(op) \/ r = Absorbing(op) THEN Absorbing(op)
    ELSE IF l = Neutral(op) THEN r
    ELSE IF r = Neutral(op) THEN l
    ELSE Two(op, l, r)

(* What two operands are about, if they are about one symbol. *)
About(e) == IF e.op = "not" THEN e.left.left ELSE e.left
Joinable(e, f) ==
    /\ \/ e.op \in Equalities \cup {"symbol"}
       \/ e.op = "not" /\ e.left.op \in Equalities \cup {"symbol"}
    /\ \/ f.op \in Equalities \cup {"symbol"}
       \/ f.op = "not" /\ f.left.op = "symbol"
    /\ About(e) = About(f) /\ TypeOf(About(e)) \in Logical

(* e and f are a op x and a op y, two of the three tristates; the third.    *)
Both(e, f, op) == e.op = op /\ f.op = op /\ {e.right, f.right} \subseteq Consts
Third(e, f) == CHOOSE c \in Consts : c \notin {e.right, f.right}
(* One of e and f is the symbol, the other one a op x. *)
SymbolAnd(e, f, op, x) ==
    \/ e.op = "symbol" /\ f.op = op /\ f.right = x
    \/ f.op = "symbol" /\ e.op = op /\ e.right = x
(* One of them is the symbol, the other one its negation. *)
Contrary(e, f) ==
    \/ e.op = "not" /\ e.left.op = "symbol" /\ f.op = "symbol"
    \/ f.op = "not" /\ f.left.op = "symbol" /\ e.op = "symbol"

(* The disjunction of two operands that are about symbol s as one, or NULL. *)
expr_join_or(e, f, s) ==
    CASE TypeOf(s) = "tristate" /\ Both(e, f, "=") -> Two("!=", s, Third(e, f))
      [] TypeOf(s) = "boolean" /\ Contrary(e, f)   -> Sym("y")
      [] OTHER -> NULL

MutJoinAnd(e, f, s) == \* the neighbouring case: a and a!=m
    IF SymbolAnd(e, f, "!=", "m") THEN Sym(s) ELSE NULL

(* The conjunction of two operands that are about symbol s as one, or NULL. *)
expr_join_and(e, f, s) ==
    LET eq == IF e.op = "=" THEN e ELSE f
        ne == IF e.op = "=" THEN f ELSE e
    IN  CASE SymbolAnd(e, f, "=", "y") \/ SymbolAnd(e, f, "!=", "m") -> Two("=", s, "y")
          [] SymbolAnd(e, f, "!=", "n") -> Sym(s)
          [] /\ TypeOf(s) = "tristate"
             /\ eq.op = "=" /\ ne.op = "!=" /\ {eq.right, ne.right} \subseteq Consts
             -> IF eq.right = ne.right THEN Sym("n") ELSE eq
          [] TypeOf(s) = "tristate" /\ Both(e, f, "!=") -> Two("=", s, Third(e, f))
          [] OTHER -> NULL

Opposite == [op \in Comparisons |->
    CASE op = "=" -> "!=" [] op = "!=" -> "=" [] op = "<=" -> ">" [] op = ">" -> "<="
      [] op = ">=" -> "<" [] op = "<" -> ">="]

(* A boolean compared with a constant is the symbol, its negation, or       *)
(* decided: it is never m.                                                 *)
BooleanTest(e) ==
    LET s == IF e.op = "=" THEN e.right
             ELSE CASE e.right = "n" -> "y" [] e.right = "y" -> "n" [] e.right = "m" -> "not m"
    IN  CASE s = "y" -> Sym(e.left) [] s = "n" -> Not(Sym(e.left))
          [] s = "m" -> Sym("n") [] s = "not m" -> Sym("y")
=============================================================================
