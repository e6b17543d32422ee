---------------------------- MODULE Expressions ----------------------------
(***************************************************************************)
(* support/kconfig/expr.c: dependency expressions of kconfig.  While the    *)
(* Kconfig files are read, menu_finalize simplifies every expression and    *)
(* compares expressions with each other; afterwards they are only evaluated *)
(* and printed.                                                            *)
(*                                                                         *)
(* A tree is a record; a leaf of && or || is an operand of another type.    *)
(* The functions of expr.c that walk over two trees, or over one with two   *)
(* pointers, and change both in place are folds over pairs of leaves.       *)
(***************************************************************************)
EXTENDS Conditions, Sequences

CONSTANT
    Modules    \* the symbol with "option modules", or "n"

-----------------------------------------------------------------------------
RECURSIVE Value(_, _)
Value(e, curr) == \* expr_calc_value
    CASE e.op = "null"   -> yes
      [] e.op = "not"    -> EXPR_NOT(Value(e.left, curr))
      [] e.op = "and"    -> EXPR_AND(Value(e.left, curr), Value(e.right, curr))
      [] e.op = "or"     -> EXPR_OR(Value(e.left, curr), Value(e.right, curr))
      [] OTHER           -> AtomValue(e, curr)

-----------------------------------------------------------------------------
(***************************************************************************)
(* Simplification.                                                         *)
(***************************************************************************)

(* The operands of the nested && (or ||) at the top of e, and e with other  *)
(* operands.                                                               *)
RECURSIVE Leaves(_, _)
Leaves(op, e) == IF e.op = op THEN Leaves(op, e.left) \o Leaves(op, e.right) ELSE <<e>>

RECURSIVE WithLeaves(_, _, _)
WithLeaves(op, e, new) ==
    IF e.op # op THEN Head(new)
    ELSE LET n == Len(Leaves(op, e.left))
         IN  Two(op, WithLeaves(op, e.left, SubSeq(new, 1, n)),
                     WithLeaves(op, e.right, SubSeq(new, n + 1, Len(new))))

RECURSIVE expr_eliminate_yn(_)
expr_eliminate_yn(e) ==
    IF e.op \notin Junctions THEN e
    ELSE Reduced(e.op, expr_eliminate_yn(e.left), expr_eliminate_yn(e.right))

MutExprEq(e, f) == \* whatever it is compared with
    IF e.op \in Comparisons THEN f.op = e.op /\ f.left = e.left ELSE e = f

RECURSIVE expr_eliminate_eq(_, _)
RECURSIVE expr_eq(_, _)
SameSymbol(both) == both[1].op = "symbol" /\ both[1] = both[2]
expr_eq(e, f) ==
    /\ e.op = f.op
    /\ IF e.op \in Junctions THEN SameSymbol(expr_eliminate_eq(e, f))
       ELSE IF e.op = "not" THEN expr_eq(e.left, f.left)
       ELSE e = f

(* __expr_eliminate_eq: every leaf of one is compared with every one of the *)
(* other, from pair <<i, j>> on.                                           *)
RECURSIVE EliminateEqual(_, _, _, _, _)
EliminatePair(op, ls, ms, i, j, hit) ==
    EliminateEqual(op, IF hit THEN [ls EXCEPT ![i] = Neutral(op)] ELSE ls,
                       IF hit THEN [ms EXCEPT ![j] = Neutral(op)] ELSE ms, i, j + 1)
EliminateEqual(op, ls, ms, i, j) ==
    IF i > Len(ls) THEN <<ls, ms>>
    ELSE IF j > Len(ms) THEN EliminateEqual(op, ls, ms, i + 1, 1)
    ELSE EliminatePair(op, ls, ms, i, j,
             ~(ls[i] = ms[j] /\ ls[i] \in {Sym("y"), Sym("n")}) /\ expr_eq(ls[i], ms[j]))

BothWith(op, e, f, both) == <<WithLeaves(op, e, both[1]), WithLeaves(op, f, both[2])>>
EliminateAt(op, both) ==
    IF op \in Junctions
    THEN BothWith(op, both[1], both[2], EliminateEqual(op, Leaves(op, both[1]), Leaves(op, both[2]), 1, 1))
    ELSE both
AtOther(both) == IF both[1].op = both[2].op THEN both ELSE EliminateAt(both[2].op, both)
BothReduced(both) == [j \in {1, 2} |-> expr_eliminate_yn(both[j])]
expr_eliminate_eq(e, f) ==
    IF NULL \in {e, f} THEN <<e, f>> ELSE BothReduced(AtOther(EliminateAt(e.op, <<e, f>>)))

(* For the conditions of symbols that cannot be m. *)
RECURSIVE expr_trans_bool(_)
expr_trans_bool(e) ==
    CASE e.op \in Junctions -> Two(e.op, expr_trans_bool(e.left), expr_trans_bool(e.right))
      [] e.op = "not" -> Not(expr_trans_bool(e.left))
      [] e.op = "!=" -> IF TypeOf(e.left) = "tristate" /\ e.right = "n" THEN Sym(e.left) ELSE e
      [] OTHER -> e

Join(op, e, f) ==
    IF expr_eq(e, f) THEN e
    ELSE IF ~Joinable(e, f) THEN NULL
    ELSE IF op = "or" THEN expr_join_or(e, f, About(e)) ELSE expr_join_and(e, f, About(e))

(* expr_eliminate_dups1 of a tree with itself: pairs of its leaves are      *)
(* joined, the first one of a pair goes and the second one stays.  Returns  *)
(* the leaves and whether there was such a pair (trans_count).             *)
RECURSIVE JoinLeaves(_, _, _, _, _)
JoinPair(op, ls, i, j, any, join) ==
    JoinLeaves(op, IF join = NULL THEN ls ELSE [ls EXCEPT ![i] = Neutral(op), ![j] = join],
               i, j + 1, any \/ join # NULL)
JoinLeaf(op, ls, i, j, any, leaf) == \* with leaf i after the same was done inside it
    JoinPair(op, [ls EXCEPT ![i] = leaf[1]], i, j, any \/ leaf[2], Join(op, leaf[1], ls[j]))
Rejoined(e, joined) == <<WithLeaves(e.op, e, joined[1]), joined[2]>>
Joined(e) == IF e.op \in Junctions THEN Rejoined(e, JoinLeaves(e.op, Leaves(e.op, e), 1, 1, FALSE))
             ELSE <<e, FALSE>>
JoinLeaves(op, ls, i, j, any) ==
    IF i > Len(ls) THEN <<ls, any>>
    ELSE IF j > Len(ls) THEN JoinLeaves(op, ls, i + 1, 1, any)
    ELSE IF i = j THEN JoinLeaves(op, ls, i, j + 1, any)
    ELSE JoinLeaf(op, ls, i, j, any, Joined(ls[i]))

(* Until nothing can be joined. *)
RECURSIVE expr_eliminate_dups(_)
AgainIf(joined) ==
    IF joined[2] THEN expr_eliminate_dups(expr_eliminate_yn(joined[1])) ELSE joined[1]
expr_eliminate_dups(e) == AgainIf(Joined(e))

RECURSIVE expr_transform(_)
Negated(a) == \* what is negated has been transformed
    CASE a.op = "not" -> expr_transform(a.left)
      [] a.op \in Comparisons -> [a EXCEPT !.op = Opposite[a.op]]
      [] a.op \in Junctions ->
            expr_transform(Two(IF a.op = "or" THEN "and" ELSE "or", Not(a.left), Not(a.right)))
      [] a = Sym("y") -> Sym("n")
      [] a = Sym("n") -> Sym("y")
      [] a = Sym("m") -> Sym("m")
      [] OTHER -> Not(a)
expr_transform(e) ==
    IF e.op \in Junctions THEN Two(e.op, expr_transform(e.left), expr_transform(e.right))
    ELSE IF e.op = "not" THEN Negated(expr_transform(e.left))
    ELSE IF e.op \in Equalities /\ TypeOf(e.left) = "boolean" /\ e.right \in Consts THEN BooleanTest(e)
    ELSE e

RECURSIVE expr_contains_symbol(_, _)
expr_contains_symbol(e, s) ==
    CASE e.op = "null" -> FALSE
      [] e.op \in Junctions -> expr_contains_symbol(e.left, s) \/ expr_contains_symbol(e.right, s)
      [] e.op = "not" -> expr_contains_symbol(e.left, s)
      [] e.op = "symbol" -> e.left = s
      [] OTHER -> s \in {e.left, e.right}

RECURSIVE expr_depends_symbol(_, _)
expr_depends_symbol(e, s) ==
    CASE e.op = "and" -> expr_depends_symbol(e.left, s) \/ expr_depends_symbol(e.right, s)
      [] e.op = "symbol" -> e.left = s
      [] e.op = "=" -> e.left = s /\ e.right \in {"y", "m"}
      [] e.op = "!=" -> e.left = s /\ e.right = "n"
      [] OTHER -> FALSE

(* expr_trans_compare with n, for E_EQUAL and for E_UNEQUAL. *)
RECURSIVE EqualNo(_)
RECURSIVE expr_trans_compare(_)
EqualNo(e) ==
    CASE e.op = "null"   -> Sym("n")
      [] e.op = "and"    -> Two("or", EqualNo(e.left), EqualNo(e.right))
      [] e.op = "or"     -> Two("and", EqualNo(e.left), EqualNo(e.right))
      [] e.op = "not"    -> expr_trans_compare(e.left)
      [] e.op = "symbol" -> Two("=", e.left, "n")
      [] OTHER -> Not(e)
expr_trans_compare(e) ==
    CASE e.op \in Junctions \cup {"null"} -> Not(EqualNo(e))
      [] e.op = "not"    -> EqualNo(e.left)
      [] e.op = "symbol" -> Two("!=", e.left, "n")
      [] OTHER -> e

(* menu.c: without modules "m" is n. *)
RECURSIVE rewrite_m(_)
rewrite_m(e) ==
    CASE e.op \in Junctions -> Two(e.op, rewrite_m(e.left), rewrite_m(e.right))
      [] e.op = "not" -> Not(rewrite_m(e.left))
      [] e = Sym("m") -> Two("and", e, Sym(Modules))
      [] OTHER -> e

-----------------------------------------------------------------------------
(***************************************************************************)
(* Printing, as sequences of tokens.                                       *)
(***************************************************************************)
MutStrength == [op \in Comparisons \cup Junctions \cup {"none", "not", "symbol"} |->
    CASE op = "none" -> 0 [] op \in Junctions -> 1 [] op = "not" -> 3 [] OTHER -> 4]

Strength == [op \in Comparisons \cup Junctions \cup {"none", "not", "symbol"} |->
    CASE op = "none" -> 0 [] op = "or" -> 1 [] op = "and" -> 2 [] op = "not" -> 3
      [] OTHER -> 4]

expr_compare_type(t1, t2) == Strength[t1] > Strength[t2]

RECURSIVE expr_print(_, _)
expr_print(e, prevtoken) ==
    LET text == CASE e.op = "null"   -> <<"y">>
                  [] e.op = "symbol" -> <<e.left>>
                  [] e.op = "not"    -> <<"not">> \o expr_print(e.left, "not")
                  [] e.op \in Junctions ->
                        expr_print(e.left, e.op) \o <<e.op>> \o expr_print(e.right, e.op)
                  [] OTHER -> <<e.left, e.op, e.right>>
    IN  IF e # NULL /\ expr_compare_type(prevtoken, e.op) THEN <<"(">> \o text \o <<")">> ELSE text

-----------------------------------------------------------------------------
(***************************************************************************)
(* The grammar of zconf.y, read from the tokens on: what expr_print has     *)
(* printed.  A parser returns an expression and the tokens that are left.  *)
(***************************************************************************)
RECURSIVE ParseOr(_)
RECURSIVE ParseAnd(_)
RECURSIVE ParsePrimary(_)
ParsePrimary(t) ==
    CASE t[1] = "not" -> LET p == ParsePrimary(Tail(t)) IN <<Not(p[1]), p[2]>>
      [] t[1] = "("   -> LET p == ParseOr(Tail(t)) IN <<p[1], Tail(p[2])>>
      [] OTHER -> IF Len(t) > 2 /\ t[2] \in Comparisons
                  THEN <<Two(t[2], t[1], t[3]), SubSeq(t, 4, Len(t))>>
                  ELSE <<Sym(t[1]), Tail(t)>>
ParseAnd(t) ==
    LET p == ParsePrimary(t)
    IN  IF p[2] # <<>> /\ Head(p[2]) = "and"
        THEN LET q == ParseAnd(Tail(p[2])) IN <<Two("and", p[1], q[1]), q[2]>>
        ELSE p
ParseOr(t) ==
    LET p == ParseAnd(t)
    IN  IF p[2] # <<>> /\ Head(p[2]) = "or"
        THEN LET q == ParseOr(Tail(p[2])) IN <<Two("or", p[1], q[1]), q[2]>>
        ELSE p

=============================================================================
