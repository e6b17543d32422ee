---------------------------- MODULE KconfigLoops ----------------------------
(***************************************************************************)
(* support/kconfig/symbol.c 1100-1344: sym_check_deps, the search for       *)
(* recursive dependencies that conf_parse makes for every symbol.  ck is    *)
(*   check, checked   the symbols with these flags,                         *)
(*   stack            dep_stack, the symbols on the way,                    *)
(*   loops            the loops that have been reported.                    *)
(* An operator returns the symbol that was met again, or "", and ck.        *)
(***************************************************************************)
EXTENDS KconfigSymbol

LOCAL INSTANCE SequencesExt

Unchecked == [check |-> {}, checked |-> {}, stack |-> <<>>, loops |-> <<>>]

dep_stack_insert(ck, s) == [ck EXCEPT !.stack = Append(@, s)]
dep_stack_remove(ck) == [ck EXCEPT !.stack = Front(@)]

(* The values of a choice stand for the choice. *)
sym_check_print_recursive(k, ck, last) ==
    LET value == sym_is_choice_value(k, last)
        stack == IF value THEN Append(ck.stack, last) ELSE ck.stack
        sym   == IF value THEN k.choice[last] ELSE last
        at    == {j \in DOMAIN stack : stack[j] = sym}
        top   == CHOOSE j \in at : \A i \in at : i <= j
    IN  IF at = {} THEN ck
        ELSE [ck EXCEPT !.loops = Append(@, SubSeq(stack, top, Len(stack)))]

(* What sym_check_sym_deps looks at, in its order. *)
Needs(k, s) ==
    LET Of(p) == IF p.type = "select" THEN <<>>
                 ELSE Operands(p.cond) \o (IF p.type = "default" /\ ~sym_is_choice(k, s)
                                           THEN Operands(p.expr) ELSE <<>>)
    IN  Operands(k.rev[s]) \o FlattenSeq([j \in DOMAIN k.props[s] |-> Of(k.props[s][j])])

Flag(ck, ss) == [ck EXCEPT !.check = @ \cup ss, !.checked = @ \cup ss]
Unflag(ck, ss) == [ck EXCEPT !.check = @ \ ss]

Unflagged(r, ss) == <<r[1], Unflag(r[2], ss)>>
Removed(r) == <<r[1], dep_stack_remove(r[2])>>

RECURSIVE sym_check_deps(_, _, _)

(* sym_check_expr_deps: up to the first one that is met again. *)
RECURSIVE CheckEach(_, _, _)
OrCheckEach(k, r, syms) == IF r[1] # "" THEN r ELSE CheckEach(k, r[2], syms)
CheckEach(k, ck, syms) ==
    IF syms = <<>> THEN <<"", ck>> ELSE OrCheckEach(k, sym_check_deps(k, ck, Head(syms)), Tail(syms))

sym_check_sym_deps(k, ck, s) == Removed(CheckEach(k, dep_stack_insert(ck, s), Needs(k, s)))

RECURSIVE CheckValues(_, _, _)
OrCheckValues(k, r, values) ==
    IF r[1] # "" \/ values = <<>> THEN r ELSE CheckValues(k, r[2], values)
CheckValues(k, ck, values) == OrCheckValues(k, sym_check_sym_deps(k, ck, Head(values)), Tail(values))

(* The choice alone, then its values; one of them met again is the choice.  *)
ForChoice(r, c, vs) ==
    <<IF r[1] \in vs THEN c ELSE r[1], dep_stack_remove(Unflag(r[2], vs))>>
sym_check_choice_deps(k, ck, c) ==
    LET vs == ToSet(k.values[c])
    IN  ForChoice(OrCheckValues(k,
            Unflagged(sym_check_sym_deps(k, Flag(dep_stack_insert(ck, c), vs \cup {c}), c), {c}),
            k.values[c]), c, vs)

(* Where a loop begins the symbol met again is forgotten, so that the other *)
(* symbols are looked at as well; conf_parse never sees an error.          *)
AtOrigin(r, s) == <<IF r[1] = s THEN "" ELSE r[1], r[2]>>

MutCheckDeps(k, ck, s) == \* the flag is not taken back
    IF s \notin SymbolsIn(k) THEN <<"", ck>>
    ELSE IF s \in ck.check THEN <<s, sym_check_print_recursive(k, ck, s)>>
    ELSE AtOrigin(sym_check_sym_deps(k, Flag(ck, {s}), s), s)

CheckSymbol(k, ck, s) ==
    IF sym_is_choice_value(k, s)
    THEN Removed(sym_check_deps(k, dep_stack_insert(ck, s), k.choice[s]))
    ELSE IF sym_is_choice(k, s) THEN sym_check_choice_deps(k, ck, s)
    ELSE Unflagged(sym_check_sym_deps(k, Flag(ck, {s}), s), {s})
sym_check_deps(k, ck, s) ==
    IF s \notin SymbolsIn(k) THEN <<"", ck>>
    ELSE IF s \in ck.check THEN <<s, sym_check_print_recursive(k, ck, s)>>
    ELSE IF s \in ck.checked THEN <<"", ck>>
    ELSE AtOrigin(CheckSymbol(k, ck, s), s)

(* conf_parse: the search, and the number of errors. *)
Counted(n, r) == <<n + (IF r[1] = "" THEN 0 ELSE 1), r[2]>>
Checked(k, order) ==
    FoldLeft(LAMBDA acc, s : Counted(acc[1], sym_check_deps(k, acc[2], s)), <<0, Unchecked>>, order)

-----------------------------------------------------------------------------
(***************************************************************************)
(* The reference: a choice and its values are one; the values may depend on *)
(* the choice, but not on each other.                                      *)
(***************************************************************************)
GroupOf(k, s) == IF k.choice[s] # "" THEN k.choice[s] ELSE s
Edges(k) ==
    {e \in SymbolsIn(k) \X SymbolsIn(k) :
        e[2] \in ToSet(Needs(k, e[1])) /\ ~(e[2] = k.choice[e[1]])}
Steps(k) == {<<GroupOf(k, e[1]), GroupOf(k, e[2])>> : e \in Edges(k)}

RECURSIVE Reach(_, _)
MoreThan(steps, from, more) == IF more = from THEN from ELSE Reach(steps, more)
Reach(steps, from) ==
    MoreThan(steps, from, from \cup {e[2] : e \in {d \in steps : d[1] \in from}})
Cyclic(k) == \E steps \in {Steps(k)} : \E e \in steps : e[1] \in Reach(steps, {e[2]})

(* A report is a way along the dependencies, and it is closed. *)
IsLoop(k, loop) ==
    \E group \in {[j \in DOMAIN loop |-> GroupOf(k, loop[j])]}, steps \in {Steps(k)} :
        /\ \A j \in 1..(Len(loop) - 1) : group[j] = group[j + 1] \/ <<group[j], group[j + 1]>> \in steps
        /\ \E j \in DOMAIN loop : <<group[j], group[1]>> \in steps
=============================================================================
