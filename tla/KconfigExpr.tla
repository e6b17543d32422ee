---------------------------- MODULE KconfigExpr ----------------------------
(***************************************************************************)
(* What menu.c does with a dependency while it finalizes the menu, one call *)
(* of Expressions (expr.c) at a time: a behaviour takes a condition from    *)
(* its parsed form to the one that is evaluated from then on.               *)
(***************************************************************************)
EXTENDS Expressions

CONSTANTS
    Exprs,     \* the expressions considered, as they are parsed
    BaseDeps   \* the ones above them in the menu

(***************************************************************************)
(* menu_finalize: the dependencies of an entry, and those of one of its     *)
(* properties; then whether an entry that is in front of it becomes its     *)
(* parent.                                                                 *)
(***************************************************************************)
VARIABLES
    cond,     \* the condition as it was parsed
    above,    \* what its parent depends on, as it was parsed
    basedep,  \* the same, simplified
    dep,      \* the condition, simplified more and more
    stage

vars == <<cond, above, basedep, dep, stage>>

Init ==
    /\ cond \in Exprs /\ above \in BaseDeps
    /\ basedep = expr_eliminate_dups(expr_transform(rewrite_m(above)))
    /\ dep = cond /\ stage = "parsed"

Rewrite ==
    /\ stage = "parsed"
    /\ dep' = rewrite_m(dep) /\ stage' = "rewritten"
    /\ UNCHANGED <<cond, above, basedep>>

Transform ==
    /\ stage = "rewritten"
    /\ dep' = expr_transform(dep) /\ stage' = "transformed"
    /\ UNCHANGED <<cond, above, basedep>>

(* The condition of an entry that is not tristate needs one more step. *)
Propagate ==
    /\ stage = "transformed"
    /\ dep' = expr_eliminate_dups(expr_alloc_and(basedep, dep)) /\ stage' = "propagated"
    /\ UNCHANGED <<cond, above, basedep>>

TransBool ==
    /\ stage = "propagated"
    /\ dep' = expr_trans_bool(dep) /\ stage' = "boolean"
    /\ UNCHANGED <<cond, above, basedep>>

(* The automatic submenu: an entry right after one that depends on above. *)
CompareDeps ==
    /\ stage = "transformed" /\ above # NULL
    /\ dep' = expr_eliminate_dups(expr_transform(expr_trans_compare(expr_eliminate_dups(dep))))
    /\ basedep' = expr_eliminate_dups(expr_transform(expr_trans_compare(basedep)))
    /\ stage' = "compared"
    /\ UNCHANGED <<cond, above>>

EliminateCommon ==
    /\ stage = "compared"
    /\ LET both == expr_eliminate_eq(dep, basedep)
       IN  dep' = both[1] /\ basedep' = both[2]
    /\ stage' = "eliminated"
    /\ UNCHANGED <<cond, above>>

Next == Rewrite \/ Transform \/ Propagate \/ TransBool \/ CompareDeps \/ EliminateCommon
Spec == Init /\ [][Next]_vars

-----------------------------------------------------------------------------

(* What the symbols can be: m only for tristate ones, and only with modules. *)
Settings == {c \in [Symbols -> Tristates] : \A s \in Symbols :
                c[s] = mod => TypeOf(s) = "tristate" /\ c[Modules] = yes}

(* The condition as it is written in the Kconfig file, "m" with its meaning. *)
Meaning(curr) == EXPR_AND(Value(rewrite_m(cond), curr), Value(rewrite_m(above), curr))

(* expr.c 420-820: whatever is joined, turned around or left out, the        *)
(* condition has the value it was written with, for all settings.  Lines   *)
(* 392-418: expr_trans_bool may lower y to m, which is the same for the     *)
(* symbols that menu.c applies it to; it must never make a condition hold  *)
(* that did not, nor the other way round.                                  *)
SimplificationKeepsValue ==
    /\ stage \in {"rewritten", "transformed"} =>
          \A c \in Settings : Value(dep, c) = Value(rewrite_m(cond), c)
    /\ stage = "propagated" => \A c \in Settings : Value(dep, c) = Meaning(c)
    /\ stage = "boolean" => \A c \in Settings : (Value(dep, c) # no) = (Meaning(c) # no)

(* menu.c 459-461: an entry that is put below a symbol because of an absolute *)
(* dependency cannot be visible while the symbol is n.                     *)
DependsMeansNeeds ==
    stage \in {"propagated", "boolean"} => \A s \in Symbols :
        expr_depends_symbol(dep, s) =>
            /\ expr_contains_symbol(dep, s)
            /\ \A c \in Settings : Value(dep, c) # no => c[s] # no

(* menu.c 463-486: an entry that is put below another one since its           *)
(* dependencies are a superset cannot be visible while the other one is    *)
(* not.  Only without modules, as in Buildroot, whose Config.in declares   *)
(* none: !A is visible for A=m, but is compared as A=n.                    *)
SupersetMeansNeeds ==
    stage = "eliminated" /\ basedep = Sym("y") =>
        \A c \in Settings : c[Modules] = no /\ Value(rewrite_m(cond), c) # no =>
            Value(rewrite_m(above), c) # no

(* menu.c 415-487: the automatic submenus hide nothing: what is put below an  *)
(* entry cannot be visible while that entry is not.                        *)
SubmenuNeedsParent == DependsMeansNeeds /\ SupersetMeansNeeds

(* expr.c 1071-1100: an expression is printed with the parentheses it needs:  *)
(* who reads it by the grammar reads one with the same value.              *)
PrintedIsMeant ==
    LET read == ParseOr(expr_print(dep, "none"))
    IN  read[2] = <<>> /\ \A c \in Settings : Value(read[1], c) = Value(dep, c)
=============================================================================
