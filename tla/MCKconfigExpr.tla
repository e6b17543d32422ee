--------------------------- MODULE MCKconfigExpr ---------------------------
(***************************************************************************)
(* Instances of KconfigExpr for TLC: conditions with up to three operands   *)
(* over a boolean and a tristate symbol.                                   *)
(***************************************************************************)
EXTENDS KconfigExpr, TLC

MCSymType == "A" :> "boolean" @@ "T" :> "tristate" @@ "MODULES" :> "boolean"
MCNumber == "0" :> 0
MCRank == "m" :> 1 @@ "n" :> 2 @@ "y" :> 3

Atoms == {Sym(s) : s \in {"A", "T", "m", "y"}}
         \cup {Two(op, s, c) : op \in Equalities, s \in {"A", "T"}, c \in Consts}
         \cup {Two("<", "T", "y"), Two("=", "T", "A"), Two(">=", "A", "T")}
Literals == Atoms \cup {Not(e) : e \in Atoms}
Pairs == {Two(op, e, f) : op \in Junctions, e \in Literals, f \in Atoms}
Few == {Sym("A"), Sym("T"), Not(Sym("A")), Two("=", "T", "m"), Two("!=", "T", "n"), Two("!=", "T", "y")}
FewPairs == {Two(op, e, f) : op \in Junctions, e, f \in Few}

MCExprs == Literals \cup Pairs
           \cup {Not(e) : e \in FewPairs}
           \cup {Two(op, e, f) : op \in Junctions, e \in FewPairs, f \in Few}
MCBaseDeps == {NULL} \cup Few \cup {Two("or", Sym("A"), Sym("T")), Two("and", Sym("A"), Not(Sym("T"))),
               Two("=", "T", "n")}
=============================================================================
