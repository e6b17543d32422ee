---------------------------- MODULE KconfigMenu ----------------------------
(***************************************************************************)
(* support/kconfig/menu.c: from the entries of the Kconfig files, in the    *)
(* order they are read, to the menu tree with its dependencies.             *)
(*                                                                         *)
(* A menu tree k is a record of                                             *)
(*   node[i]   the entries: their symbol ("" for menus, comments and ifs),  *)
(*             properties, which of these is the prompt (0 for none),       *)
(*             dependencies and "visible if" condition,                     *)
(*   parent[i], list[i]   the parent and the children of entry i,           *)
(*   rev, imp, dir        of each symbol: rev_dep, implied and dir_dep,     *)
(*   values, choice       of each choice its values, of each value its      *)
(*             choice ("" when it is none),                                 *)
(*   optional, allno      the optional choices, the allnoconfig_y symbols,  *)
(*   props, prompts       of each symbol: its properties, and the entries   *)
(*             that are its prompts.                                       *)
(***************************************************************************)
EXTENDS Expressions

LOCAL INSTANCE SequencesExt

Prop(type, expr, cond) == [type |-> type, expr |-> expr, cond |-> cond]

PromptOf(node) == node.props[node.prompt]

-----------------------------------------------------------------------------
(***************************************************************************)
(* Reading: menu_add_entry, menu_add_dep, menu_add_prop.                    *)
(***************************************************************************)

(* "visible if" of all menus above is added to the prompts below.           *)
RECURSIVE AboveVisible(_, _, _)
AboveVisible(nodes, i, e) ==
    IF i = 0 THEN e ELSE AboveVisible(nodes, nodes[i].parent, expr_alloc_and(e, nodes[i].vis))

menu_add_prop(nodes, node) ==
    [j \in DOMAIN node.props |->
        IF node.props[j].type = "prompt"
        THEN [node.props[j] EXCEPT !.cond = AboveVisible(nodes, node.parent, @)]
        ELSE node.props[j]]

SymbolsIn(k) == {k.node[i].sym : i \in DOMAIN k.node} \ {""}

menu_add_entry(nodes, optional, allno) ==
    LET syms == {nodes[i].sym : i \in DOMAIN nodes} \ {""}
        Below(i) == SelectSeq([j \in DOMAIN nodes |-> j], LAMBDA j : nodes[j].parent = i)
        Add(entries, node) == Append(entries, [node EXCEPT !.props = menu_add_prop(nodes, node)])
    IN  [node     |-> FoldLeft(Add, <<>>, nodes),
         parent   |-> [i \in DOMAIN nodes |-> nodes[i].parent],
         list     |-> [i \in DOMAIN nodes |-> Below(i)],
         rev      |-> [s \in syms |-> NULL],
         imp      |-> [s \in syms |-> NULL],
         dir      |-> [s \in syms |-> NULL],
         values   |-> [s \in syms |-> <<>>],
         choice   |-> [s \in syms |-> ""],
         choices  |-> {nodes[i].sym : i \in {j \in DOMAIN nodes : nodes[j].kind = "choice"}},
         props    |-> <<>>,
         prompts  |-> <<>>,
         optional |-> optional,
         allno    |-> allno]

sym_is_choice(k, s) == s \in k.choices
sym_is_choice_value(k, s) == k.choice[s] # ""

-----------------------------------------------------------------------------
(***************************************************************************)
(* Propagating dependencies, from a parent to its child i and from there to *)
(* the properties and to what they select.                                 *)
(***************************************************************************)
ParentDep(k, i) ==
    LET node == k.node[i]
    IN  IF sym_is_choice(k, node.sym) THEN Sym(node.sym)
        ELSE IF node.prompt # 0 THEN PromptOf(node).cond ELSE node.dep

MutPropagated(e, s, basedep) == \* the condition of the property alone
    expr_eliminate_dups(expr_transform(rewrite_m(e)))

Propagated(e, s, basedep) ==
    LET d == expr_eliminate_dups(expr_alloc_and(basedep, expr_transform(rewrite_m(e))))
    IN  IF s # "" /\ TypeOf(s) # "tristate" THEN expr_trans_bool(d) ELSE d

(* e with what the properties of s of one type add to it for target. *)
AlsoBy(e, s, props, type, target) ==
    LET Add(f, p) == IF p.type = type /\ p.expr = target
                     THEN expr_alloc_or(f, expr_alloc_and(Sym(s), p.cond)) ELSE f
    IN  FoldLeft(Add, e, props)

WithProps(k, i, basedep, props) ==
    LET s == k.node[i].sym
        node == [k.node[i] EXCEPT !.dep = basedep, !.props = props]
    IN  [k EXCEPT !.node = [@ EXCEPT ![i] = node],
                  !.rev = [t \in DOMAIN @ |-> AlsoBy(@[t], s, props, "select", t)],
                  !.imp = [t \in DOMAIN @ |-> AlsoBy(@[t], s, props, "imply", t)]]
WithDep(k, i, basedep) ==
    WithProps(k, i, basedep, [j \in DOMAIN k.node[i].props |->
        [k.node[i].props[j] EXCEPT !.cond = Propagated(@, k.node[i].sym, basedep)]])
Propagate(k, parentdep, i) ==
    WithDep(k, i, expr_eliminate_dups(expr_alloc_and(parentdep, expr_transform(rewrite_m(k.node[i].dep)))))

-----------------------------------------------------------------------------
(***************************************************************************)
(* Automatic submenus: entries that follow a symbol and depend on it.       *)
(***************************************************************************)
DependencyOf(k, i) ==
    IF k.node[i].prompt # 0 THEN PromptOf(k.node[i]).cond ELSE k.node[i].dep

Compared(e) == expr_eliminate_dups(expr_transform(expr_trans_compare(e)))
expr_is_yes(e) == e \in {NULL, Sym("y")}

(* Whether entry j goes below entry i. *)
BelongsBelow(k, i, j) ==
    LET s    == k.node[i].sym
        dep  == DependencyOf(k, j)
        base == IF k.node[i].prompt # 0 THEN PromptOf(k.node[i]).cond ELSE NULL
    IN  /\ expr_contains_symbol(dep, s)
        /\ \/ expr_depends_symbol(dep, s)
           \/ expr_is_yes(expr_eliminate_eq(Compared(dep), Compared(base))[2])

(* A symbol among the values of a choice; of a tristate choice one that is   *)
(* not tristate needs yes.                                                 *)
Needing(node, isyes) ==
    [node EXCEPT !.dep = expr_alloc_and(isyes, node.dep),
                 !.props = [j \in DOMAIN node.props |->
                     [node.props[j] EXCEPT !.cond = expr_alloc_and(isyes, @)]]]
AddValue(k, c, i) ==
    LET s == k.node[i].sym
    IN  [k EXCEPT !.choice[s] = c, !.values[c] = Append(@, s),
                  !.node = IF TypeOf(c) = "tristate" /\ TypeOf(s) # "tristate"
                           THEN [@ EXCEPT ![i] = Needing(@, Two("=", c, "y"))] ELSE @]

(* An "if", or a symbol without a prompt, hands its children to its parent. *)
Flatten(k, i, p) ==
    LET m == k.list[i][p]
    IN  IF k.list[m] = <<>> \/ k.node[m].prompt # 0 THEN k
        ELSE [k EXCEPT !.list[i] = SubSeq(@, 1, p) \o k.list[m] \o SubSeq(@, p + 1, Len(@)),
                       !.list[m] = <<>>,
                       !.parent = [j \in DOMAIN @ |-> IF @[j] = m THEN i ELSE @[j]]]

RECURSIVE ChildrenDone(_, _, _)
ChildrenDone(k, i, p) ==
    IF p > Len(k.list[i]) THEN k
    ELSE LET c  == k.node[i].sym
             s  == k.node[k.list[i][p]].sym
             k1 == IF sym_is_choice(k, c) /\ s # "" /\ ~sym_is_choice_value(k, s)
                   THEN AddValue(k, c, k.list[i][p]) ELSE k
         IN  ChildrenDone(Flatten(k1, i, p), i, p + 1)

RECURSIVE menu_finalize(_, _)
RECURSIVE FinalizeFrom(_, _, _)
RECURSIVE Gather(_, _, _)

(* The children of i from the p-th one on; some of them become the children *)
(* of others meanwhile.                                                    *)
FinalizeFrom(k, i, p) ==
    IF p > Len(k.list[i]) THEN k ELSE FinalizeFrom(menu_finalize(k, k.list[i][p]), i, p + 1)

(* Entry i takes the entries after it that belong below it; q is the place  *)
(* of the next one in the list of its parent.                              *)
Gather(k, i, q) ==
    LET up   == k.parent[i]
        L    == k.list[up]
        p    == CHOOSE x \in DOMAIN L : L[x] = i
    IN  IF q <= Len(L) /\ BelongsBelow(k, i, L[q]) THEN Gather(menu_finalize(k, L[q]), i, q + 1)
        ELSE IF q = p + 1 THEN k
        ELSE [k EXCEPT !.list[i] = SubSeq(L, p + 1, q - 1),
                       !.list[up] = SubSeq(L, 1, p) \o SubSeq(L, q, Len(L)),
                       !.parent = [j \in DOMAIN @ |->
                           IF \E x \in (p + 1)..(q - 1) : L[x] = j THEN i ELSE @[j]]]

(* A symbol has the dependencies of all its entries. *)
WithDirDep(k, i, s) == [k EXCEPT !.dir[s] = expr_alloc_or(@, k.node[i].dep)]

(* A choice that is not optional is at least m when it is visible. *)
Required(k, i, s) ==
    [k EXCEPT !.rev[s] = expr_alloc_or(@, expr_alloc_and(PromptOf(k.node[i]).cond, Sym("m")))]

WithChildren(k, i) ==
    LET s   == k.node[i].sym
        dep == ParentDep(k, i)
        up  == k.list[k.parent[i]]
        p   == CHOOSE x \in DOMAIN up : up[x] = i
    IN  IF k.list[i] # <<>>
        THEN FinalizeFrom(FoldLeft(LAMBDA x, j : Propagate(x, dep, j), k, k.list[i]), i, 1)
        ELSE IF s = "" THEN k ELSE WithDirDep(Gather(k, i, p + 1), i, s)
Finished(k, i, s) ==
    IF sym_is_choice(k, s) /\ s \notin k.optional /\ k.node[i].prompt # 0 THEN Required(k, i, s) ELSE k
menu_finalize(k, i) == Finished(ChildrenDone(WithChildren(k, i), i, 1), i, k.node[i].sym)

(* A symbol may have several entries; its properties are in their order.    *)
PropsOf(nodes, s) ==
    FlattenSeq([i \in DOMAIN nodes |-> IF nodes[i].sym = s THEN nodes[i].props ELSE <<>>])
PromptsOf(nodes, s) ==
    SelectSeq([i \in DOMAIN nodes |-> i], LAMBDA i : nodes[i].sym = s /\ nodes[i].prompt # 0)

WithSymbols(k) ==
    [k EXCEPT !.props = [s \in SymbolsIn(k) |-> PropsOf(k.node, s)],
              !.prompts = [s \in SymbolsIn(k) |-> PromptsOf(k.node, s)]]
Finalized(nodes, optional, allno) ==
    WithSymbols(menu_finalize(menu_add_entry(nodes, optional, allno), 1))

(* The entries of the tree, parents before their children. *)
RECURSIVE Preorder(_, _)
Preorder(k, i) == <<i>> \o FlattenSeq([p \in DOMAIN k.list[i] |-> Preorder(k, k.list[i][p])])
=============================================================================
