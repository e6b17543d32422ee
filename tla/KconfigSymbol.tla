--------------------------- MODULE KconfigSymbol ---------------------------
(***************************************************************************)
(* support/kconfig/symbol.c: the values of the symbols of a menu tree k.    *)
(* What the C code keeps in global variables and in struct symbol is the    *)
(* record st, which every function takes and returns:                      *)
(*   sym[s]    curr   the value (a tristate, or a text), chosen the value   *)
(*                    that a choice has in curr.val,                        *)
(*             vis, dir, rev, imp   visible and the tristates of dir_dep,   *)
(*                    rev_dep and implied,                                  *)
(*             valid, write, user, auto, need   the SYMBOL_ flags,          *)
(*             def, pick, adef      def[S_DEF_USER] with the val of a       *)
(*                    choice, and def[S_DEF_AUTO],                          *)
(*   shown[i]  visible.tri of the prompt of entry i,                       *)
(*   modules   modules_val,                                                *)
(*   changed   whether sym_change_count is not 0,                          *)
(*   warned    whether conf_warnings is not 0,                              *)
(*   spent     a history variable: whether conf_write has taken SYMBOL_WRITE  *)
(*             from all symbols since they were last made invalid.         *)
(* The order of conditions and the moments at which they are evaluated are  *)
(* the ones of the code: evaluating calculates symbols, which is a change.  *)
(* A step that needs the memory after an evaluation is an operator of its   *)
(* own, applied to the memory that the evaluation returns.                 *)
(***************************************************************************)
EXTENDS KconfigMenu

CONSTANTS
    IntText,   \* the decimal and the hexadecimal text of each number
    HexText

LOCAL INSTANCE SequencesExt

Unset == "(null)"   \* no text

(* Op(e), and a fold that goes through a sequence in its order.  The values *)
(* are those of Op(e) and FoldLeft; but TLC evaluates e before Op, and so   *)
(* the state after each element before that after the next.               *)
With(e, Op(_)) == CHOOSE y \in {Op(x) : x \in {e}} : TRUE
InOrder(Op(_, _), start, seq) ==
    With(start, LAMBDA begin : FoldLeft(LAMBDA x, a : With(x, LAMBDA now : Op(now, a)), begin, seq))

Empty(s) == IF TypeOf(s) \in Logical THEN no ELSE ""
NoValue(s) == IF TypeOf(s) \in Logical THEN no ELSE Unset

(* After conf_parse; the tristates of the C code are all no at first. *)
Fresh(k) ==
    [sym |-> [s \in SymbolsIn(k) |->
                 [curr |-> Empty(s), chosen |-> "", vis |-> no, dir |-> no, rev |-> no, imp |-> no,
                  valid |-> FALSE, write |-> FALSE, user |-> FALSE, auto |-> FALSE, need |-> FALSE,
                  def |-> NoValue(s), pick |-> "", adef |-> NoValue(s)]],
     shown |-> [i \in DOMAIN k.node |-> no],
     modules |-> no, changed |-> TRUE, warned |-> FALSE, spent |-> FALSE]

(* A symbol without an entry has no type, and is n. *)
Curr(st) == [s \in Symbols |-> IF s \in DOMAIN st.sym THEN st.sym[s].curr ELSE Empty(s)]

(* sym_get_type(s) is S_BOOLEAN *)
IsBoolean(k, st, s) ==
    \/ TypeOf(s) = "boolean"
    \/ /\ TypeOf(s) = "tristate"
       /\ \/ sym_is_choice_value(k, s) /\ st.sym[s].vis = yes
          \/ st.modules = no

(* The symbols of an expression, in the order expr_calc_value meets them.   *)
RECURSIVE Operands(_)
Operands(e) ==
    CASE e.op = "null" -> <<>>
      [] e.op = "symbol" -> <<e.left>>
      [] e.op = "not" -> Operands(e.left)
      [] e.op \in Junctions -> Operands(e.left) \o Operands(e.right)
      [] OTHER -> <<e.left, e.right>>

(* The state after evaluating an expression, and the value. *)
RECURSIVE expr_calc_value(_, _, _)
sym_calc_value(k, st, s) == expr_calc_value(k, st, Sym(s))[1]

(* The first of some properties of s with a condition that holds, and of a  *)
(* choice with a value that is visible: the state, and the property, with   *)
(* the value of its condition, in a sequence that may be empty.            *)
RECURSIVE FirstOf(_, _, _, _)
HeadOr(k, r, s, props) ==
    IF r[2] # no /\ (sym_is_choice(k, s) => r[1].sym[Head(props).expr.left].vis # no)
    THEN <<r[1], <<[Head(props) EXCEPT !.cond = r[2]]>>>> ELSE FirstOf(k, r[1], s, Tail(props))
FirstOf(k, st, s, props) ==
    IF props = <<>> THEN <<st, <<>>>>
    ELSE HeadOr(k, expr_calc_value(k, st, Head(props).cond), s, props)
PropsOfType(k, s, type) == SelectSeq(k.props[s], LAMBDA p : p.type = type)
sym_get_default_prop(k, st, s) == FirstOf(k, st, s, PropsOfType(k, s, "default"))
sym_get_range_prop(k, st, s) == FirstOf(k, st, s, PropsOfType(k, s, "range"))

-----------------------------------------------------------------------------
(***************************************************************************)
(* Visibility and the limits of a symbol.                                  *)
(***************************************************************************)
PromptShown(k, r, s, i) ==
    LET c == k.choice[s]
    IN  [r[1] EXCEPT !.shown[i] =
            IF c # "" /\ TypeOf(s) = "tristate" /\ r[2] = mod /\ r[1].sym[c].curr = yes THEN no
            ELSE r[2]]
Prompts(k, st, s) ==
    InOrder(LAMBDA x, i : PromptShown(k, expr_calc_value(k, x, PromptOf(k.node[i]).cond), s, i),
             st, k.prompts[s])

Visibility(k, st, s) ==
    LET tri == InOrder(LAMBDA v, i : EXPR_OR(v, st.shown[i]), no, k.prompts[s])
    IN  [st EXCEPT !.sym[s].vis =
            IF tri = mod /\ (TypeOf(s) # "tristate" \/ st.modules = no) THEN yes ELSE tri]

(* dir_dep, rev_dep and implied: without an expression only dir_dep is yes.  *)
Limits(k, s) ==
    <<[name |-> "dir", expr |-> k.dir[s]], [name |-> "rev", expr |-> k.rev[s]],
      [name |-> "imp", expr |-> k.imp[s]]>>
Limit(k, r, s, name) ==
    [r[1] EXCEPT !.sym[s] = [@ EXCEPT ![name] = IF r[2] = mod /\ IsBoolean(k, r[1], s) THEN yes ELSE r[2]]]
LimitBy(k, st, s, l) ==
    Limit(k, IF \/ l.name # "dir" /\ l.expr = NULL
                \/ l.name = "imp" /\ st.sym[s].dir = no
             THEN <<st, no>> ELSE expr_calc_value(k, st, l.expr), s, l.name)
Limited(k, st, s) ==
    IF sym_is_choice_value(k, s) THEN st
    ELSE InOrder(LAMBDA x, l : LimitBy(k, x, s, l), st, Limits(k, s))

sym_calc_visibility(k, st, s) == Limited(k, Visibility(k, Prompts(k, st, s), s), s)

-----------------------------------------------------------------------------
(***************************************************************************)
(* Choices.                                                                *)
(***************************************************************************)
FirstVisible(st, vs) == SelectSeq(vs, LAMBDA v : st.sym[v].vis # no)

(* The state, and the default of choice c ("" if no value is visible).     *)
DefaultOrFirst(k, d, c) ==
    LET seen == FirstVisible(d[1], k.values[c])
    IN  <<d[1], IF d[2] # <<>> THEN d[2][1].expr.left ELSE IF seen = <<>> THEN "" ELSE Head(seen)>>
sym_choice_default(k, st, c) == DefaultOrFirst(k, sym_get_default_prop(k, st, c), c)

(* The choice is new as long as one of its visible values is. *)
NewWithItsValues(k, st, c) ==
    [st EXCEPT !.sym[c].user = @ /\ \A v \in ToSet(FirstVisible(st, k.values[c])) : st.sym[v].user]

(* d is the state with the default. *)
Chosen(c, d) ==
    IF d[2] = "" THEN [d[1] EXCEPT !.sym[c].chosen = "", !.sym[c].curr = no]
    ELSE [d[1] EXCEPT !.sym[c].chosen = d[2]]

MutChoose(k, st, c) == \* the user's choice, visible or not
    IF st.sym[c].pick # "" THEN [st EXCEPT !.sym[c].chosen = st.sym[c].pick]
    ELSE Chosen(c, sym_choice_default(k, st, c))

(* The user's choice counts while it is visible. *)
Choose(k, st, c) ==
    LET pick == st.sym[c].pick
    IN  IF pick # "" /\ st.sym[pick].vis # no THEN [st EXCEPT !.sym[c].chosen = pick]
        ELSE Chosen(c, sym_choice_default(k, st, c))

sym_calc_choice(k, st, c) ==
    Choose(k, NewWithItsValues(k,
        InOrder(LAMBDA x, v : sym_calc_visibility(k, x, v), st, k.values[c]), c), c)

(* confdata.c: the values without one become n, and the choice is not new.  *)
set_all_choice_values(k, st, c) ==
    [st EXCEPT !.sym = [s \in DOMAIN @ |->
        IF s = c THEN [@[s] EXCEPT !.user = TRUE, !.valid = FALSE, !.need = FALSE]
        ELSE IF k.choice[s] = c /\ ~@[s].user THEN [@[s] EXCEPT !.def = no]
        ELSE @[s]]]

-----------------------------------------------------------------------------
(***************************************************************************)
(* Values.                                                                 *)
(***************************************************************************)
MutSelected(k, r, s) == \* what was asked for
    [r[1] EXCEPT !.sym[s].curr = IF r[2] = mod /\ IsBoolean(k, r[1], s) THEN yes ELSE r[2]]

(* r is the state, and what is asked for: what is selected is at least that. *)
Selected(k, r, s) ==
    LET v == EXPR_OR(r[2], r[1].sym[s].rev)
    IN  [r[1] EXCEPT !.sym[s].curr =
            IF v = mod /\ (IsBoolean(k, r[1], s) \/ r[1].sym[s].imp = yes) THEN yes ELSE v]

(* d is the state with a default, if there is one: the state after          *)
(* evaluating it, and its value.                                           *)
AndTri(r, tri) == <<r[1], EXPR_AND(r[2], tri)>>
DefaultValue(k, d) ==
    IF d[2] = <<>> THEN <<d[1], no>> ELSE AndTri(expr_calc_value(k, d[1], d[2][1].expr), d[2][1].cond)

OrImplied(r, s) ==
    LET imp == r[1].sym[s].imp
    IN  <<[r[1] EXCEPT !.sym[s].write = @ \/ r[2] # no \/ imp # no], EXPR_OR(r[2], imp)>>

AskedFor(k, st, s) ==
    LET me == st.sym[s]
        x  == [st EXCEPT !.sym[s].write = @ \/ me.rev # no]
    IN  IF me.vis # no /\ me.user THEN <<st, EXPR_AND(me.def, me.vis)>>
        ELSE IF sym_is_choice(k, s) THEN <<x, no>>
        ELSE OrImplied(DefaultValue(k, sym_get_default_prop(k, x, s)), s)

TristateValue(k, st, s) ==
    LET c == k.choice[s]
    IN  IF c # "" /\ st.sym[s].vis = yes
        THEN [st EXCEPT !.sym[s].curr = IF st.sym[c].chosen = s THEN yes ELSE no]
        ELSE Selected(k, AskedFor(k, st, s), s)

SetTo(st, s, t) == [st EXCEPT !.sym[s].curr = TextOf(t, Curr(st))]
DefaultText(k, d, s) ==
    LET t == d[2][1].expr.left
    IN  IF d[2] = <<>> THEN d[1]
        ELSE SetTo(sym_calc_value(k, [d[1] EXCEPT !.sym[s].write = TRUE], t), s, t)
TextValue(k, st, s) ==
    IF st.sym[s].vis # no /\ st.sym[s].user THEN [st EXCEPT !.sym[s].curr = st.sym[s].def]
    ELSE DefaultText(k, sym_get_default_prop(k, st, s), s)

(* strtoll: what is no number is 0. *)
Strtoll(text) == IF text \in DOMAIN Number THEN Number[text] ELSE 0
sym_get_range_val(st, s) == Strtoll(TextOf(s, Curr(st)))

MutClamped(k, r, s) == r[1] \* a default is taken as it is

NumberIs(st, s, n) == [st EXCEPT !.sym[s].curr = IF TypeOf(s) = "int" THEN IntText[n] ELSE HexText[n]]
AtMost(st, s, max) == IF Strtoll(st.sym[s].curr) > max THEN NumberIs(st, s, max) ELSE st
ToMax(st, s, hi) == AtMost(st, s, sym_get_range_val(st, hi))
AtLeast(k, st, s, min, hi) ==
    IF Strtoll(st.sym[s].curr) < min THEN NumberIs(st, s, min) ELSE ToMax(sym_calc_value(k, st, hi), s, hi)
FromMin(k, st, s, lo, hi) == AtLeast(k, st, s, sym_get_range_val(st, lo), hi)
Clamped(k, r, s) ==
    LET bounds == r[2][1].expr
    IN  IF r[2] = <<>> THEN r[1]
        ELSE FromMin(k, sym_calc_value(k, r[1], bounds[1]), s, bounds[1], bounds[2])
sym_validate_range(k, st, s) ==
    IF TypeOf(s) \notin {"int", "hex"} THEN st ELSE Clamped(k, sym_get_range_prop(k, st, s), s)

(* The end of sym_calc_value for a choice: its visible values are written,  *)
(* the choice itself is not.                                               *)
ChoiceDone(k, st, c) ==
    IF ~sym_is_choice(k, c) THEN st
    ELSE [st EXCEPT !.sym = [s \in DOMAIN @ |->
             IF k.choice[s] = c /\ @[c].write /\ @[s].vis # no THEN [@[s] EXCEPT !.write = TRUE]
             ELSE IF s = c THEN [@[s] EXCEPT !.write = FALSE] ELSE @[s]]]

(* A value may have to wait until its choice is calculated. *)
ItsChoice(k, st, s) ==
    IF k.choice[s] # "" /\ st.sym[s].need
    THEN sym_calc_value(k, [st EXCEPT !.sym[s].need = FALSE], k.choice[s]) ELSE st
Begun(k, st, s) == sym_calc_visibility(k, [st EXCEPT !.sym[s].valid = TRUE, !.sym[s].write = FALSE], s)
NoValueYet(st, s) ==
    [st EXCEPT !.sym[s].write = st.sym[s].vis # no, !.sym[s].curr = Empty(s), !.sym[s].chosen = ""]
TypedValue(k, st, s) == IF TypeOf(s) \in Logical THEN TristateValue(k, st, s) ELSE TextValue(k, st, s)
ItsValue(k, st, s) ==
    IF sym_is_choice(k, s) /\ st.sym[s].curr = yes THEN sym_calc_choice(k, st, s) ELSE st
IfModules(st, s) == IF s = Modules THEN [st EXCEPT !.modules = st.sym[s].curr] ELSE st
IfNeedSet(k, st, s) == IF st.sym[s].need THEN set_all_choice_values(k, st, s) ELSE st

WithValue(k, st, s) ==
    With(Begun(k, ItsChoice(k, st, s), s), LAMBDA x : ItsValue(k, TypedValue(k, NoValueYet(x, s), s), s))
Concluded(k, st, s) == IfNeedSet(k, ChoiceDone(k, IfModules(sym_validate_range(k, st, s), s), s), s)
CalcSymbol(k, st, s) == \* sym_calc_value
    IF s \notin DOMAIN st.sym \/ st.sym[s].valid THEN st ELSE With(WithValue(k, st, s), LAMBDA x : Concluded(k, x, s))

Valued(st, e) == <<st, Value(e, Curr(st))>>
expr_calc_value(k, st, e) ==
    Valued(InOrder(LAMBDA x, s : CalcSymbol(k, x, s), st, Operands(e)), e)

MutClearAllValid(k, st) == \* nobody notes the change
    sym_calc_value(k, [st EXCEPT !.sym = [s \in DOMAIN @ |-> [@[s] EXCEPT !.valid = FALSE]],
                                 !.spent = FALSE], Modules)

sym_clear_all_valid(k, st) ==
    sym_calc_value(k, [st EXCEPT !.sym = [s \in DOMAIN @ |-> [@[s] EXCEPT !.valid = FALSE]],
                                 !.changed = TRUE, !.spent = FALSE], Modules)

(* Every symbol, in the order of the hash table. *)
CalcAll(k, st, order) == InOrder(LAMBDA x, s : sym_calc_value(k, x, s), st, order)

-----------------------------------------------------------------------------
(***************************************************************************)
(* What the user may do.  A setter returns whether it accepts the value,    *)
(* and the state.                                                          *)
(***************************************************************************)
sym_is_changable(st, s) == st.sym[s].vis > st.sym[s].rev

MutWithinRange(k, st, s, v) == \* whatever is selected
    LET me == st.sym[s]
    IN  /\ me.vis # no /\ TypeOf(s) \in Logical
        /\ ~(IsBoolean(k, st, s) /\ v = mod)
        /\ IF sym_is_choice_value(k, s) /\ me.vis = yes THEN v = yes ELSE v <= me.vis

sym_tristate_within_range(k, st, s, v) ==
    LET me == st.sym[s]
    IN  /\ me.vis # no /\ TypeOf(s) \in Logical
        /\ ~(IsBoolean(k, st, s) /\ v = mod)
        /\ me.vis > me.rev
        /\ ~(me.imp = yes /\ v = mod)
        /\ IF sym_is_choice_value(k, s) /\ me.vis = yes THEN v = yes
           ELSE me.rev <= v /\ v <= me.vis

(* Picking a value of a choice makes all its visible values known. *)
Picked(k, st, s) ==
    LET c == k.choice[s]
    IN  [st EXCEPT !.sym = [t \in DOMAIN @ |->
            IF t = c THEN [@[t] EXCEPT !.pick = s, !.user = TRUE]
            ELSE IF k.choice[t] = c /\ @[t].vis # no THEN [@[t] EXCEPT !.user = TRUE]
            ELSE @[t]]]

MutSetTristate(k, st, s, v) == \* values stay cached
    IF st.sym[s].curr # v /\ ~sym_tristate_within_range(k, st, s, v) THEN <<FALSE, st>>
    ELSE LET x == [st EXCEPT !.sym[s].user = TRUE, !.sym[s].def = v]
             y == IF sym_is_choice_value(k, s) /\ v = yes THEN Picked(k, x, s) ELSE x
         IN  <<TRUE, [y EXCEPT !.sym[s].valid = FALSE, !.changed = TRUE]>>

SetTristate(k, st, s, v) ==
    IF sym_is_choice_value(k, s) /\ v = yes
    THEN [Picked(k, [st EXCEPT !.sym[s].user = TRUE], s) EXCEPT !.sym[s].def = v]
    ELSE [st EXCEPT !.sym[s].user = TRUE, !.sym[s].def = v]
sym_set_tristate_value(k, st, s, v) ==
    IF st.sym[s].curr # v
    THEN IF sym_tristate_within_range(k, st, s, v)
         THEN <<TRUE, sym_clear_all_valid(k, SetTristate(k, st, s, v))>> ELSE <<FALSE, st>>
    ELSE <<TRUE, SetTristate(k, st, s, v)>>

Toggled(v) == CASE v = no -> mod [] v = mod -> yes [] v = yes -> no
RECURSIVE ToggleFrom(_, _, _, _)
SetOr(k, set, s, v) ==
    IF set[1] \/ v = set[2].sym[s].curr THEN set[2] ELSE ToggleFrom(k, set[2], s, v)
ToggleFrom(k, st, s, v) ==
    SetOr(k, sym_set_tristate_value(k, st, s, Toggled(v)), s, Toggled(v))
sym_toggle_tristate_value(k, st, s) == ToggleFrom(k, st, s, st.sym[s].curr)

(* The valid texts among those of the model are the numbers. *)
sym_string_valid(s, text) == TypeOf(s) \in {"int", "hex"} => text \in DOMAIN Number

(* The state, and whether text is within the range of s, which r gives. *)
WithinMax(st, hi, n) == <<st, n <= sym_get_range_val(st, hi)>>
WithinMin(k, st, lo, hi, n) ==
    IF n < sym_get_range_val(st, lo) THEN <<st, FALSE>> ELSE WithinMax(sym_calc_value(k, st, hi), hi, n)
WithinBounds(k, r, text) ==
    LET bounds == r[2][1].expr
    IN  IF r[2] = <<>> THEN <<r[1], TRUE>>
        ELSE WithinMin(k, sym_calc_value(k, r[1], bounds[1]), bounds[1], bounds[2], Number[text])
sym_string_within_range(k, st, s, text) ==
    IF ~sym_string_valid(s, text) THEN <<st, FALSE>>
    ELSE IF TypeOf(s) = "string" THEN <<st, TRUE>>
    ELSE WithinBounds(k, sym_get_range_prop(k, st, s), text)

(* A hexadecimal number gets its 0x. *)
Prefixed(s, text) == IF TypeOf(s) = "hex" THEN HexText[Number[text]] ELSE text

(* r is the state, and whether the text is within range. *)
StringSet(k, r, s, text) ==
    LET new == Prefixed(s, text)
        x   == [r[1] EXCEPT !.sym[s].user = TRUE, !.sym[s].def = new]
    IN  IF ~r[2] THEN <<FALSE, r[1]>>
        ELSE <<TRUE, IF r[1].sym[s].def # text \/ new # text THEN sym_clear_all_valid(k, x) ELSE x>>
sym_set_string_value(k, st, s, text) == StringSet(k, sym_string_within_range(k, st, s, text), s, text)

(* The state, and the value s would have if the user had not set it: v is   *)
(* the state with the value of its default d.                              *)
TristateDefault(k, v, s) ==
    LET v1 == EXPR_OR(v[2], v[1].sym[s].rev)
        v2 == IF v1 = mod /\ ~sym_is_choice_value(k, s) /\ Curr(v[1])[Modules] = no THEN yes ELSE v1
        v3 == IF TypeOf(s) = "boolean" /\ v2 = mod THEN yes ELSE v2
    IN  TriText[EXPR_OR(v3, v[1].sym[s].imp)]
StringDefault(k, d, v, s) ==
    <<v[1], IF TypeOf(s) \in Logical THEN TristateDefault(k, v, s)
            ELSE IF d[2] = <<>> THEN "" ELSE TextOf(d[2][1].expr.left, Curr(v[1]))>>
OfDefault(k, d, s) == StringDefault(k, d, DefaultValue(k, d), s)
sym_get_string_default(k, st, s) ==
    OfDefault(k, sym_get_default_prop(k, sym_calc_value(k, sym_calc_visibility(k, st, s), Modules), s), s)

sym_get_string_value(st, s) == TextOf(s, Curr(st))

-----------------------------------------------------------------------------
(* menu.c: whether entry i is visible; asking marks symbols that are not,   *)
(* but that are set and have something visible below, as known.  Returns    *)
(* the answer and the state.                                               *)
RECURSIVE menu_is_visible(_, _, _)
RECURSIVE VisibleBelow(_, _, _)
ThisOr(k, v, others) == IF v[1] THEN v ELSE VisibleBelow(k, v[2], others)
VisibleBelow(k, st, children) ==
    IF children = <<>> THEN <<FALSE, st>>
    ELSE ThisOr(k, menu_is_visible(k, st, Head(children)), Tail(children))

(* The prompt of an entry is known: that of a symbol with the symbol, and    *)
(* otherwise r has the value of its condition.                             *)
EntryShown(k, r, i) == IF k.node[i].sym # "" THEN r[1] ELSE [r[1] EXCEPT !.shown[i] = r[2]]
Known(v, s) == IF v[1] THEN <<TRUE, [v[2] EXCEPT !.sym[s].user = TRUE]>> ELSE v
ByPrompt(k, st, i) ==
    LET s == k.node[i].sym
    IN  IF st.shown[i] # no THEN <<TRUE, st>>
        ELSE IF s = "" \/ TypeOf(s) \notin Logical THEN <<FALSE, st>>
        ELSE IF st.sym[s].curr = no THEN <<FALSE, st>>
        ELSE Known(VisibleBelow(k, st, k.list[i]), s)
(* r has the value of its "visible if". *)
ByVisibleIf(k, r, i) ==
    LET s == k.node[i].sym
        e == IF s # "" THEN Sym(s) ELSE PromptOf(k.node[i]).cond
    IN  IF r[2] = no THEN <<FALSE, r[1]>>
        ELSE ByPrompt(k, EntryShown(k, expr_calc_value(k, r[1], e), i), i)
menu_is_visible(k, st, i) ==
    IF k.node[i].prompt = 0 THEN <<FALSE, st>>
    ELSE ByVisibleIf(k, expr_calc_value(k, st, k.node[i].vis), i)

(* Those of some entries that are visible, and the state after looking.     *)
IfSeen(v, seen, i) == <<v[2], IF v[1] THEN Append(seen, i) ELSE seen>>
SeenOf(k, st, entries) ==
    InOrder(LAMBDA acc, i : IfSeen(menu_is_visible(k, acc[1], i), acc[2], i), <<st, <<>>>>, entries)
VisibleChildren(k, st, i) == SeenOf(k, st, k.list[i])
=============================================================================
