---------------------------- MODULE KconfigData ----------------------------
(***************************************************************************)
(* support/kconfig/confdata.c: from files to values and back.  Quoting and   *)
(* unquoting a string are inverses, which the model leaves out, as headings *)
(* and the comments of menus.                                              *)
(*                                                                         *)
(* Every operator takes and returns the memory st of KconfigSymbol; order   *)
(* is the order of the symbols in the hash table.                          *)
(***************************************************************************)
EXTENDS KconfigSymbol

LOCAL INSTANCE SequencesExt

-----------------------------------------------------------------------------
(***************************************************************************)
(* Reading.                                                                *)
(***************************************************************************)

(* conf_set_sym_val: the texts that symbol s takes from a file.             *)
Takes(s, text) ==
    CASE TypeOf(s) = "tristate" -> text \in {"y", "m", "n"}
      [] TypeOf(s) = "boolean"  -> text \in {"y", "n"}
      [] OTHER -> sym_string_valid(s, text)
Taken(s, text) == IF TypeOf(s) \in Logical THEN ConstValue[text] ELSE text

(* What the value of s, just read, does to its choice. *)
ChoiceState(k, st, s) ==
    LET c == k.choice[s]
        v == st.sym[s].def
        w == st.sym[c].def
        x == [st EXCEPT !.sym[c].def = EXPR_OR(w, v)]
    IN  CASE v = no  -> x
          [] v = mod -> IF w # yes THEN x ELSE [x EXCEPT !.warned = TRUE, !.sym[c].user = FALSE]
          [] v = yes -> [x EXCEPT !.warned = @ \/ w # no, !.sym[c].pick = s]

ReadLine(k, st, line) ==
    LET s == line.sym
        x == [st EXCEPT !.warned = @ \/ st.sym[s].user]
        y == IF line.text # Off THEN [x EXCEPT !.sym[s].def = Taken(s, line.text), !.sym[s].user = TRUE]
             ELSE IF TypeOf(s) \in Logical THEN [x EXCEPT !.sym[s].def = no, !.sym[s].user = TRUE]
             ELSE x
    IN  IF s \notin DOMAIN st.sym THEN [st EXCEPT !.changed = TRUE]
        ELSE IF line.text # Off /\ ~Takes(s, line.text) THEN [x EXCEPT !.warned = TRUE]
        ELSE IF sym_is_choice_value(k, s) THEN ChoiceState(k, y, s) ELSE y

(* Everything the user has set is forgotten first; choices count as known.  *)
Forgotten(k, st) ==
    [st EXCEPT !.warned = FALSE, !.spent = FALSE,
               !.sym = [s \in DOMAIN @ |-> [@[s] EXCEPT !.user = sym_is_choice(k, s), !.valid = FALSE,
                                                        !.def = NoValue(s), !.pick = ""]]]

(* conf_read_simple(name, S_DEF_USER), of a file that exists. *)
conf_read_simple(k, st, file) ==
    InOrder(LAMBDA x, line : ReadLine(k, x, line), Forgotten(k, st), file)

(* conf_read_simple(name, S_DEF_AUTO).  A symbol that the Kconfig files no  *)
(* longer have is a boolean, or has its value ignored if it is quoted.     *)
ReadAuto(k, st, file) ==
    LET Has(s) == \E j \in DOMAIN file : file[j].sym = s /\ Takes(s, file[j].text)
        Text(s) == LET js == {j \in DOMAIN file : file[j].sym = s} IN file[CHOOSE j \in js : TRUE].text
    IN  IF file = Missing THEN st
        ELSE [st EXCEPT !.sym = [s \in DOMAIN @ |->
                [@[s] EXCEPT !.valid = FALSE, !.auto = sym_is_choice(k, s) \/ Has(s),
                             !.adef = IF Has(s) THEN Taken(s, Text(s)) ELSE NoValue(s)]],
                        !.warned = FALSE]
Gone(st, file) ==
    IF file = Missing THEN {}
    ELSE {file[j].sym : j \in {i \in DOMAIN file :
             file[i].sym \notin DOMAIN st.sym /\ TypeOf(file[i].sym) # "string"}}

(* A symbol whose value is not the one that was read, or that would be      *)
(* written though none was read.                                           *)
Unsaved(k, st, s) ==
    LET me == st.sym[s]
    IN  ~sym_is_choice(k, s) /\ IF me.user /\ me.write THEN me.curr # me.def ELSE me.user \/ me.write

Looked(k, x, s, unsaved) == <<x, unsaved \/ Unsaved(k, x, s)>>

(* Values of symbols that cannot be seen, and values out of range, are      *)
(* dropped.  acc is the state, and whether anything is unsaved.            *)
IfInRange(r, s, unsaved) ==
    IF r[2] THEN <<r[1], unsaved>> ELSE <<[r[1] EXCEPT !.sym[s].valid = FALSE, !.sym[s].user = FALSE], TRUE>>
Settle(k, acc, s) ==
    LET st == acc[1]
        x  == IF st.sym[s].vis = no /\ ~acc[2] THEN [st EXCEPT !.sym[s].user = FALSE] ELSE st
    IN  IF ~st.sym[s].user \/ sym_is_choice_value(k, s) THEN acc
        ELSE IF TypeOf(s) \in Logical THEN <<x, acc[2]>>
        ELSE IfInRange(sym_string_within_range(k, x, s, x.sym[s].def), s, acc[2])

(* The second half of conf_read. *)
Noted(end) == [end[1] EXCEPT !.changed = @ \/ end[1].warned \/ end[2]]
Settled(k, st, order) ==
    Noted(InOrder(LAMBDA acc, s : Settle(k, acc, s),
                   InOrder(LAMBDA acc, s : Looked(k, sym_calc_value(k, acc[1], s), s, acc[2]),
                            <<st, FALSE>>, order),
                   order))

(* Reading .config, without a name, counts as a change if there is none.   *)
conf_read(k, st, file, named, order) ==
    IF file = Missing
    THEN <<FALSE, sym_calc_value(k, [st EXCEPT !.changed = ~named], Modules)>>
    ELSE <<TRUE, Settled(k, sym_calc_value(k,
                     conf_read_simple(k, [st EXCEPT !.changed = FALSE], file), Modules), order)>>

-----------------------------------------------------------------------------
(***************************************************************************)
(* Writing.                                                                *)
(***************************************************************************)
TextLine(st, s) ==
    Line(s, IF TypeOf(s) \in Logical /\ st.sym[s].curr = no THEN Off ELSE sym_get_string_value(st, s))

(* The lines after that of s, if it is written, and the memory x. *)
WithLine(x, s, lines) ==
    IF ~x.sym[s].write THEN <<x, lines>>
    ELSE <<[x EXCEPT !.sym[s].write = FALSE], Append(lines, TextLine(x, s))>>

(* The lines for an entry that is reached: acc is the state and the lines.  *)
Written(k, acc, i) ==
    LET s == k.node[i].sym
    IN  IF s = "" THEN <<menu_is_visible(k, acc[1], i)[2], acc[2]>>
        ELSE IF sym_is_choice(k, s) THEN acc
        ELSE WithLine(sym_calc_value(k, acc[1], s), s, acc[2])

(* The state without SYMBOL_WRITE, and the lines. *)
AllLines(k, st) ==
    With(InOrder(LAMBDA acc, i : Written(k, acc, i), <<st, <<>>>>, Tail(Preorder(k, 1))),
         LAMBDA acc : <<[acc[1] EXCEPT !.spent = TRUE], acc[2]>>)

MutConfWrite(k, st) == AllLines(k, st) \* whatever is cached

(* What conf_write writes to a file, and the state after it. *)
conf_write(k, st) == AllLines(k, IF st.changed THEN st ELSE sym_clear_all_valid(k, st))

(* The value that a choice has anyway: c is the state and the default of the *)
(* choice of s.  Choices have no names here, and are never written.        *)
Minimal(k, c, s) ==
    /\ k.choice[s] \notin k.optional /\ c[2] = s
    /\ TypeOf(s) = "boolean" /\ c[1].sym[s].curr = yes

MutIfNotMinimal(k, c, s, lines) == \* any value of a choice
    IF c[1].sym[s].curr = yes THEN <<c[1], lines>> ELSE <<c[1], Append(lines, TextLine(c[1], s))>>

IfNotMinimal(k, c, s, lines) ==
    IF Minimal(k, c, s) THEN <<c[1], lines>> ELSE <<c[1], Append(lines, TextLine(c[1], s))>>
IfNotDefault(k, d, s, lines) ==
    IF sym_get_string_value(d[1], s) = d[2] THEN <<d[1], lines>>
    ELSE IF sym_is_choice_value(k, s)
         THEN IfNotMinimal(k, sym_choice_default(k, d[1], k.choice[s]), s, lines)
    ELSE <<d[1], Append(lines, TextLine(d[1], s))>>
IfChangable(k, x, s, lines) ==
    LET y == [x EXCEPT !.sym[s].write = FALSE]
    IN  IF ~x.sym[s].write THEN <<x, lines>>
        ELSE IF ~sym_is_changable(y, s) THEN <<y, lines>>
        ELSE IfNotDefault(k, sym_get_string_default(k, y, s), s, lines)

DefconfigLine(k, acc, i) ==
    LET s == k.node[i].sym
    IN  IF s = "" THEN <<menu_is_visible(k, acc[1], i)[2], acc[2]>>
        ELSE IF sym_is_choice(k, s) THEN acc
        ELSE IfChangable(k, sym_calc_value(k, acc[1], s), s, acc[2])

conf_write_defconfig(k, st) ==
    InOrder(LAMBDA acc, i : DefconfigLine(k, acc, i), <<sym_clear_all_valid(k, st), <<>>>>,
             Tail(Preorder(k, 1)))

(* conf_write_autoconf: the lines, without the symbols that are n.          *)
AutoLine(k, x, s, lines) ==
    IF ~x.sym[s].write \/ sym_is_choice(k, s) \/ TextLine(x, s).text = Off THEN <<x, lines>>
    ELSE <<x, Append(lines, TextLine(x, s))>>
AutoLines(k, st, order) ==
    InOrder(LAMBDA acc, s : AutoLine(k, sym_calc_value(k, acc[1], s), s, acc[2]), <<st, <<>>>>, order)

MutTouched(k, st, s) == \* new values only
    ~sym_is_choice(k, s) /\ st.sym[s].write /\ ~st.sym[s].auto

(* conf_split_config: whether the stamp of s is touched.                   *)
Touched(k, st, s) ==
    LET me == st.sym[s]
    IN  ~sym_is_choice(k, s) /\
        IF ~me.write THEN me.auto
        ELSE IF me.auto THEN me.curr # me.adef
        ELSE TypeOf(s) \in Logical => me.curr # no

-----------------------------------------------------------------------------
(***************************************************************************)
(* conf_set_all_new_symbols: allnoconfig, allyesconfig and their relatives. *)
(* new[s] is the value of a symbol, pick[c] that of a choice.              *)
(***************************************************************************)
Modes == {"def_default", "def_yes", "def_mod", "def_no", "def_random"}

NewValue(k, s, mode, new) ==
    CASE mode = "def_yes" -> yes [] mode = "def_mod" -> mod
      [] mode = "def_no" -> IF s \in k.allno THEN yes ELSE no
      [] mode = "def_random" -> IF new[s] = mod /\ TypeOf(s) = "boolean" THEN no ELSE new[s]

randomize_choice_values(k, st, c, pick) ==
    [st EXCEPT !.sym = [s \in DOMAIN @ |->
        IF s = c THEN [@[s] EXCEPT !.pick = pick[c], !.user = TRUE, !.valid = FALSE]
        ELSE IF k.choice[s] = c
             THEN [@[s] EXCEPT !.def = IF s = pick[c] THEN yes ELSE no, !.user = TRUE, !.valid = FALSE]
        ELSE @[s]]]

IsNew(st, s) == ~st.sym[s].user /\ ~st.sym[s].valid /\ TypeOf(s) \in Logical

AllSet(k, st, mode, new) ==
    [st EXCEPT !.sym = [s \in DOMAIN @ |->
        IF mode = "def_default" \/ ~IsNew(st, s) THEN @[s]
        ELSE [@[s] EXCEPT !.def = NewValue(k, s, mode, new),
                          !.user = ~(sym_is_choice(k, s) /\ mode = "def_random")]]]

NeedSet(k, st) ==
    [st EXCEPT !.sym = [s \in DOMAIN @ |->
        IF sym_is_choice_value(k, s) \/ (sym_is_choice(k, s) /\ ~@[s].user)
        THEN [@[s] EXCEPT !.need = TRUE] ELSE @[s]]]

(* The state, and has_changed: it is what the last choice says. *)
SetChoice(k, z, c, mode, pick) ==
    IF mode # "def_random" THEN <<set_all_choice_values(k, z, c), TRUE>>
    ELSE IF z.sym[c].curr = yes THEN <<randomize_choice_values(k, z, c, pick), TRUE>> ELSE <<z, FALSE>>
NewChoice(k, acc, c, mode, pick) ==
    IF acc[1].sym[c].user \/ ~sym_is_choice(k, c) THEN acc
    ELSE SetChoice(k, sym_calc_value(k, acc[1], c), c, mode, pick)
conf_set_all_new_symbols(k, st, order, mode, new, pick) ==
    LET x == sym_clear_all_valid(k, AllSet(k, st, mode, new))
    IN  InOrder(LAMBDA acc, c : NewChoice(k, acc, c, mode, pick),
                 <<IF mode = "def_random" THEN x ELSE NeedSet(k, x), \E s \in DOMAIN st.sym : IsNew(st, s)>>,
                 order)
=============================================================================
