--------------------------- MODULE KconfigSession ---------------------------
(***************************************************************************)
(* The life of a configuration: conf, mconf, nconf and gconf are run, one   *)
(* after the other, on the same files; they are killed; the Kconfig files   *)
(* change; the build uses what syncconfig has written.                     *)
(***************************************************************************)
EXTENDS Conf, Nconf, Gconf, KconfigLoops, FiniteSets

LOCAL INSTANCE SequencesExt

Next == ConfNext \/ MconfNext \/ NconfNext \/ GconfNext \/ Saving \/ Kill \/ Upgrade \/ Build

(* Who is asked goes on to answer, and the program goes on to write: weak    *)
(* fairness of ConfStep \/ Saving, where Going tells when it is enabled, as  *)
(* TLC would take for ever to find that out.  That it is, the invariant     *)
(* AlwaysAnAnswer says.                                                    *)
Going == program = "conf" \/ saving.step \in {"backup", "replace"}
Spec == Init /\ [][Next]_vars /\ ([]<>~Going \/ []<><<ConfStep \/ Saving>>_vars)

-----------------------------------------------------------------------------
Running == program # "none"

(* Every symbol is calculated anew, in the order of some hash table.        *)
Recalculated(x, o) == Curr(CalcAll(k, sym_clear_all_valid(k, x), o))
Values(x) == Curr(CalcAll(k, x, order))

(* A tristate choice that is set to y while its values are new: calculating  *)
(* it makes it new again (symbol.c 304), so the next time it is m.          *)
Wavering == \E c \in k.choices : TypeOf(c) = "tristate" /\ st.sym[c].curr = yes /\ ~st.sym[c].user
Steady == program \in {"mconf", "nconf", "gconf"} /\ saving.step = "none" /\ ~Wavering

(* symbol.c 500-509: values are kept until sym_clear_all_valid.  While mconf  *)
(* waits for a key, no value is older than what it was calculated from, and  *)
(* no order of the hash table would give another one.                      *)
ValuesAreCurrent ==
    Steady => \A o \in {order, Reverse(order)} : Recalculated(st, o) = Values(st)

(* symbol.c 376-498, 304-334: a boolean is never m, a number is one, and a    *)
(* choice that is y has exactly one value, whatever was selected or picked. *)
LegalValue(s, v) ==
    CASE TypeOf(s) = "boolean"  -> v \in {no, yes}
      [] TypeOf(s) = "tristate" -> v \in Tristates
      [] TypeOf(s) = "string"   -> TRUE
      [] OTHER                  -> v = "" \/ v \in DOMAIN Number
LegalIn(x) ==
    /\ \A s \in DOMAIN x.sym : LegalValue(s, x.sym[s].curr)
    /\ \A c \in k.choices : x.sym[c].curr = yes =>
          Cardinality({s \in ToSet(k.values[c]) : x.sym[s].vis # no /\ x.sym[s].curr = yes}) = 1
LegalValues == Running /\ saving.step = "none" => LegalIn(CalcAll(k, st, order))

(* What a configuration file says of the symbols. *)
Given(file) == [s \in Symbols |->
    LET js == {j \in DOMAIN file : file[j].sym = s /\ file[j].text # Off}
        text == file[CHOOSE j \in js : TRUE].text
    IN  IF js = {} THEN Empty(s) ELSE Taken(s, text)]

(* symbol.c 357-498, confdata.c 740-837: in a configuration that is written  *)
(* a symbol is at least what selects it; it is more than its dependencies  *)
(* allow only if it is selected; and it is not more than its prompt allows *)
(* without a default, a selection or an implication.  Values of choices    *)
(* are not selected.                                                       *)
WrittenIsConsistent ==
    saving.step = "replace" /\ saving.file # "defconfig" =>
        LET c == Given(saving.lines)
            Of(s, e) == LET v == Value(e, c) IN IF v = mod /\ TypeOf(s) = "boolean" THEN yes ELSE v
        IN  \A s \in SymbolsIn(k) :
                TypeOf(s) \in Logical /\ ~sym_is_choice(k, s) /\ ~sym_is_choice_value(k, s) =>
                    LET rev == IF k.rev[s] = NULL THEN no ELSE Of(s, k.rev[s])
                    IN  c[s] >= rev /\ (c[s] > Of(s, k.dir[s]) => c[s] = rev)

(* mconf.c 118: "The <Save> button will let you save the current             *)
(* configuration to a file of your choosing."  What goes to the temporary   *)
(* file is what the values in memory are.  The code keeps to that with one   *)
(* exception: conf_write takes SYMBOL_WRITE from what it writes (confdata.c *)
(* 807), and clears the values only when nothing counts as changed (789).  *)
(* So when it is called again, with the count of changes still set and no  *)
(* change after the last time, it writes an empty file: after its last     *)
(* rename has failed (832), be it tried again at once (mconf.c 931-945), at  *)
(* a later <Save> or on leaving, and when SIGINT comes while the message    *)
(* of <Save> is shown (mconf.c 1002).                                      *)
WriteBegins == saving'.step = "backup" /\ saving.step # "backup"
SavesTheConfiguration ==
    [][WriteBegins /\ ~Wavering' =>
          saving'.lines = IF NothingToWrite THEN <<>>
                          ELSE conf_write(k, sym_clear_all_valid(k, st'))[2]]_vars

(* confdata.c 1078, mconf.c 962-970: mconf does not ask when nothing has     *)
(* changed since the configuration was read or saved: then its file has    *)
(* all values that are in memory.  That fails where the count is lost: a     *)
(* name at <Load> that does not exist sets it to 0 (confdata.c 413) before *)
(* the file is missed (286), so what was changed goes without a question;   *)
(* and after an empty file was written, see above.                         *)
ReadAgain(file) == conf_read(k, Parsed, file, TRUE, order)[2]
AsInMemory(x) == ~x.changed /\ Values(x) = Values(st)
UnchangedMeansSaved ==
    Steady /\ ~st.changed /\ ~own.lost =>
        disk[own.filename] # Missing /\ AsInMemory(ReadAgain(disk[own.filename]))

(* symbol.c 511-566, 634-720: an answer that is accepted is the value of the  *)
(* symbol, if it is visible at all: a text is also accepted for an entry   *)
(* that <Z> shows, and waits until it is.                                  *)
AcceptedIsKept ==
    asked # Nothing /\ st.sym[asked.sym].vis # no => Values(st)[asked.sym] = asked.value

(* confdata.c 663-738: the minimal configuration of savedefconfig gives all  *)
(* values again.                                                           *)
MinimalIsEnough ==
    Steady => \A lines \in {conf_write_defconfig(k, st)[2]} : \A x \in {ReadAgain(lines)} :
        Recalculated(AllNew("def_default", x), order) = Values(st)

(* confdata.c 740-1060: whatever the programs have in memory and whoever       *)
(* answers what, the files change as ConfigFiles says: a symbol is touched *)
(* exactly when auto.conf is going to say something else of it, and what   *)
(* is written to it is what .config has.                                   *)
ImplementsFiles == FilesSpec

(* conf.c 87-355: no question is asked that has no answer conf takes; it asks *)
(* until there is one.                                                     *)
AlwaysAnAnswer ==
    LET s == k.node[At].sym
    IN  /\ Doing("sym") /\ Asks(s) => \E v \in Tristates : sym_set_tristate_value(k, st, s, v)[1]
        /\ Doing("string") /\ Asks(s) =>
              \E text \in Texts \cup {st.sym[s].curr} : sym_set_string_value(k, st, s, text)[1]
        /\ (Doing("which") \/ Doing("new which")) /\ st.sym[s].curr = yes =>
              \E i \in ToSet(k.list[At]) : k.node[i].sym # "" /\ menu_is_visible(k, st, i)[1]

(* conf.c 395-463, 655-668: whatever the answers are, the questions of conf   *)
(* come to an end.                                                         *)
ConfEnds == program = "conf" ~> program # "conf"

-----------------------------------------------------------------------------
(* The conditions that the Kconfig files state for the prompt of entry i:   *)
(* its own, and those of everything around it.                             *)
RECURSIVE AroundIt(_, _)
CondsOf(node, types) ==
    LET ps == SelectSeq(node.props, LAMBDA p : p.type \in types)
    IN  <<node.dep>> \o [j \in DOMAIN ps |-> ps[j].cond]
AroundIt(nodes, i) ==
    IF i = 0 THEN <<>>
    ELSE <<nodes[i].vis>> \o CondsOf(nodes[i], {"prompt", "menu"}) \o AroundIt(nodes, nodes[i].parent)
Around == [t \in DOMAIN Sources |->
    LET nodes == Sources[t].nodes
        Conds(i) == CondsOf(nodes[i], {"prompt"}) \o AroundIt(nodes, nodes[i].parent)
    IN  [i \in DOMAIN nodes |-> [j \in DOMAIN Conds(i) |-> rewrite_m(Conds(i)[j])]]]
ChoicesAround(i) == {c \in k.choices : \E j \in DOMAIN k.node : k.node[j].sym = c /\ Sources[tree].nodes[i].parent = j}

(* menu.c 344-414: a prompt can be seen exactly when all conditions hold that *)
(* the Kconfig files state on and around it, however menu_finalize has      *)
(* rewritten, spread and simplified them.                                  *)
HasPrompt(i, s) ==
    s # "" /\ k.node[i].prompt # 0 /\ ~(sym_is_choice_value(k, s) /\ TypeOf(s) = "tristate")
ShownAsWritten(x, vals) ==
    \A i \in DOMAIN k.node : HasPrompt(i, k.node[i].sym) =>
        ((x.shown[i] # no) = /\ \A j \in DOMAIN Around[tree][i] : Value(Around[tree][i][j], vals) # no
                             /\ \A c \in ChoicesAround(i) : x.sym[c].curr # no)
AllAsWritten(x) == ShownAsWritten(x, Curr(x))
PromptsAsWritten == Running /\ saving.step = "none" => AllAsWritten(CalcAll(k, st, order))

(* menu.c 415-540: submenus and flattened blocks leave every entry in the     *)
(* tree, once, at its place: the files are in the order of the Kconfig     *)
(* files.                                                                  *)
EntriesInOrder == Preorder(k, 1) = [i \in DOMAIN k.node |-> i]

(* symbol.c 1128-1344: sym_check_deps, which marks symbols as it goes and      *)
(* stops at the first loop from each, reports a loop exactly when there is *)
(* one, and what it reports is one.                                        *)
LoopsRight(loops) == (loops # <<>>) = Cyclic(k) /\ \A j \in DOMAIN loops : IsLoop(k, loops[j])
LoopsReported ==
    left = MaxRuns[tree] => \A o \in {order, Reverse(order)} : LoopsRight(Checked(k, o)[2].loops)

(* What menu_finalize makes of the Kconfig files is what they say, and the    *)
(* loops that are reported are those of the files.                         *)
MenusAsWritten == PromptsAsWritten /\ EntriesInOrder /\ LoopsReported
=============================================================================
