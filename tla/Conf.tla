-------------------------------- MODULE Conf --------------------------------
(***************************************************************************)
(* support/kconfig/conf.c: the line-oriented program behind oldconfig,      *)
(* syncconfig, defconfig, savedefconfig, allyesconfig and their relatives.  *)
(*                                                                         *)
(* Where the C functions call each other, work is the list of the calls     *)
(* that are still to be made.  They ask in the order of the menus; every    *)
(* question may change which entries are visible afterwards.               *)
(***************************************************************************)
EXTENDS KconfigFiles, FiniteSets

LOCAL INSTANCE SequencesExt

CONSTANTS
    ConfModes,   \* the input modes that are used with each of the Kconfig files
    Texts,       \* what is typed for a number or a string
    RandomValues, RandomPicks  \* what randconfig draws

Old == {"oldconfig", "syncconfig", "listnewconfig"}
All == {"allnoconfig", "allyesconfig", "allmodconfig", "alldefconfig", "randconfig"}
NewMode == [m \in All \cup {"defconfig"} |->
    CASE m = "allnoconfig" -> "def_no" [] m = "allyesconfig" -> "def_yes"
      [] m = "allmodconfig" -> "def_mod" [] m = "randconfig" -> "def_random" [] OTHER -> "def_default"]

Call(f, i) == [call |-> f, at |-> i]
CallEach(f, children) == [p \in DOMAIN children |-> Call(f, children[p])]

Unchanged == UNCHANGED <<tree, k, disk, stamps, fresh, built>>

(* What conf keeps: input_mode, rootEntry, whether conf_cnt is not 0, and   *)
(* the calls.                                                              *)
Proceed(x, todo) ==
    /\ st' = x /\ own' = [own EXCEPT !.todo = todo] /\ asked' = Nothing
    /\ UNCHANGED <<program, saving, left>> /\ Unchanged

-----------------------------------------------------------------------------
(***************************************************************************)
(* main, up to the questions.                                              *)
(***************************************************************************)
Start(m, x, todo) ==
    /\ program = "none" /\ left > 0 /\ left' = left - 1
    /\ program' = "conf" /\ st' = x
    /\ own' = [mode |-> m, root |-> 1, again |-> FALSE, todo |-> todo]
    /\ UNCHANGED <<asked, saving>> /\ Unchanged

(* What needs a file that is missing ends at once, without a change.       *)
StartOld ==
    \E m \in ConfModes[tree] \cap (Old \cup {"oldaskconfig", "olddefconfig", "savedefconfig"}) :
        /\ m = "syncconfig" => disk[".config"] # Missing
        /\ Start(m, conf_read(k, Parsed, disk[".config"], FALSE, order)[2],
                 CASE m \in Old -> <<Call("check", 1), Call("again", 1)>>
                   [] m = "oldaskconfig" -> <<Call("conf", 1), Call("old", 1)>>
                   [] OTHER -> <<>>)

AllNew(mode, x) == conf_set_all_new_symbols(k, x, order, mode, <<>>, <<>>)[1]

StartDefconfig ==
    /\ "defconfig" \in ConfModes[tree] /\ disk["defconfig"] # Missing
    /\ Start("defconfig", AllNew("def_default", conf_read(k, Parsed, disk["defconfig"], TRUE, order)[2]), <<>>)

(* With KCONFIG_ALLCONFIG, the values of a file are kept. *)
StartFrom(m, x) ==
    IF m = "randconfig" THEN Start(m, x, <<Call("random", 1)>>) ELSE Start(m, AllNew(NewMode[m], x), <<>>)
StartAll ==
    \E m \in ConfModes[tree] \cap All, seed \in {"", "other"} :
        /\ seed # "" => disk[seed] # Missing
        /\ StartFrom(m, IF seed = "" THEN Parsed ELSE conf_read_simple(k, Parsed, disk[seed]))

Doing(f) == program = "conf" /\ saving.step = "none" /\ own.todo # <<>> /\ Head(own.todo).call = f
At == Head(own.todo).at
Rest == Tail(own.todo)

Randomized(x) == Proceed(x[1], IF x[2] THEN own.todo ELSE Rest)
Random ==
    /\ Doing("random")
    /\ \E new \in RandomValues[tree], pick \in RandomPicks[tree] :
          Randomized(conf_set_all_new_symbols(k, st, order, "def_random", new, pick))

(* The first walk of oldaskconfig is over. *)
OldFromNow ==
    /\ Doing("old")
    /\ own' = [own EXCEPT !.mode = "oldconfig", !.todo = <<Call("check", 1), Call("again", 1)>>]
    /\ UNCHANGED <<program, st, asked, saving, left>> /\ Unchanged

(* Until a loop caused no more changes. *)
Again ==
    /\ Doing("again")
    /\ own' = [own EXCEPT !.again = FALSE,
                          !.todo = IF own.again THEN <<Call("check", 1), Call("again", 1)>> ELSE <<>>]
    /\ UNCHANGED <<program, st, asked, saving, left>> /\ Unchanged

-----------------------------------------------------------------------------
(***************************************************************************)
(* Walking through the menus.                                              *)
(***************************************************************************)
IsMenu(i) == k.node[i].kind \in {"menu", "menuconfig"}
RECURSIVE menu_get_parent_menu(_)
menu_get_parent_menu(i) ==
    IF i = 1 \/ (k.node[i].prompt # 0 /\ IsMenu(i)) THEN i ELSE menu_get_parent_menu(k.parent[i])

MutAsksFor(x, i) == \* also for what can only have one value
    k.node[i].sym # "" /\ ~x.sym[k.node[i].sym].user

(* check_conf asks for what has no value yet. *)
AsksFor(x, i) ==
    LET s == k.node[i].sym
    IN  /\ s # "" /\ ~x.sym[s].user
        /\ sym_is_changable(x, s) \/ (sym_is_choice(k, s) /\ x.sym[s].curr = yes)

Check(v, rest) == \* v tells whether the entry is visible, and the state
    IF ~v[1] THEN Proceed(v[2], Rest)
    ELSE IF ~AsksFor(v[2], At) \/ own.mode = "listnewconfig" THEN Proceed(v[2], rest)
    ELSE LET up == menu_get_parent_menu(At)
         IN  /\ st' = v[2]
             /\ own' = [own EXCEPT !.again = TRUE, !.root = up, !.todo = <<Call("conf", up)>> \o rest]
             /\ UNCHANGED <<program, asked, saving, left>> /\ Unchanged
check_conf == Doing("check") /\ Check(menu_is_visible(k, st, At), CallEach("check", k.list[At]) \o Rest)

(* conf: a menu that is not the root is only checked. *)
Calls(x, s, rest) ==
    IF IsMenu(At) /\ own.mode # "oldaskconfig" /\ own.root # At THEN <<Call("check", At)>> \o Rest
    ELSE IF s = "" THEN rest
    ELSE IF sym_is_choice(k, s) THEN <<Call(IF x.sym[s].user THEN "choice" ELSE "new choice", At)>> \o Rest
    ELSE <<Call(IF TypeOf(s) \in Logical THEN "sym" ELSE "string", At)>> \o rest
Reached(v) ==
    Proceed(v[2], IF v[1] THEN Calls(v[2], k.node[At].sym, CallEach("conf", k.list[At]) \o Rest) ELSE Rest)
conf == Doing("conf") /\ Reached(menu_is_visible(k, st, At))

(* conf_askvalue: whether a line is read. *)
Asks(s) == sym_is_changable(st, s) /\ (own.mode = "oldaskconfig" \/ ~st.sym[s].user)

(* An answer that is accepted; r is what the setter has returned. *)
Answered(r, s, value) ==
    /\ r[1] /\ st' = r[2] /\ own' = [own EXCEPT !.todo = Rest] /\ asked' = [sym |-> s, value |-> value]
    /\ UNCHANGED <<program, saving, left>> /\ Unchanged

NotAsked ==
    /\ Doing("sym") \/ Doing("string")
    /\ ~Asks(k.node[At].sym)
    /\ Proceed(st, Rest)

(* An empty line is the value it has.  Anything else is asked for again.   *)
conf_sym ==
    /\ Doing("sym")
    /\ LET s == k.node[At].sym
       IN  Asks(s) /\ \E v \in Tristates : Answered(sym_set_tristate_value(k, st, s, v), s, v)

conf_string ==
    /\ Doing("string")
    /\ LET s == k.node[At].sym
       IN  Asks(s) /\ \E text \in Texts \cup {st.sym[s].curr} :
              Answered(sym_set_string_value(k, st, s, text), s, Prefixed(s, text))

(* conf_choice: whether there is one, then which one.  The lists for m and  *)
(* for yes.                                                                *)
Whether ==
    /\ Doing("choice") \/ Doing("new choice")
    /\ LET c   == k.node[At].sym
           one == Call(IF Doing("choice") THEN "which" ELSE "new which", At)
       IN  Proceed(st, IF sym_is_changable(st, c) THEN <<Call("sym", At), one>> \o Rest
                       ELSE <<one>> \o Rest)

(* With one value, or a choice that is not new, there is no question; the   *)
(* entries below the value follow.                                         *)
Pickable(x, c, seen) ==
    IF Cardinality(seen) = 1 \/ own.mode = "oldaskconfig" \/ Doing("new which") THEN seen
    ELSE {i \in seen : k.node[i].sym = x.sym[c].chosen}
Pick(c, see) == \* see has the state, and the visible values
    \E i \in Pickable(see[1], c, {j \in ToSet(see[2]) : k.node[j].sym # ""}) :
        /\ st' = sym_set_tristate_value(k, see[1], k.node[i].sym, yes)[2]
        /\ own' = [own EXCEPT !.todo = CallEach("conf", k.list[i]) \o Rest]
        /\ asked' = [sym |-> k.node[i].sym, value |-> yes]
        /\ UNCHANGED <<program, saving, left>> /\ Unchanged
WhichOf(x, c) ==
    IF x.sym[c].curr # yes
    THEN Proceed(x, IF x.sym[c].curr = mod THEN CallEach("conf", k.list[At]) \o Rest ELSE Rest)
    ELSE Pick(c, VisibleChildren(k, x, At))
Which ==
    /\ Doing("which") \/ Doing("new which")
    /\ LET c == k.node[At].sym IN WhichOf(sym_calc_value(k, st, c), c)

-----------------------------------------------------------------------------
(***************************************************************************)
(* The end of main.                                                        *)
(***************************************************************************)
Finishing == program = "conf" /\ saving.step = "none" /\ own.todo = <<>>
WritesConfig == Finishing /\ own.mode \notin {"savedefconfig", "listnewconfig"}
                /\ (own.mode = "syncconfig" => st.changed)

Finish ==
    /\ WritesConfig
    /\ Write(st, ".config", IF own.mode = "syncconfig" THEN "autoconf" ELSE "exit")
    /\ asked' = Nothing
    /\ UNCHANGED <<program, own, left>> /\ Unchanged

CannotWrite ==
    /\ WritesConfig
    /\ Ended /\ UNCHANGED left /\ Unchanged

NoUpdate ==
    /\ Finishing /\ own.mode = "syncconfig" /\ ~st.changed
    /\ saving' = [NotSaving EXCEPT !.step = "autoconf"] /\ asked' = Nothing
    /\ UNCHANGED <<program, st, own, left>> /\ Unchanged

OnlyListed ==
    /\ Finishing /\ own.mode = "listnewconfig"
    /\ Ended /\ UNCHANGED left /\ Unchanged

(* conf_write_defconfig writes the file in place; d has its lines. *)
Truncate(d) ==
    /\ st' = d[1] /\ saving' = [NotSaving EXCEPT !.step = "defconfig", !.lines = d[2]]
    /\ disk' = [disk EXCEPT !["defconfig"] = <<>>]
OpenDefconfig ==
    /\ Finishing /\ own.mode = "savedefconfig"
    /\ Truncate(conf_write_defconfig(k, st))
    /\ UNCHANGED <<tree, k, program, own, asked, stamps, fresh, built, left>>

WriteDefconfig ==
    /\ saving.step = "defconfig"
    /\ disk' = [disk EXCEPT !["defconfig"] = saving.lines]
    /\ Ended /\ UNCHANGED <<tree, k, stamps, fresh, built, left>>

ConfStep ==
    \/ Random \/ OldFromNow \/ Again
    \/ check_conf \/ conf \/ NotAsked \/ conf_sym \/ conf_string \/ Whether \/ Which
    \/ Finish \/ CannotWrite \/ NoUpdate \/ OnlyListed \/ OpenDefconfig \/ WriteDefconfig

ConfNext == StartOld \/ StartDefconfig \/ StartAll \/ ConfStep
=============================================================================
