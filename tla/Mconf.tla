------------------------------- MODULE Mconf -------------------------------
(***************************************************************************)
(* support/kconfig/mconf.c: the menus of menuconfig.  Between two keys the  *)
(* program has shown the menu on top of the stack of open menus; showing it *)
(* evaluates its entries (build_conf), which belongs to the handler of the  *)
(* key.                                                                    *)
(***************************************************************************)
EXTENDS KconfigFiles

LOCAL INSTANCE SequencesExt

CONSTANTS
    FrontEnds,   \* which of mconf, nconf and gconf are used, with each of the Kconfig files
    MaxEdits,    \* how many keys change something, when so many runs are left
    MaxDepth,    \* how many menus are open at once
    Entered,     \* what is typed for a number or a string
    Names        \* the files that may be named to <Save> and <Load>

-----------------------------------------------------------------------------
(***************************************************************************)
(* build_conf: the memory after showing entry i, and the items it adds to   *)
(* those shown before.  cur is the menu that is open; shown are the entries that  *)
(* are visible, those that have a prompt, or all.                          *)
(***************************************************************************)
Item(tag, i) == [tag |-> tag, at |-> i]

menu_has_prompt(i) == k.node[i].prompt # 0

RECURSIVE build_conf(_, _, _, _)
Children(x, items, i, cur, show) ==
    InOrder(LAMBDA acc, c : build_conf(acc, c, cur, show), <<x, items>>, k.list[i])

(* A menu, a comment, or a block. *)
BuildMenu(x, items, i, cur, show) ==
    IF i # cur /\ k.node[i].kind = "menu" THEN <<x, Append(items, Item("m", i))>>
    ELSE Children(x, IF i = cur \/ ~menu_has_prompt(i) THEN items ELSE Append(items, Item(":", i)),
                  i, cur, show)

(* A choice; def is the entry of its value, if that is visible.  Of a choice *)
(* that is y only what is below its value follows.                         *)
ChoiceItems(x, items, i, def, cur, show) ==
    LET s == k.node[i].sym
        more == Append(items, Item(IF sym_is_changable(x, s) \/ def # {} THEN "t" ELSE ":", i))
    IN  IF x.sym[s].curr # yes THEN Children(x, more, i, cur, show)
        ELSE IF \A c \in def : k.list[c] = <<>> THEN <<x, more>>
        ELSE build_conf(<<x, more>>, CHOOSE c \in def : TRUE, cur, show)

(* see has the memory after looking at the values, and the visible ones. *)
BuildChoice(see, items, i, cur, show) ==
    ChoiceItems(see[1], items, i,
                {c \in ToSet(see[2]) : k.node[c].sym = see[1].sym[k.node[i].sym].chosen}, cur, show)

BuildSymbol(x, items, i, cur, show) ==
    LET s == k.node[i].sym
        tag == IF i = cur THEN ":"
               ELSE IF TypeOf(s) \notin Logical THEN "s"
               ELSE IF sym_is_choice_value(k, s) /\ x.sym[s].curr = yes THEN ":" ELSE "t"
        more == Append(items, Item(tag, i))
    IN  IF i # cur /\ TypeOf(s) \in Logical /\ k.node[i].kind = "menuconfig" THEN <<x, more>>
        ELSE Children(x, more, i, cur, show)

IsShown(visible, i, show) ==
    (show = "visible" => visible) /\ (show = "prompts" => menu_has_prompt(i))

(* v is the answer to whether i is visible, and the state after looking. *)
BuildEntry(v, items, i, cur, show) ==
    LET s == k.node[i].sym
    IN  IF ~IsShown(v[1], i, show) THEN <<v[2], items>>
        ELSE IF s = "" THEN BuildMenu(v[2], items, i, cur, show)
        ELSE IF sym_is_choice(k, s)
             THEN BuildChoice(VisibleChildren(k, v[2], i), items, i, cur, show)
        ELSE BuildSymbol(v[2], items, i, cur, show)
build_conf(acc, i, cur, show) ==
    BuildEntry(menu_is_visible(k, acc[1], i), acc[2], i, cur, show)

-----------------------------------------------------------------------------
(***************************************************************************)
(* main, and moving through the menus.  own: the open menus, the last one   *)
(* on top, the items of that one as they are shown, which entries are       *)
(* shown, and the name of the configuration; and a history variable, lost,  *)
(* whether the count of changes no longer tells of some that are not in    *)
(* the file of that name.                                                  *)
(***************************************************************************)
Unaffected == UNCHANGED <<tree, k, disk, stamps, fresh, built>>

(* The handler of a key is over: the menu is shown again. *)
Display(shown, o) == st' = shown[1] /\ own' = [o EXCEPT !.items = shown[2]]
Show(x, o) == Display(build_conf(<<x, <<>>>>, Last(o.menus), Last(o.menus), o.show), o)

StartMenus(name) ==
    /\ program = "none" /\ left > 0 /\ left' = left - 1
    /\ name \in FrontEnds[tree] /\ program' = name
    /\ Show(conf_read(k, Parsed, disk[".config"], FALSE, order)[2],
            [menus |-> <<1>>, items |-> <<>>, show |-> "visible", filename |-> ".config",
             lost |-> FALSE, edits |-> MaxEdits[tree][left]])
    /\ UNCHANGED <<asked, saving>> /\ Unaffected
StartMconf == StartMenus("mconf")

WaitingIn(name) == program = name /\ saving.step = "none"
Waiting == WaitingIn("mconf")

(* asked' is the answer that counts, if there is one. *)
Handled(x, o, answer) ==
    /\ Show(x, o) /\ asked' = answer
    /\ UNCHANGED <<program, saving, left>> /\ Unaffected

(* <Select>, or the space bar, on a menu or the prompt of a menuconfig. *)
Open(item) ==
    /\ item.tag = "m" \/ (item.tag = "t" /\ k.node[item.at].kind = "menuconfig")
    /\ Len(own.menus) < MaxDepth
    /\ Handled(st, [own EXCEPT !.menus = Append(@, item.at)], Nothing)

Leave ==
    /\ Len(own.menus) > 1
    /\ Handled(st, [own EXCEPT !.menus = Front(@)], Nothing)

Move == Waiting /\ (Leave \/ \E item \in ToSet(own.items) : Open(item))

-----------------------------------------------------------------------------
(***************************************************************************)
(* The keys that change something.                                         *)
(***************************************************************************)
Fewer == [own EXCEPT !.edits = @ - 1]
Edits(x, s, value) == Handled(x, Fewer, [sym |-> s, value |-> value])

ShowAll ==
    Handled(st, [Fewer EXCEPT !.show = IF @ = "visible" THEN "prompts" ELSE "visible"], Nothing)

(* search_conf: get_prompt_str looks whether the menus above an entry are   *)
(* visible, the nearest first, and the key jumps to the entry if it can be  *)
(* seen, or else to the nearest one that can.  w tells whether i is visible, *)
(* and the state.                                                          *)
RECURSIVE Above(_)
Above(i) == IF k.parent[i] <= 1 THEN <<>> ELSE <<k.parent[i]>> \o Above(k.parent[i])
Jump(w, i, seen) ==
    /\ seen # <<>>
    /\ Handled(w[2], [Fewer EXCEPT !.menus = Append(@, k.parent[IF w[1] THEN i ELSE Head(seen)])], Nothing)
JumpFrom(see, i) == Jump(menu_is_visible(k, see[1], i), i, see[2])
Search(i) ==
    /\ Len(own.menus) < MaxDepth
    /\ k.node[i].sym # "" /\ menu_has_prompt(i)
    /\ JumpFrom(SeenOf(k, st, Above(i)), i)

(* <Y>, <N> or <M>; r is what the setter has returned.  <Y> is m for what    *)
(* cannot be y.                                                            *)
SetMod(r, s) == r[1] /\ Edits(r[2], s, mod)
SetKey(r, s, v) ==
    IF r[1] THEN Edits(r[2], s, v) ELSE v = yes /\ SetMod(sym_set_tristate_value(k, r[2], s, mod), s)
PressKey(x, s) == \E v \in Tristates : SetKey(sym_set_tristate_value(k, x, s, v), s, v)

PressSpace(x, s) == Handled(sym_toggle_tristate_value(k, x, s), Fewer, Nothing)

(* The list of a choice: what is rejected leaves the choice as it is. *)
PickOne(r, s) == r[1] /\ Edits(r[2], s, yes)
PickFrom(see) ==
    \E i \in ToSet(see[2]) :
        k.node[i].sym # "" /\ PickOne(sym_set_tristate_value(k, see[1], k.node[i].sym, yes), k.node[i].sym)
PickValue(x, c, at) ==
    /\ sym_is_choice(k, c) /\ x.sym[c].curr = yes
    /\ PickFrom(VisibleChildren(k, x, at))

EnterOne(r, s, text) == r[1] /\ Edits(r[2], s, Prefixed(s, text))
EnterText(x, s) == \E text \in Entered : EnterOne(sym_set_string_value(k, x, s, text), s, text)

OnSymbol(tag, at, s) ==
    \/ tag = "t" /\ (PressKey(st, s) \/ PressSpace(st, s) \/ PickValue(st, s, at))
    \/ tag = "s" /\ EnterText(st, s)
OnItem(tag, at) == OnSymbol(tag, at, k.node[at].sym)

(* conf_load: the name becomes that of the configuration. *)
conf_load(name) ==
    /\ disk[name] # Missing
    /\ Handled([conf_read(k, st, disk[name], TRUE, order)[2] EXCEPT !.changed = TRUE],
               [Fewer EXCEPT !.filename = name, !.lost = FALSE], Nothing)

(* "File does not exist!", and the user gives up.  What was changed does not *)
(* count any more.                                                         *)
ReadNothing == conf_read(k, st, Missing, TRUE, order)[2]
NotLoaded == [Fewer EXCEPT !.lost = @ \/ st.changed]
LoadFails == Handled(ReadNothing, NotLoaded, Nothing)

(* conf_save.  A name that fopen refuses changes nothing.                   *)
NothingToWrite == st.spent /\ st.changed
Attempt == [Fewer EXCEPT !.lost = NothingToWrite]
conf_save(name) ==
    /\ Write(st, name, "stay")
    /\ own' = Attempt /\ asked' = Nothing
    /\ UNCHANGED <<program, left>> /\ Unaffected

Change ==
    /\ Waiting /\ own.edits > 0
    /\ \/ ShowAll
       \/ \E i \in DOMAIN k.node : Search(i)
       \/ \E item \in ToSet(own.items) : OnItem(item.tag, item.at)
       \/ \E name \in Names : conf_load(name) \/ conf_save(name)
       \/ LoadFails

(* "Can't create file!", though it is the last rename that failed.  The user  *)
(* gives up with ESC, or tries again; SIGINT is SignalInMessage.           *)
Failing(name) == program = name /\ saving.step = "replace" /\ saving.then = "stay"
TryAgain == own.edits > 0 /\ \E name \in Names : conf_save(name)
SaveFails ==
    /\ Failing("mconf")
    /\ \/ TryAgain
       \/ /\ Show(st, own) /\ saving' = NotSaving
          /\ UNCHANGED <<program, asked, left>> /\ Unaffected

(* The message "configuration written to" has been read: now nothing counts *)
(* as changed, and the name becomes that of the configuration.             *)
Saved ==
    /\ program = "mconf" /\ saving.step = "message" /\ saving.then = "stay"
    /\ Show([st EXCEPT !.changed = FALSE], [own EXCEPT !.filename = saving.file])
    /\ saving' = NotSaving
    /\ UNCHANGED <<program, asked, left>> /\ Unaffected

-----------------------------------------------------------------------------
(***************************************************************************)
(* handle_exit, when the last menu is left, or in any of them by SIGINT.    *)
(***************************************************************************)
Exit == Ended /\ UNCHANGED left /\ Unaffected

ExitSaving ==
    /\ Write(st, own.filename, "exit") /\ asked' = Nothing
    /\ UNCHANGED <<program, own, left>> /\ Unaffected

handle_exit == Waiting /\ st.changed /\ ExitSaving

(* The changes are not saved, and the user knows: the question has been     *)
(* answered with no, the file cannot be created, or it was SIGINT.         *)
Discard == Waiting /\ st.changed /\ Exit

(* Nothing is asked. *)
ExitUnchanged == Waiting /\ ~st.changed /\ Exit

(* sig_handler while one of the messages of conf_save is shown.             *)
SignalInMessage ==
    /\ Failing("mconf") \/ (program = "mconf" /\ saving.step = "message")
    /\ st.changed /\ ExitSaving

MconfNext ==
    \/ StartMconf \/ Move \/ Change \/ SaveFails \/ Saved
    \/ SignalInMessage \/ handle_exit \/ Discard \/ ExitUnchanged
=============================================================================
