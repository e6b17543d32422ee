------------------------------- MODULE Nconf -------------------------------
(***************************************************************************)
(* support/kconfig/nconf.c: the menus of nconfig.  They are those of        *)
(* menuconfig, with other keys: an entry is looked at once more before it   *)
(* is changed, so what cannot be seen cannot be changed.                   *)
(***************************************************************************)
EXTENDS Mconf

LOCAL INSTANCE SequencesExt

StartNconf == StartMenus("nconf")

NWaiting == WaitingIn("nconf")

(* build_conf is that of mconf, but F4 shows every entry, also those that    *)
(* have no prompt.                                                         *)
Screen(x, o, answer) == Handled(x, o, answer)

-----------------------------------------------------------------------------
(***************************************************************************)
(* conf: a key is pressed on an item.  v is the answer to whether it is      *)
(* visible, and the memory after looking.                                  *)
(***************************************************************************)
Ignored(v) == Screen(v[2], own, Nothing)
Opened(v, item) ==
    /\ v[1] /\ Len(own.menus) < MaxDepth
    /\ item.tag = "m" \/ (item.tag = "t" /\ k.node[item.at].kind = "menuconfig")
    /\ Screen(v[2], [own EXCEPT !.menus = Append(@, item.at)], Nothing)
Looks(v, item) == Ignored(v) \/ Opened(v, item)

(* F5, the left arrow, or Esc. *)
Back == NWaiting /\ Leave

Look == NWaiting /\ \E item \in ToSet(own.items) : Looks(menu_is_visible(k, st, item.at), item)

(* The space bar toggles, Enter also sets values of a choice and asks for    *)
(* texts; Y, N and M set.                                                  *)
conf_choice(x, at, s) == PickValue(x, s, at)
nconf_string(x, s) == EnterText(x, s)
Pressed(x, item, s) ==
    \/ item.tag = "t" /\ (PressKey(x, s) \/ PressSpace(x, s) \/ conf_choice(x, item.at, s))
    \/ item.tag = "s" /\ nconf_string(x, s)
Changes(v, item) == v[1] /\ Pressed(v[2], item, k.node[item.at].sym)
Press ==
    /\ NWaiting /\ own.edits > 0
    /\ \E item \in ToSet(own.items) : Changes(menu_is_visible(k, st, item.at), item)

-----------------------------------------------------------------------------
(***************************************************************************)
(* process_special_keys: after the handler of a function key, the item the  *)
(* cursor is on is looked at like after any other key.                     *)
(***************************************************************************)
Glanced(x, item) == menu_is_visible(k, x, item.at)[2]
Special(x, o) == \E item \in ToSet(own.items) : Screen(Glanced(x, item), o, Nothing)

F4 == \E show \in {"visible", "all"} \ {own.show} : Special(st, [Fewer EXCEPT !.show = show])

F6 == \E name \in Names : conf_save(name)

(* @@ st.sym adds nothing; with it TLC calculates the symbols only once. *)
F7 ==
    \E name \in Names :
        /\ disk[name] # Missing
        /\ \E x \in {conf_read(k, st, disk[name], TRUE, order)[2]} :
              Special([x EXCEPT !.changed = TRUE, !.sym = @ @@ st.sym],
                      [Fewer EXCEPT !.filename = name, !.lost = FALSE])
F7Fails == Special(ReadNothing, NotLoaded)

(* search_conf looks at the menus above what is found, and that is all. *)
F8 ==
    \E i \in DOMAIN k.node :
        k.node[i].sym # "" /\ menu_has_prompt(i) /\ Special(SeenOf(k, st, Above(i))[1], Fewer)

FunctionKey == NWaiting /\ own.edits > 0 /\ (F4 \/ F6 \/ F7 \/ F7Fails \/ F8)

(* "Can't create file!" *)
NSaveFails ==
    /\ Failing("nconf")
    /\ \/ TryAgain
       \/ /\ \E item \in ToSet(own.items) : Show(Glanced(st, item), own)
          /\ saving' = NotSaving
          /\ UNCHANGED <<program, asked, left>> /\ Unaffected

(* The message of conf_save has been read. *)
NSaved ==
    /\ program = "nconf" /\ saving.step = "message" /\ saving.then = "stay"
    /\ \E item \in ToSet(own.items) :
          Show(Glanced([st EXCEPT !.changed = FALSE], item), [own EXCEPT !.filename = saving.file])
    /\ saving' = NotSaving
    /\ UNCHANGED <<program, asked, left>> /\ Unaffected

-----------------------------------------------------------------------------
(* F9 in any menu, or when the last one is left.  It asks when something has *)
(* changed; when the file cannot be written the changes are lost, and so    *)
(* they are when the user says so.                                         *)
do_exit == NWaiting /\ (Exit \/ (st.changed /\ ExitSaving))

NconfNext == StartNconf \/ Back \/ Look \/ Press \/ FunctionKey \/ NSaveFails \/ NSaved \/ do_exit
=============================================================================
