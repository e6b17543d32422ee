------------------------------- MODULE Gconf -------------------------------
(***************************************************************************)
(* support/kconfig/gconf.c: gconfig, in its full view.  The window has a    *)
(* tree of rows, one for each entry shown.  After a click it is not made    *)
(* anew: update_tree walks along the menus and the rows at the same time   *)
(* and adds and removes what differs.  What the user can click on is what  *)
(* has a row, visible or not.                                              *)
(*                                                                         *)
(* The return values of the setters are ignored, so there is no accepted   *)
(* answer to speak of.                                                     *)
(***************************************************************************)
EXTENDS Mconf

LOCAL INSTANCE SequencesExt
LOCAL INSTANCE FiniteSetsExt

-----------------------------------------------------------------------------
(***************************************************************************)
(* What a function knows and changes: the memory st, and the symbols with   *)
(* the flag SYMBOL_CHANGED, which tells that a row has to be filled again.  *)
(***************************************************************************)
Differs(x, y) ==
    {s \in DOMAIN y.sym : x.modules # y.modules \/
        \E f \in {"curr", "chosen", "vis", "dir", "rev", "imp"} : x.sym[s][f] # y.sym[s][f]}

(* y is the memory after looking at something.  With a choice that is       *)
(* calculated its values are flagged.                                      *)
Seen(m, y) ==
    LET now  == m.flagged \cup Differs(m.st, y)
        done == {c \in k.choices : ~m.st.sym[c].valid /\ y.sym[c].valid}
    IN  [st |-> y, flagged |-> now \cup {s \in DOMAIN y.sym : k.choice[s] \in now \cap done}]

Unmarked(m, s) == [m EXCEPT !.flagged = @ \ {s}]

(* Which entries have a row: those that are visible, that have a prompt, or *)
(* a prompt or a name.  Returns the answer and what is known then.          *)
AnswerOf(m, v) == <<v[1], Seen(m, v[2])>>
LooksAt(m, i, mode) ==
    CASE mode = "visible" -> AnswerOf(m, menu_is_visible(k, m.st, i))
      [] mode = "prompts" -> <<menu_has_prompt(i), m>>
      [] mode = "all"     -> <<menu_has_prompt(i) \/ k.node[i].sym # "", m>>

(* An entry that has a row without being visible is grey. *)
Coloured(m, i, mode) ==
    IF mode = "all" \/ (mode = "prompts" /\ menu_has_prompt(i))
    THEN Seen(m, menu_is_visible(k, m.st, i)[2]) ELSE m
FilledChoice(m, i) ==
    IF sym_is_choice(k, k.node[i].sym) THEN Seen(m, VisibleChildren(k, m.st, i)[1]) ELSE m
FilledSymbol(m, i) ==
    LET s == k.node[i].sym
    IN  IF s = "" THEN m ELSE FilledChoice(Unmarked(Seen(m, sym_calc_value(k, m.st, s)), s), i)
fill_row(m, i, mode) == FilledSymbol(Coloured(m, i, mode), i)

-----------------------------------------------------------------------------
(***************************************************************************)
(* The rows.                                                               *)
(***************************************************************************)
Row(i) == [at |-> i, rows |-> <<>>]

RECURSIVE EntriesOf(_)
EntriesOf(rows) == UNION {{rows[j].at} \cup EntriesOf(rows[j].rows) : j \in DOMAIN rows}
gtktree_iter_find_node(rows, i) == i \in EntriesOf(rows)

(* A new row is put below the last one that is one level higher, be that of  *)
(* its parent or not; without one GTK refuses.                             *)
RECURSIVE place_node(_, _, _)
RECURSIVE Height(_)
Height(rows) == IF rows = <<>> THEN 0 ELSE 1 + Max({Height(rows[j].rows) : j \in DOMAIN rows})
place_node(rows, i, indent) ==
    LET js == {j \in DOMAIN rows : 1 + Height(rows[j].rows) >= indent - 1}
    IN  IF indent = 1 THEN Append(rows, Row(i))
        ELSE IF js = {} THEN rows
        ELSE [rows EXCEPT ![Max(js)].rows = place_node(@, i, indent - 1)]

(* display_tree(menu): the rows of all entries below i are added to r.       *)
RECURSIVE display_tree(_, _, _, _)
Placed(r, i, indent, mode) ==
    [mem |-> fill_row(r.mem, i, mode), rows |-> place_node(r.rows, i, indent)]
DisplayChild(r, v, i, indent, mode) ==
    IF v[1] THEN Placed([r EXCEPT !.mem = v[2]], i, indent, mode) ELSE [r EXCEPT !.mem = v[2]]
DisplayEntry(r, i, indent, mode) ==
    With(LooksAt(Unmarked(r.mem, k.node[i].sym), i, mode),
         LAMBDA v : display_tree(DisplayChild(r, v, i, indent, mode), i, indent + 1, mode))
display_tree(r, i, indent, mode) ==
    InOrder(LAMBDA q, c : DisplayEntry(q, c, indent, mode), r, k.list[i])

(* update_tree(src, dst): u has the rows below dst, and the place at that    *)
(* src has come to among them; it may have returned.                       *)
RECURSIVE update_tree(_, _, _, _)
RECURSIVE UpdateChild(_, _, _)

(* The row at this place is removed, whatever entry it is for. *)
RemoveNode(u) ==
    IF u.place < Len(u.rows) THEN [u EXCEPT !.rows = RemoveAt(@, u.place)]
    ELSE [u EXCEPT !.rows = SubSeq(@, 1, u.place - 1), !.returned = TRUE]
AddNode(u, c, mode) ==
    [u EXCEPT !.mem = fill_row(@, c, mode), !.rows = InsertAt(@, u.place, Row(c))]

WithBelow(u, below) ==
    [u EXCEPT !.mem = below.mem, !.rows[u.place].rows = below.rows, !.place = @ + 1]
Descend(u, c, mode) == WithBelow(u, update_tree(u.mem, c, u.rows[u.place].rows, mode))
Refilled(u, c, mode) ==
    IF k.node[c].sym \in u.mem.flagged THEN [u EXCEPT !.mem = fill_row(@, c, mode)] ELSE u

Reconcile(u, c, shown, mode) ==
    LET has  == gtktree_iter_find_node(u.rows, c)
        here == u.place \in DOMAIN u.rows /\ u.rows[u.place].at = c
    IN  IF shown /\ here THEN Descend(Refilled(u, c, mode), c, mode)
        ELSE IF has THEN UpdateChild(RemoveNode(u), c, mode)
        ELSE IF shown THEN Descend(AddNode(u, c, mode), c, mode)
        ELSE u
Looking(u, v, c, mode) == Reconcile([u EXCEPT !.mem = v[2]], c, v[1], mode)
UpdateChild(u, c, mode) ==
    IF u.returned THEN u ELSE With(LooksAt(u.mem, c, mode), LAMBDA v : Looking(u, v, c, mode))
update_tree(m, i, rows, mode) ==
    InOrder(LAMBDA u, c : UpdateChild(u, c, mode),
            [mem |-> m, rows |-> rows, place |-> 1, returned |-> FALSE], k.list[i])

-----------------------------------------------------------------------------
(***************************************************************************)
(* The handlers.  own: the rows, the option mode, the flagged symbols, and   *)
(* the file that was read or written last; the menu item "Save" and the    *)
(* question on exit always write .config.                                  *)
(***************************************************************************)
Window(r, o) ==
    /\ st' = r.mem.st
    /\ own' = [o EXCEPT !.rows = r.rows, !.flagged = r.mem.flagged]

(* conf_read flags all symbols. *)
JustRead(x) == [st |-> x, flagged |-> DOMAIN x.sym]
Begin(x) ==
    Window(display_tree([mem |-> JustRead(x), rows |-> <<>>], 1, 1, "visible"),
           [rows |-> <<>>, show |-> "visible", flagged |-> {}, filename |-> ".config", lost |-> FALSE,
            edits |-> MaxEdits[tree][left]])
StartGconf ==
    /\ program = "none" /\ left > 0 /\ left' = left - 1
    /\ "gconf" \in FrontEnds[tree] /\ program' = "gconf"
    /\ Begin(conf_read(k, Parsed, disk[".config"], FALSE, order)[2])
    /\ UNCHANGED <<asked, saving>> /\ Unaffected

GWaiting == WaitingIn("gconf")
Clicked(r, o) ==
    /\ Window(r, o) /\ asked' = Nothing
    /\ UNCHANGED <<program, saving, left>> /\ Unaffected

Remembered == [st |-> st, flagged |-> own.flagged]

(* The setter of s has made x; a value that is set for the first time is     *)
(* flagged.                                                                *)
SetIn(m, x, s) ==
    LET y == Seen(m, x) IN IF m.st.sym[s].user \/ ~x.sym[s].user THEN y ELSE [y EXCEPT !.flagged = @ \cup {s}]
Updated(x, s) ==
    Clicked(update_tree(SetIn(Remembered, x, s), 1, own.rows, own.show), Fewer)

renderer_edited(s) ==
    /\ TypeOf(s) \notin Logical
    /\ \E text \in Entered : Updated(sym_set_string_value(k, st, s, text)[2], s)

(* A click on one of the columns N, M and Y, or one of these keys. *)
change_sym_value(s) ==
    /\ TypeOf(s) \in Logical
    /\ \E v \in Tristates :
          Updated(sym_set_tristate_value(k, st, s,
                      IF sym_tristate_within_range(k, st, s, v) THEN v ELSE yes)[2], s)

(* A click on the value, or two on the name.  A number or a text that the     *)
(* user has set stays what it is.  One that was never set would count as set *)
(* from then on, to a null pointer with which the program goes on to         *)
(* calculate; that is left out.                                            *)
toggle_sym_value(s) ==
    \/ TypeOf(s) \in Logical /\ Updated(sym_toggle_tristate_value(k, st, s), s)
    \/ TypeOf(s) \notin Logical /\ st.sym[s].user /\ Updated(st, s)

OnRow(s) == renderer_edited(s) \/ change_sym_value(s) \/ toggle_sym_value(s)
Click ==
    /\ GWaiting /\ own.edits > 0
    /\ \E s \in {k.node[i].sym : i \in EntriesOf(own.rows)} \ {""} : OnRow(s)

(* on_treeview2_cursor_changed: the help of the row that is selected says    *)
(* within which range its number is, and where its prompts are.            *)
RangeOf(x, s) == IF TypeOf(s) \in {"int", "hex"} THEN sym_get_range_prop(k, x, s)[1] ELSE x
Location(x, i) == SeenOf(k, x, Above(i))[1]
menu_get_ext_help(x, s) == InOrder(Location, RangeOf(x, s), k.prompts[s])
on_treeview2_cursor_changed ==
    /\ GWaiting
    /\ \E i \in EntriesOf(own.rows) :
          /\ k.node[i].sym # ""
          /\ Clicked([mem |-> Seen(Remembered, menu_get_ext_help(st, k.node[i].sym)), rows |-> own.rows], own)

(* on_set_option_mode1_activate to 3: the tree is cleared. *)
SetOptionMode ==
    /\ GWaiting /\ own.edits > 0
    /\ \E mode \in {"visible", "prompts", "all"} \ {own.show} :
          Clicked(display_tree([mem |-> Remembered, rows |-> <<>>], 1, 1, mode), [Fewer EXCEPT !.show = mode])

(* The tree is not cleared: every entry that is shown gets one more row.     *)
load_filename ==
    /\ GWaiting /\ own.edits > 0
    /\ \E name \in Names :
          /\ disk[name] # Missing
          /\ \E x \in {conf_read(k, st, disk[name], TRUE, order)[2]} :
                Clicked(display_tree([mem |-> JustRead(x), rows |-> own.rows], 1, 1, own.show),
                        [Fewer EXCEPT !.filename = name, !.lost = FALSE])

(* "Unable to load configuration !", see LoadFails of Mconf. *)
GLoadFails ==
    /\ GWaiting /\ own.edits > 0
    /\ Clicked([mem |-> Seen(Remembered, ReadNothing), rows |-> own.rows], NotLoaded)

(* on_save_activate, store_filename. *)
on_save_activate ==
    /\ GWaiting /\ own.edits > 0
    /\ \E name \in Names : Write(st, name, "stay")
    /\ own' = [Attempt EXCEPT !.flagged = Seen(Remembered, st').flagged] /\ asked' = Nothing
    /\ UNCHANGED <<program, left>> /\ Unaffected

(* "Unable to save configuration !" *)
GSaveFails ==
    /\ Failing("gconf") /\ saving' = NotSaving
    /\ UNCHANGED <<program, st, own, asked, left>> /\ Unaffected

GSaved ==
    /\ program = "gconf" /\ saving.step = "message" /\ saving.then = "stay"
    /\ st' = [st EXCEPT !.changed = FALSE]
    /\ own' = [own EXCEPT !.filename = saving.file]
    /\ saving' = NotSaving
    /\ UNCHANGED <<program, asked, left>> /\ Unaffected

(* on_window1_delete_event: OK saves, No does not, and when nothing has      *)
(* changed nothing is asked.                                               *)
on_window1_delete_event ==
    /\ GWaiting
    /\ \/ Exit
       \/ /\ st.changed
          /\ Write(st, ".config", "exit") /\ asked' = Nothing
          /\ UNCHANGED <<program, own, left>> /\ Unaffected

GconfNext ==
    \/ StartGconf \/ Click \/ on_treeview2_cursor_changed \/ SetOptionMode \/ load_filename
    \/ GLoadFails \/ on_save_activate \/ GSaveFails \/ GSaved \/ on_window1_delete_event
=============================================================================
