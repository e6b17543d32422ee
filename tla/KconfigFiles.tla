---------------------------- MODULE KconfigFiles ----------------------------
(***************************************************************************)
(* The programs of support/kconfig that read and write the files of         *)
(* ConfigFiles: one runs at a time, has its values in memory st, and may be *)
(* killed.  This module has what the programs share: conf_write and         *)
(* conf_write_autoconf of confdata.c.                                      *)
(***************************************************************************)
EXTENDS KconfigData, ConfigFiles

LOCAL INSTANCE SequencesExt

CONSTANTS
    Upgrades,    \* which Kconfig files may replace which
    Configs,     \* the .config files there may be at first
    Autos,       \* and the auto.conf of the last build
    MaxRuns      \* how many programs are run, with each of them

ASSUME SessionAssumption == MaxRuns \in [DOMAIN Sources -> Nat] /\ DOMAIN Order = DOMAIN Sources

VARIABLES
    k,           \* what menu_finalize makes of the Kconfig files
    st,          \* the memory of the program
    own,         \* what else it keeps, see Conf, Mconf and Gconf
    asked,       \* the last answer that was accepted
    left         \* the runs that are left

session == <<program, st, own, asked, saving>>
vars == <<tree, k, session, disk, stamps, fresh, built, left>>

MenuTrees == [t \in DOMAIN Sources |->
                Finalized(Sources[t].nodes, Sources[t].optional, Sources[t].allno)]
order == Order[tree]
Parsed == Fresh(k) \* conf_parse

NoMemory == <<>>
Nothing == [sym |-> ""]

Init ==
    /\ tree \in DOMAIN Sources /\ k = MenuTrees[tree]
    /\ \E file \in Configs[tree] :
          disk = [f \in Files |-> CASE f = ".config" -> file
                                    [] f \in {"auto.conf", "autoconf.h"} -> Autos[tree]
                                    [] OTHER -> Missing]
    /\ program = "none" /\ st = NoMemory /\ own = NoMemory /\ asked = Nothing /\ saving = NotSaving
    /\ stamps = {} /\ fresh = FALSE
    /\ built = IF Autos[tree] = Missing THEN <<>> ELSE Autos[tree]
    /\ left = MaxRuns[tree]

Ended == Over /\ st' = NoMemory /\ own' = NoMemory /\ asked' = Nothing
Kill == Stop /\ Ended /\ UNCHANGED <<k, left>>

(* Begin to write a file, with the memory and the lines w; what follows     *)
(* when it is done is in then.                                             *)
WriteLines(w, file, then) ==
    /\ st' = w[1]
    /\ saving' = [step |-> "backup", file |-> file, lines |-> w[2], todo |-> <<>>, then |-> then]
Write(x, file, then) == WriteLines(conf_write(k, x), file, then)

(* The last rename fails, and conf_write returns 1: who was going to leave    *)
(* says so and leaves; the menus go on, see SaveFails of Mconf.            *)
GiveUp ==
    /\ saving.step = "replace" /\ saving.then # "stay"
    /\ Stop /\ Ended /\ UNCHANGED <<k, left>>

(* conf goes on after the message "configuration written to". *)
Message ==
    /\ saving.step = "message" /\ saving.then = "autoconf"
    /\ st' = [st EXCEPT !.changed = FALSE]
    /\ saving' = [NotSaving EXCEPT !.step = "autoconf"]
    /\ UNCHANGED <<tree, k, program, own, asked, disk, stamps, fresh, built, left>>

(* conf_write_autoconf looks at the symbols in the order of the hash table.   *)
MutReadOld == \* symbols that are gone are not touched
    /\ saving.step = "autoconf"
    /\ st' = sym_calc_value(k, ReadAuto(k, sym_clear_all_valid(k, st), disk["auto.conf"]), Modules)
    /\ saving' = [saving EXCEPT !.step = "split", !.todo = order]
    /\ UNCHANGED <<tree, k, program, own, asked, disk, stamps, fresh, built, left>>

ReadOld ==
    /\ saving.step = "autoconf"
    /\ st' = sym_calc_value(k, ReadAuto(k, sym_clear_all_valid(k, st), disk["auto.conf"]), Modules)
    /\ saving' = [saving EXCEPT !.step = "split",
                                 !.todo = order \o SetToSeq(Gone(st, disk["auto.conf"]))]
    /\ UNCHANGED <<tree, k, program, own, asked, disk, stamps, fresh, built, left>>

(* conf_split_config, with the memory x after calculating s. *)
Stamp(x, s) ==
    /\ st' = x
    /\ stamps' = IF s \notin DOMAIN st.sym \/ Touched(k, x, s) THEN stamps \cup {s} ELSE stamps
Split ==
    /\ saving.step = "split" /\ saving.todo # <<>>
    /\ Stamp(sym_calc_value(k, st, Head(saving.todo)), Head(saving.todo))
    /\ saving' = [saving EXCEPT !.todo = Tail(@)]
    /\ UNCHANGED <<tree, k, program, own, asked, disk, fresh, built, left>>

(* All three temporary files are written, a has the memory and the lines    *)
(* then; after that they are renamed.                                      *)
WriteAuto(a) ==
    /\ st' = a[1]
    /\ saving' = [saving EXCEPT !.step = "auto", !.lines = a[2]]
    /\ disk' = [disk EXCEPT !["autoconf.h"] = a[2]]
RenameHeader ==
    /\ saving.step = "split" /\ saving.todo = <<>>
    /\ WriteAuto(AutoLines(k, st, order))
    /\ UNCHANGED <<tree, k, program, own, asked, stamps, fresh, built, left>>

Build == Rebuild /\ UNCHANGED <<k, session, left>>

Upgrade ==
    /\ left > 0
    /\ tree' \in Upgrades[tree] /\ k' = MenuTrees[tree']
    /\ NewVersion
    /\ UNCHANGED <<session, left>>

Saving ==
    \/ (Backup \/ Replace) /\ UNCHANGED <<k, st, own, asked, left>>
    \/ (ReplaceAndExit \/ RenameAuto) /\ Ended /\ UNCHANGED <<k, left>>
    \/ GiveUp \/ Message \/ ReadOld \/ Split \/ RenameHeader
=============================================================================
