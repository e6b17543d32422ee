---------------------------- MODULE ConfigFiles ----------------------------
(***************************************************************************)
(* The files of a configuration, whatever the programs of support/kconfig   *)
(* that read and write them have in memory: .config is saved next to its    *)
(* predecessor, auto.conf and autoconf.h follow it, and stamps tell the     *)
(* build of symbols that have changed.  A program may be killed between any *)
(* two changes of the file system.  Values are what they are here; how the *)
(* programs come to them, and that they keep to FilesSpec, is the matter   *)
(* of KconfigFiles and KconfigSession, which extend this module.           *)
(***************************************************************************)
EXTENDS KconfigTypes, Sequences

CONSTANTS
    Sources,     \* the Kconfig files that are considered: of each, its entries,
                 \* optional choices and allnoconfig_y symbols
    Order        \* the order of its symbols in the hash table

VARIABLES
    tree,        \* the Kconfig files in use
    program,     \* "none", "conf", "mconf", "nconf" or "gconf"
    saving,      \* how far writing has come
    disk,        \* what each file contains
    stamps,      \* the symbols whose stamps are newer than the build
    fresh,       \* whether auto.conf is newer than .config
    built        \* the auto.conf of the last build

files == <<tree, program, saving, disk, stamps, fresh, built>>

Programs == {"conf", "mconf", "nconf", "gconf"}
Configurations == {".config", "other"}
Files == Configurations \cup {".config.old", "other.old", "defconfig", "auto.conf", "autoconf.h"}
OldName(name) == CASE name = ".config" -> ".config.old" [] name = "other" -> "other.old"

NamesIn(entries) == {entries[i].sym : i \in DOMAIN entries} \ {""}
Defined == NamesIn(Sources[tree].nodes)
Strings == {s \in Symbols : TypeOf(s) = "string"}
ASSUME SourcesAssumption == \A t \in DOMAIN Sources : NamesIn(Sources[t].nodes) \subseteq Symbols

LinesOf(symbols) == Seq([sym : symbols, text : STRING])
Elements(seq) == {seq[j] : j \in DOMAIN seq}

(* What a file says of a symbol. *)
TextIn(file, s) ==
    IF file = Missing THEN {} ELSE {file[j].text : j \in {i \in DOMAIN file : file[i].sym = s}}
SaysOther(file, other, s) == TextIn(file, s) # TextIn(other, s)

(* What .config has for auto.conf: what is not off, in the order of the hash  *)
(* table.                                                                  *)
OnLines == {line \in Elements(disk[".config"]) : line.text # Off}
InHashOrder(names, lines) ==
    LET has == SelectSeq(names, LAMBDA s : \E line \in lines : line.sym = s)
    IN  [j \in DOMAIN has |-> CHOOSE line \in lines : line.sym = has[j]]
AutoOfConfig == InHashOrder(Order[tree], OnLines)

NotSaving == [step |-> "none", file |-> "", lines |-> <<>>, todo |-> <<>>, then |-> "stay"]
SavingSteps == {"none", "backup", "replace", "message", "autoconf", "split", "auto", "defconfig"}
Savings == [step : SavingSteps, file : Configurations \cup {""}, lines : LinesOf(Symbols),
            todo : Seq(Symbols), then : {"stay", "exit", "autoconf"}]

FilesTypeOK ==
    /\ tree \in DOMAIN Sources /\ program \in Programs \cup {"none"} /\ fresh \in BOOLEAN
    /\ saving \in Savings
    /\ disk \in [Files -> LinesOf(Symbols) \cup {Missing}]
    /\ stamps \subseteq Symbols
    /\ built \in LinesOf(Symbols) \cup {Missing}

FilesInit ==
    /\ tree \in DOMAIN Sources /\ program = "none" /\ saving = NotSaving
    /\ disk \in [Files -> LinesOf(Symbols) \cup {Missing}]
    /\ stamps = {} /\ fresh = FALSE
    /\ built = IF disk["auto.conf"] = Missing THEN <<>> ELSE disk["auto.conf"]

(* A program starts; it ends by itself or is killed: a write that was under  *)
(* way has happened in part; its temporary file stays behind under a name  *)
(* that is not used again.                                                 *)
Started ==
    /\ program = "none" /\ program' \in Programs
    /\ UNCHANGED <<tree, saving, disk, stamps, fresh, built>>
Over == program' = "none" /\ saving' = NotSaving
Stop ==
    /\ program # "none" /\ Over
    /\ UNCHANGED <<tree, disk, stamps, fresh, built>>

-----------------------------------------------------------------------------
(***************************************************************************)
(* conf_write.  The lines go to a temporary file, the old file is renamed,  *)
(* and the temporary file takes its place.  When that last step fails, the  *)
(* name stays without a file; the user may have it tried again.            *)
(***************************************************************************)
NewLines(step, names) ==
    [step : {step}, file : names, lines : LinesOf(Defined), todo : {<<>>}, then : {"stay", "exit", "autoconf"}]
WriteBegun ==
    /\ program # "none" /\ saving.step \in {"none", "replace", "message"}
    /\ saving' \in NewLines("backup", Configurations)
    /\ UNCHANGED <<tree, program, disk, stamps, fresh, built>>

MutBackup == \* the old file is removed, not kept
    /\ saving.step = "backup"
    /\ disk' = [disk EXCEPT ![saving.file] = Missing]
    /\ saving' = [saving EXCEPT !.step = "replace"]
    /\ UNCHANGED <<tree, program, stamps, fresh, built>>

(* Without an old file this rename fails, which is ignored. *)
Backup ==
    /\ saving.step = "backup"
    /\ disk' = IF disk[saving.file] = Missing THEN disk
               ELSE [disk EXCEPT ![OldName(saving.file)] = disk[saving.file],
                                 ![saving.file] = Missing]
    /\ saving' = [saving EXCEPT !.step = "replace"]
    /\ UNCHANGED <<tree, program, stamps, fresh, built>>

(* A .config that changes is newer than auto.conf. *)
Replaced ==
    /\ saving.step = "replace"
    /\ disk' = [disk EXCEPT ![saving.file] = saving.lines]
    /\ fresh' = (fresh /\ saving.file # ".config")
    /\ UNCHANGED <<tree, stamps, built>>

Replace ==
    /\ Replaced
    /\ saving.then # "exit"
    /\ saving' = [saving EXCEPT !.step = "message"]
    /\ UNCHANGED program

ReplaceAndExit == Replaced /\ saving.then = "exit" /\ Over

(* The temporary file stays what it is, and the program goes on. *)
NotReplaced ==
    /\ saving.step = "replace"
    /\ saving' = NotSaving
    /\ UNCHANGED <<tree, program, disk, stamps, fresh, built>>

(* The file has been saved, or needs not be: that is all, or auto.conf is     *)
(* next.                                                                   *)
Continue ==
    /\ program # "none" /\ saving.step \in {"none", "message"}
    /\ saving' \in {NotSaving, [NotSaving EXCEPT !.step = "autoconf"]}
    /\ UNCHANGED <<tree, program, disk, stamps, fresh, built>>

(* conf_write_defconfig writes in place. *)
Truncated ==
    /\ program # "none" /\ saving.step = "none"
    /\ saving' \in NewLines("defconfig", {""})
    /\ disk' = [disk EXCEPT !["defconfig"] = <<>>]
    /\ UNCHANGED <<tree, program, stamps, fresh, built>>
Filled ==
    /\ saving.step = "defconfig" /\ Over
    /\ disk' = [disk EXCEPT !["defconfig"] = saving.lines]
    /\ UNCHANGED <<tree, stamps, fresh, built>>

-----------------------------------------------------------------------------
(***************************************************************************)
(* conf_write_autoconf: the stamps of all symbols that have changed since   *)
(* auto.conf was written, then autoconf.h, and auto.conf last.             *)
(***************************************************************************)

(* Nothing is read of strings that are no longer in the Kconfig files.       *)
GoneNow == {s \in Symbols \ (Defined \cup Strings) : TextIn(disk["auto.conf"], s) # {}}

(* conf comes here with a .config of the Kconfig files in use. *)
Comparing ==
    /\ saving.step = "autoconf" /\ disk[".config"] # Missing
    /\ AutoOfConfig \in LinesOf(Defined) /\ Elements(AutoOfConfig) = OnLines
    /\ saving' = [NotSaving EXCEPT !.step = "split", !.todo = saving'.todo]
    /\ saving'.todo \in Seq(Symbols) /\ Elements(saving'.todo) = Defined \cup GoneNow
    /\ UNCHANGED <<tree, program, disk, stamps, fresh, built>>

Stamped ==
    /\ saving.step = "split" /\ saving.todo # <<>>
    /\ stamps' = IF SaysOther(AutoOfConfig, disk["auto.conf"], Head(saving.todo))
                 THEN stamps \cup {Head(saving.todo)} ELSE stamps
    /\ saving' = [saving EXCEPT !.todo = Tail(@)]
    /\ UNCHANGED <<tree, program, disk, fresh, built>>

HeaderReplaced ==
    /\ saving.step = "split" /\ saving.todo = <<>>
    /\ disk' = [disk EXCEPT !["autoconf.h"] = AutoOfConfig]
    /\ saving' = [saving EXCEPT !.step = "auto", !.lines = AutoOfConfig]
    /\ UNCHANGED <<tree, program, stamps, fresh, built>>

RenameAuto ==
    /\ saving.step = "auto" /\ Over
    /\ disk' = [disk EXCEPT !["auto.conf"] = saving.lines]
    /\ fresh' = TRUE
    /\ UNCHANGED <<tree, stamps, built>>

(* External: make goes on when auto.conf is newer than .config, and makes   *)
(* again what depends on a stamp that is newer than the last time.         *)
Rebuild ==
    /\ program = "none" /\ fresh /\ disk[".config"] # Missing
    /\ built # disk["auto.conf"] \/ stamps # {}
    /\ built' = disk["auto.conf"] /\ stamps' = {}
    /\ UNCHANGED <<tree, program, saving, disk, fresh>>

(* External: the Kconfig files change; make regenerates auto.conf then. *)
NewVersion ==
    /\ program = "none" /\ tree' \in DOMAIN Sources /\ fresh' = FALSE
    /\ UNCHANGED <<program, saving, disk, stamps, built>>

FilesNext ==
    \/ Started \/ Stop \/ WriteBegun \/ Backup \/ Replace \/ ReplaceAndExit \/ NotReplaced \/ Continue
    \/ Truncated \/ Filled \/ Comparing \/ Stamped \/ HeaderReplaced \/ RenameAuto \/ Rebuild \/ NewVersion

FilesSpec == FilesInit /\ [][FilesNext]_files

-----------------------------------------------------------------------------
(* confdata.c 828-833: a configuration only goes when it gets its other      *)
(* name, so that the last one is not lost wherever a program is killed.    *)
NothingLost ==
    [][\A f \in Configurations : disk[f] # Missing /\ disk'[f] # disk[f] =>
          disk'[OldName(f)] = disk[f]]_files

(* confdata.c 843-969: all symbols that are to change for the build have new  *)
(* stamps before auto.conf is replaced.  Not those of strings that the     *)
(* Kconfig files no longer have, whose values are not read.                *)
ChangesStamped ==
    saving.step = "auto" => \A s \in Symbols :
        SaysOther(saving.lines, disk["auto.conf"], s) =>
            s \in stamps \/ (s \in Strings /\ s \notin Defined)

(* When auto.conf is up to date, the symbols that have another value than    *)
(* the last build saw have new stamps, wherever syncconfig was killed and  *)
(* however often it was run; all but strings that are not set any more.    *)
StampsTell ==
    program = "none" /\ fresh => \A s \in Symbols :
        SaysOther(disk["auto.conf"], built, s) =>
            s \in stamps \/ (s \in Strings /\ TextIn(disk["auto.conf"], s) = {})

(* confdata.c 971-1060: auto.conf, autoconf.h and .config agree when          *)
(* auto.conf is newer than .config.                                        *)
AutoIsConfig ==
    program = "none" /\ fresh /\ disk[".config"] # Missing =>
        /\ disk["autoconf.h"] = disk["auto.conf"]
        /\ Elements(disk["auto.conf"]) = OnLines

(* What a build finds is the configuration, and all that differs from what  *)
(* the last one found is touched.                                          *)
BuildIsCurrent == ChangesStamped /\ StampsTell /\ AutoIsConfig

-----------------------------------------------------------------------------
(***************************************************************************)
(* The inductive invariant.                                                *)
(***************************************************************************)

(* Nothing is being saved when no program runs; a file has lost its name      *)
(* before another one gets it; what is going to be auto.conf is .config.   *)
SavingInv ==
    /\ program = "none" => saving = NotSaving
    /\ saving.step \in {"backup", "replace", "message"} => saving.file \in Configurations
    /\ saving.step = "replace" => disk[saving.file] = Missing
    /\ saving.step \in {"split", "auto"} =>
          /\ disk[".config"] # Missing
          /\ AutoOfConfig \in LinesOf(Defined) /\ Elements(AutoOfConfig) = OnLines
    /\ saving.step = "auto" => saving.lines = AutoOfConfig /\ disk["autoconf.h"] = saving.lines

(* What is no longer to be compared has been stamped if it is to change.     *)
ComparedInv ==
    saving.step \in {"split", "auto"} => \A s \in Symbols :
        SaysOther(AutoOfConfig, disk["auto.conf"], s) =>
            \/ s \in stamps
            \/ s \in Strings /\ s \notin Defined
            \/ saving.step = "split" /\ s \in Elements(saving.todo)

(* What was stamped is stamped until the next build. *)
StampedInv ==
    \A s \in Symbols : SaysOther(disk["auto.conf"], built, s) =>
        s \in stamps \/ (s \in Strings /\ TextIn(disk["auto.conf"], s) = {})

(* While auto.conf is newer than .config, writing it again changes nothing. *)
FreshInv ==
    fresh =>
        /\ disk["autoconf.h"] = disk["auto.conf"]
        /\ disk[".config"] # Missing =>
              disk["auto.conf"] = AutoOfConfig /\ Elements(disk["auto.conf"]) = OnLines

FilesInv == FilesTypeOK /\ SavingInv /\ ComparedInv /\ StampedInv /\ FreshInv
=============================================================================
