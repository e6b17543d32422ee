-------------------------- MODULE KconfigProofs --------------------------
(***************************************************************************)
(* Proofs about ConfigFiles and Conditions, for all symbols, all versions   *)
(* of the Kconfig files, and whatever files there are at first.            *)
(***************************************************************************)
EXTENDS ConfigFiles, Conditions, SequenceTheorems, TLAPS

(***************************************************************************)
(* Types.                                                                  *)
(***************************************************************************)

LEMMA OldNames ==
    ASSUME NEW f \in Configurations
    PROVE  OldName(f) \in {".config.old", "other.old"} /\ f \in Files /\ OldName(f) \in Files
  BY DEF Configurations, OldName, Files

(* What is written of the Kconfig files in use is written of some. *)
LEMMA LinesType ==
    ASSUME tree \in DOMAIN Sources, NEW lines \in LinesOf(Defined)
    PROVE  lines \in LinesOf(Symbols)
  <1>1. Defined \subseteq Symbols
    BY SourcesAssumption DEF Defined
  <1>2. [sym : Defined, text : STRING] \subseteq [sym : Symbols, text : STRING]
    BY <1>1
  <1>3. lines \in Seq([sym : Defined, text : STRING])
    BY DEF LinesOf
  <1>4. lines \in Seq([sym : Symbols, text : STRING])
    <2> DEFINE S == [sym : Defined, text : STRING]
               T == [sym : Symbols, text : STRING]
    <2>1. S \subseteq T /\ lines \in Seq(S)
      BY <1>2, <1>3
    <2> HIDE DEF S, T
    <2>2. lines \in Seq(T)
      BY <2>1, SeqMonotonic
    <2> QED  BY <2>2 DEF T
  <1> QED  BY <1>4 DEF LinesOf

LEMMA EmptyFile == <<>> \in LinesOf(Symbols)
  BY DEF LinesOf

LEMMA NotSavingType == NotSaving \in Savings
  BY EmptyFile DEF NotSaving, Savings, SavingSteps

(* A record of what is being saved stays one. *)
LEMMA SavingsExcept ==
    ASSUME NEW r \in Savings
    PROVE  /\ r.step \in SavingSteps /\ r.file \in Configurations \cup {""} /\ r.lines \in LinesOf(Symbols)
           /\ r.todo \in Seq(Symbols) /\ r.then \in {"stay", "exit", "autoconf"}
           /\ \A x \in SavingSteps : [r EXCEPT !.step = x] \in Savings /\ [r EXCEPT !.step = x].step = x
           /\ \A x \in Seq(Symbols) : [r EXCEPT !.todo = x] \in Savings
           /\ \A x \in SavingSteps, y \in LinesOf(Symbols) : [r EXCEPT !.step = x, !.lines = y] \in Savings
           /\ \A x \in SavingSteps, y \in Seq(Symbols) : [r EXCEPT !.step = x, !.todo = y] \in Savings
  BY DEF Savings

LEMMA NewLinesType ==
    ASSUME tree \in DOMAIN Sources, NEW step \in SavingSteps,
           NEW names \in SUBSET (Configurations \cup {""}), NEW r \in NewLines(step, names)
    PROVE  r \in Savings /\ r.step = step /\ r.file \in names
  <1>1. /\ r.step = step /\ r.file \in names /\ r.lines \in LinesOf(Defined) /\ r.todo = <<>>
        /\ r = [step |-> r.step, file |-> r.file, lines |-> r.lines, todo |-> r.todo, then |-> r.then]
        /\ r.then \in {"stay", "exit", "autoconf"}
    BY DEF NewLines
  <1>2. r.lines \in LinesOf(Symbols)
    BY <1>1, LinesType
  <1>3. <<>> \in Seq(Symbols)
    BY EmptySeq
  <1> QED  BY <1>1, <1>2, <1>3 DEF Savings

LEMMA TypeInit == FilesInit => FilesTypeOK
  <1> SUFFICES ASSUME FilesInit PROVE FilesTypeOK
    OBVIOUS
  <1>1. saving \in Savings /\ disk["auto.conf"] \in LinesOf(Symbols) \cup {Missing}
    BY NotSavingType DEF FilesInit, Files
  <1>2. built \in LinesOf(Symbols) \cup {Missing}
    BY <1>1, EmptyFile DEF FilesInit
  <1> QED  BY <1>1, <1>2 DEF FilesInit, FilesTypeOK

LEMMA TypeStep == FilesTypeOK /\ SavingInv /\ [FilesNext]_files => FilesTypeOK'
  <1> SUFFICES ASSUME FilesTypeOK, SavingInv, [FilesNext]_files PROVE FilesTypeOK'
    OBVIOUS
  <1> DEFINE Lines == LinesOf(Symbols)
             Contents == LinesOf(Symbols) \cup {Missing}
  <1>t. /\ tree \in DOMAIN Sources /\ program \in Programs \cup {"none"} /\ fresh \in BOOLEAN
        /\ saving \in Savings /\ disk \in [Files -> Contents] /\ stamps \subseteq Symbols /\ built \in Contents
    BY DEF FilesTypeOK
  <1>f. saving.lines \in Lines /\ saving.todo \in Seq(Symbols)
    BY <1>t, SavingsExcept
  <1>e. <<>> \in Lines /\ NotSaving \in Savings
    BY EmptyFile, NotSavingType
  <1>w. SUFFICES /\ tree' \in DOMAIN Sources /\ program' \in Programs \cup {"none"} /\ fresh' \in BOOLEAN
                 /\ saving' \in Savings /\ disk' \in [Files -> Contents] /\ stamps' \subseteq Symbols
                 /\ built' \in Contents
    BY DEF FilesTypeOK
  <1>n. ".config" \in Files /\ "auto.conf" \in Files /\ "autoconf.h" \in Files /\ "defconfig" \in Files
    BY DEF Files, Configurations
  <1>a. tree \in DOMAIN Sources /\ AutoOfConfig \in LinesOf(Defined) => AutoOfConfig \in Lines
    BY LinesType
  <1> HIDE DEF Lines, Contents
  <1>c. /\ Missing \in Contents
        /\ \A x \in Lines : x \in Contents
        /\ \A g \in Files, x \in Contents : [disk EXCEPT ![g] = x] \in [Files -> Contents]
    BY <1>t DEF Lines, Contents
  <1>s. /\ {"none", "backup", "replace", "message", "autoconf", "split", "auto", "defconfig"} = SavingSteps
        /\ \A x \in SavingSteps : [saving EXCEPT !.step = x] \in Savings /\ [NotSaving EXCEPT !.step = x] \in Savings
    <2>1. \A x \in SavingSteps : [saving EXCEPT !.step = x] \in Savings
      BY <1>t, SavingsExcept
    <2>2. \A x \in SavingSteps : [NotSaving EXCEPT !.step = x] \in Savings
      BY <1>e, SavingsExcept
    <2> QED  BY <2>1, <2>2 DEF SavingSteps
  <1>1. CASE Started
    BY <1>1, <1>t DEF Started
  <1>2. CASE Stop \/ NotReplaced
    BY <1>2, <1>t, <1>e DEF Stop, NotReplaced, Over
  <1>3. CASE WriteBegun
    <2>1. saving' \in NewLines("backup", Configurations) /\ "backup" \in SavingSteps
      BY <1>3, <1>s DEF WriteBegun
    <2>2. Configurations \in SUBSET (Configurations \cup {""})
      OBVIOUS
    <2>3. saving' \in Savings
      BY <2>1, <2>2, <1>t, NewLinesType
    <2> QED  BY <1>3, <2>3, <1>t DEF WriteBegun
  <1>4. CASE Backup
    <2>1. saving' \in Savings
      BY <1>4, <1>s DEF Backup
    <2>2. saving.file \in Configurations
      BY <1>4 DEF Backup, SavingInv
    <2>3. saving.file \in Files /\ OldName(saving.file) \in Files /\ disk[saving.file] \in Contents
      BY <2>2, <1>t, OldNames
    <2>4. [disk EXCEPT ![OldName(saving.file)] = disk[saving.file], ![saving.file] = Missing] \in [Files -> Contents]
      <3> DEFINE kept == [disk EXCEPT ![OldName(saving.file)] = disk[saving.file]]
      <3>1. kept \in [Files -> Contents]
        BY <2>3, <1>t, <1>c
      <3> HIDE DEF kept
      <3>2. [kept EXCEPT ![saving.file] = Missing] \in [Files -> Contents]
        BY <1>c, <2>3, <3>1
      <3> QED  BY <3>2 DEF kept
    <2>5. disk' \in [Files -> Contents]
      BY <1>4, <2>4, <1>t DEF Backup
    <2> QED  BY <1>4, <2>1, <2>5, <1>t DEF Backup
  <1>5. CASE Replaced /\ (Replace \/ ReplaceAndExit)
    <2>1. saving.file \in Files
      BY <1>5, OldNames DEF Replaced, SavingInv
    <2>2. disk' \in [Files -> Contents]
      BY <1>5, <2>1, <1>c, <1>f DEF Replaced
    <2>3. saving' \in Savings /\ program' \in Programs \cup {"none"}
      BY <1>5, <1>s, <1>e, <1>t DEF Replace, ReplaceAndExit, Over
    <2>4. tree' \in DOMAIN Sources /\ fresh' \in BOOLEAN /\ stamps' \subseteq Symbols /\ built' \in Contents
      BY <1>5, <1>t DEF Replaced
    <2> QED  BY <2>2, <2>3, <2>4
  <1>6. CASE Continue
    <2>1. saving' \in Savings
      BY <1>6, <1>s, <1>e DEF Continue
    <2> QED  BY <1>6, <2>1, <1>t DEF Continue
  <1>7. CASE Truncated
    <2>1. saving' \in NewLines("defconfig", {""}) /\ "defconfig" \in SavingSteps
      BY <1>7, <1>s DEF Truncated
    <2>2. {""} \in SUBSET (Configurations \cup {""})
      OBVIOUS
    <2>3. saving' \in Savings
      BY <2>1, <2>2, <1>t, NewLinesType
    <2>4. disk' \in [Files -> Contents]
      BY <1>7, <1>c, <1>e, <1>n DEF Truncated
    <2> QED  BY <1>7, <2>3, <2>4, <1>t DEF Truncated
  <1>8. CASE Filled
    <2>1. disk' \in [Files -> Contents]
      BY <1>8, <1>c, <1>f, <1>n DEF Filled
    <2> QED  BY <1>8, <2>1, <1>t, <1>e DEF Filled, Over
  <1>9. CASE Comparing
    <2>1. saving' = [NotSaving EXCEPT !.step = "split", !.todo = saving'.todo] /\ saving'.todo \in Seq(Symbols)
      BY <1>9 DEF Comparing
    <2>2. "split" \in SavingSteps
      BY <1>s
    <2>3. \A y \in Seq(Symbols) : [NotSaving EXCEPT !.step = "split", !.todo = y] \in Savings
      BY <2>2, <1>e, SavingsExcept
    <2>4. saving' \in Savings
      BY <2>1, <2>3
    <2> QED  BY <1>9, <2>4, <1>t DEF Comparing
  <1>10. CASE Stamped
    <2>1. Head(saving.todo) \in Symbols /\ Tail(saving.todo) \in Seq(Symbols)
      BY <1>10, <1>f, HeadTailProperties DEF Stamped
    <2>2. saving' \in Savings
      BY <1>10, <2>1, <1>t, SavingsExcept DEF Stamped
    <2>3. stamps' \subseteq Symbols
      BY <1>10, <2>1, <1>t DEF Stamped
    <2> QED  BY <1>10, <2>2, <2>3, <1>t DEF Stamped
  <1>11. CASE HeaderReplaced
    <2>1. AutoOfConfig \in Lines /\ "auto" \in SavingSteps
      BY <1>11, <1>t, <1>a, <1>s DEF HeaderReplaced, SavingInv
    <2>2. saving' \in Savings
      BY <1>11, <2>1, <1>t, SavingsExcept DEF HeaderReplaced, Lines
    <2>3. disk' \in [Files -> Contents]
      BY <1>11, <2>1, <1>c, <1>n DEF HeaderReplaced
    <2> QED  BY <1>11, <2>2, <2>3, <1>t DEF HeaderReplaced
  <1>12. CASE RenameAuto
    <2>1. disk' \in [Files -> Contents] /\ saving' \in Savings
      BY <1>12, <1>c, <1>f, <1>n, <1>e DEF RenameAuto, Over
    <2> QED  BY <1>12, <2>1, <1>t DEF RenameAuto, Over
  <1>13. CASE Rebuild
    BY <1>13, <1>t, <1>n DEF Rebuild
  <1>14. CASE NewVersion
    BY <1>14, <1>t DEF NewVersion
  <1>15. CASE UNCHANGED files
    BY <1>15, <1>t DEF files
  <1>16. (Replace \/ ReplaceAndExit) => Replaced
    BY DEF Replace, ReplaceAndExit
  <1> QED
    BY <1>1, <1>2, <1>3, <1>4, <1>5, <1>6, <1>7, <1>8, <1>9, <1>10, <1>11, <1>12, <1>13, <1>14, <1>15, <1>16 DEF FilesNext

(***************************************************************************)
(* Which file a step touches.                                              *)
(***************************************************************************)
LEMMA BackupDisk ==
    ASSUME FilesTypeOK, SavingInv, Backup
    PROVE  /\ saving.file \in Configurations
           /\ disk'[saving.file] = Missing
           /\ disk[saving.file] # Missing => disk'[OldName(saving.file)] = disk[saving.file]
           /\ \A f \in Files : f \notin {saving.file, OldName(saving.file)} => disk'[f] = disk[f]
  <1>1. saving.file \in Configurations
    BY DEF Backup, SavingInv
  <1>2. DOMAIN disk = Files
    BY DEF FilesTypeOK
  <1>3. CASE disk[saving.file] = Missing
    BY <1>1, <1>2, <1>3 DEF Backup
  <1>4. CASE disk[saving.file] # Missing
    <2>1. disk' = [disk EXCEPT ![OldName(saving.file)] = disk[saving.file], ![saving.file] = Missing]
      BY <1>4 DEF Backup
    <2>2. OldName(saving.file) # saving.file /\ saving.file \in Files /\ OldName(saving.file) \in Files
      BY <1>1, OldNames DEF Configurations
    <2> QED  BY <1>1, <1>2, <2>1, <2>2
  <1> QED  BY <1>3, <1>4

LEMMA ReplacedDisk ==
    ASSUME FilesTypeOK, SavingInv, Replaced
    PROVE  /\ saving.file \in Configurations
           /\ disk[saving.file] = Missing
           /\ \A f \in Files : f # saving.file => disk'[f] = disk[f]
  <1>1. saving.file \in Configurations /\ disk[saving.file] = Missing
    BY DEF Replaced, SavingInv
  <1>2. DOMAIN disk = Files
    BY DEF FilesTypeOK
  <1> QED  BY <1>1, <1>2 DEF Replaced

(* The steps that leave all files as they are, and the parts of a step. *)
LEMMA OtherSteps ==
    ASSUME [FilesNext]_files
    PROVE  \/ Backup \/ Replaced \/ Truncated \/ Filled \/ HeaderReplaced \/ RenameAuto
           \/ disk' = disk
  BY DEF FilesNext, files, Started, Stop, WriteBegun, Replace, ReplaceAndExit, NotReplaced, Continue, Comparing,
         Stamped, Rebuild, NewVersion

(* auto.conf, autoconf.h and .config have one writer each. *)
LEMMA Writers ==
    ASSUME FilesTypeOK, SavingInv, [FilesNext]_files
    PROVE  /\ disk'["auto.conf"] = disk["auto.conf"] \/ RenameAuto
           /\ disk'["autoconf.h"] = disk["autoconf.h"] \/ HeaderReplaced
           /\ disk'[".config"] = disk[".config"] \/ (saving.file = ".config" /\ (Backup \/ Replaced))
  <1>n. ".config" \in Files /\ "auto.conf" \in Files /\ "autoconf.h" \in Files
    BY DEF Files, Configurations
  <1>d. DOMAIN disk = Files
    BY DEF FilesTypeOK
  <1>1. CASE Backup
    <2>1. OldName(saving.file) \in {".config.old", "other.old"} /\ saving.file \in {".config", "other"}
      BY <1>1, BackupDisk, OldNames DEF Configurations
    <2> QED  BY <1>1, <1>n, <2>1, BackupDisk
  <1>2. CASE Replaced
    <2>1. saving.file \in {".config", "other"}
      BY <1>2, ReplacedDisk DEF Configurations
    <2> QED  BY <1>2, <1>n, <2>1, ReplacedDisk
  <1>3. CASE Truncated \/ Filled
    <2>1. \E x : disk' = [disk EXCEPT !["defconfig"] = x]
      BY <1>3 DEF Truncated, Filled
    <2> QED  BY <1>n, <1>d, <2>1
  <1>4. CASE HeaderReplaced
    BY <1>4, <1>n, <1>d DEF HeaderReplaced
  <1>5. CASE RenameAuto
    BY <1>5, <1>n, <1>d DEF RenameAuto
  <1> QED  BY <1>1, <1>2, <1>3, <1>4, <1>5, OtherSteps

(* A configuration whose contents change is one that is renamed, or had      *)
(* none.                                                                   *)
LEMMA LossStep ==
    ASSUME FilesTypeOK, SavingInv, [FilesNext]_files, NEW f \in Configurations,
           disk[f] # Missing, disk'[f] # disk[f]
    PROVE  disk'[OldName(f)] = disk[f]
  <1>f. f \in Files /\ f \notin {"defconfig", "autoconf.h", "auto.conf", ".config.old", "other.old"}
    BY OldNames DEF Configurations
  <1>d. DOMAIN disk = Files
    BY DEF FilesTypeOK
  <1>1. CASE Backup
    <2>1. f = saving.file
      BY <1>1, <1>f, BackupDisk, OldNames
    <2> QED  BY <1>1, <2>1, BackupDisk
  <1>2. CASE Replaced
    BY <1>2, <1>f, ReplacedDisk
  <1>3. CASE Truncated \/ Filled \/ HeaderReplaced \/ RenameAuto
    <2>1. \E x : \/ disk' = [disk EXCEPT !["defconfig"] = x]
                 \/ disk' = [disk EXCEPT !["autoconf.h"] = x]
                 \/ disk' = [disk EXCEPT !["auto.conf"] = x]
      BY <1>3 DEF Truncated, Filled, HeaderReplaced, RenameAuto
    <2> QED  BY <1>f, <1>d, <2>1
  <1> QED  BY <1>1, <1>2, <1>3, OtherSteps

(***************************************************************************)
(* The inductive invariant, part by part.                                  *)
(***************************************************************************)

(* What is going to be auto.conf depends on .config and the Kconfig files. *)
LEMMA SameAuto ==
    ASSUME tree' = tree, disk'[".config"] = disk[".config"]
    PROVE  /\ OnLines' = OnLines /\ AutoOfConfig' = AutoOfConfig /\ Defined' = Defined
           /\ AutoOfConfig \in LinesOf(Defined) => AutoOfConfig' \in LinesOf(Defined')
  <1>1. OnLines' = OnLines
    BY DEF OnLines, Elements
  <1>2. Defined' = Defined
    BY DEF Defined
  <1>3. AutoOfConfig' = AutoOfConfig
    BY <1>1 DEF AutoOfConfig
  <1> QED  BY <1>1, <1>2, <1>3

LEMMA NothingSaved == NotSaving.step = "none" /\ [NotSaving EXCEPT !.step = "split"].step = "split"
  BY DEF NotSaving

(* What is being saved, as far as the invariant speaks of it. *)
LEMMA SavingNow ==
    ASSUME FilesTypeOK, SavingInv
    PROVE  /\ saving \in Savings
           /\ saving.step # "none" => program # "none"
  BY NothingSaved DEF FilesTypeOK, SavingInv

LEMMA SavingStep == FilesTypeOK /\ SavingInv /\ [FilesNext]_files => SavingInv'
  <1> SUFFICES ASSUME FilesTypeOK, SavingInv, [FilesNext]_files PROVE SavingInv'
    OBVIOUS
  <1>n. NotSaving.step = "none"
    BY NothingSaved
  <1>t. saving \in Savings /\ (saving.step # "none" => program # "none")
    BY SavingNow
  <1>s. /\ saving' = [saving EXCEPT !.step = "replace"] => saving'.step = "replace" /\ saving'.file = saving.file
        /\ saving' = [saving EXCEPT !.step = "message"] => saving'.step = "message" /\ saving'.file = saving.file
        /\ saving' = [saving EXCEPT !.step = "auto", !.lines = AutoOfConfig] =>
              saving'.step = "auto" /\ saving'.lines = AutoOfConfig
        /\ saving' = [saving EXCEPT !.todo = Tail(@)] => saving'.step = saving.step
    BY <1>t DEF Savings
  <1>e. ASSUME saving' = NotSaving PROVE SavingInv'
    BY <1>e, <1>n DEF SavingInv
  <1>1. CASE Started
    BY <1>1, <1>e DEF Started, SavingInv
  <1>2. CASE Stop \/ Filled \/ RenameAuto \/ ReplaceAndExit \/ NotReplaced
    BY <1>2, <1>e DEF Stop, Filled, RenameAuto, ReplaceAndExit, NotReplaced, Over
  <1>3. CASE WriteBegun
    <2>1. saving'.step = "backup" /\ saving'.file \in Configurations /\ program' # "none"
      BY <1>3 DEF WriteBegun, NewLines
    <2> QED  BY <2>1 DEF SavingInv
  <1>4. CASE Truncated
    <2>1. saving'.step = "defconfig" /\ program' # "none"
      BY <1>4 DEF Truncated, NewLines
    <2> QED  BY <2>1 DEF SavingInv
  <1>5. CASE Backup
    <2>1. saving'.step = "replace" /\ saving'.file = saving.file /\ program' # "none"
      BY <1>5, <1>t, <1>s DEF Backup
    <2> QED  BY <1>5, <2>1, BackupDisk DEF SavingInv
  <1>6. CASE Replace
    <2>1. saving'.step = "message" /\ saving'.file = saving.file /\ program' # "none"
      BY <1>6, <1>t, <1>s DEF Replace, Replaced
    <2>2. saving.file \in Configurations
      BY <1>6, ReplacedDisk DEF Replace
    <2> QED  BY <2>1, <2>2 DEF SavingInv
  <1>7. CASE Continue
    <2>1. NotSaving.step = "none" /\ [NotSaving EXCEPT !.step = "autoconf"].step = "autoconf"
      BY DEF NotSaving
    <2>2. saving'.step \in {"none", "autoconf"} /\ program' # "none"
      BY <1>7, <2>1 DEF Continue
    <2> QED  BY <2>2 DEF SavingInv
  <1>8. CASE Comparing
    <2>1. saving'.step = "split" /\ program' # "none"
      <3>1. \A x : [NotSaving EXCEPT !.step = "split", !.todo = x].step = "split"
        BY DEF NotSaving
      <3>2. saving'.step = "split"
        BY <1>8, <3>1 DEF Comparing
      <3> QED  BY <1>8, <1>t, <3>2 DEF Comparing
    <2>2. tree' = tree /\ disk' = disk /\ disk[".config"] # Missing
      BY <1>8 DEF Comparing
    <2>3. AutoOfConfig' \in LinesOf(Defined') /\ Elements(AutoOfConfig') = OnLines'
      BY <1>8, <2>2, SameAuto DEF Comparing
    <2> QED  BY <2>1, <2>2, <2>3 DEF SavingInv
  <1>9. CASE Stamped
    <2>1. saving'.step = "split" /\ saving.step = "split" /\ program' # "none"
      BY <1>9, <1>t, <1>s DEF Stamped
    <2>2. tree' = tree /\ disk' = disk
      BY <1>9 DEF Stamped
    <2>3. AutoOfConfig' \in LinesOf(Defined') /\ Elements(AutoOfConfig') = OnLines' /\ disk'[".config"] # Missing
      BY <2>1, <2>2, SameAuto DEF SavingInv
    <2> QED  BY <2>1, <2>3 DEF SavingInv
  <1>10. CASE HeaderReplaced
    <2>1. saving'.step = "auto" /\ saving'.lines = AutoOfConfig /\ saving.step = "split" /\ program' # "none"
      BY <1>10, <1>t, <1>s DEF HeaderReplaced
    <2>2. tree' = tree /\ disk'[".config"] = disk[".config"] /\ disk'["autoconf.h"] = AutoOfConfig
      BY <1>10 DEF HeaderReplaced, FilesTypeOK, Files
    <2>3. AutoOfConfig' \in LinesOf(Defined') /\ Elements(AutoOfConfig') = OnLines' /\ disk'[".config"] # Missing
      BY <2>1, <2>2, SameAuto DEF SavingInv
    <2>4. AutoOfConfig' = AutoOfConfig
      BY <2>2, SameAuto
    <2> QED  BY <2>1, <2>2, <2>3, <2>4 DEF SavingInv
  <1>11. CASE Rebuild \/ NewVersion
    BY <1>11, <1>e DEF Rebuild, NewVersion, SavingInv
  <1>12. CASE UNCHANGED files
    <2>1. tree' = tree /\ disk' = disk /\ saving' = saving /\ program' = program
      BY <1>12 DEF files
    <2>2. OnLines' = OnLines /\ AutoOfConfig' = AutoOfConfig /\ Defined' = Defined
      BY <2>1, SameAuto
    <2> QED  BY <2>1, <2>2 DEF SavingInv
  <1> QED
    BY <1>1, <1>2, <1>3, <1>4, <1>5, <1>6, <1>7, <1>8, <1>9, <1>10, <1>11, <1>12 DEF FilesNext

(* What a file of the Kconfig files in use says of other symbols: nothing.   *)
LEMMA NotListed ==
    ASSUME NEW symbols, NEW lines \in LinesOf(symbols), NEW s, s \notin symbols
    PROVE  TextIn(lines, s) = {}
  <1>1. \A i \in DOMAIN lines : lines[i] \in [sym : symbols, text : STRING]
    BY ElementOfSeq, LenProperties DEF LinesOf
  <1>2. \A i \in DOMAIN lines : lines[i].sym # s
    BY <1>1
  <1> QED  BY <1>2 DEF TextIn

(* A symbol of a sequence is its first or in its rest. *)
LEMMA HeadOrTail ==
    ASSUME NEW S, NEW q \in Seq(S), q # <<>>, NEW s \in Elements(q)
    PROVE  s = Head(q) \/ s \in Elements(Tail(q))
  <1>1. PICK j \in DOMAIN q : s = q[j]
    BY DEF Elements
  <1>2. /\ Head(q) = q[1] /\ DOMAIN q = 1 .. Len(q) /\ Tail(q) \in Seq(S)
        /\ Len(Tail(q)) = Len(q) - 1 /\ \A i \in 1 .. Len(Tail(q)) : Tail(q)[i] = q[i + 1]
    BY HeadTailProperties, LenProperties
  <1>3. CASE j = 1
    BY <1>1, <1>2, <1>3
  <1>4. CASE j # 1
    <2>1. j - 1 \in 1 .. Len(Tail(q)) /\ (j - 1) + 1 = j
      BY <1>2, <1>4, LenProperties
    <2>2. Tail(q)[j - 1] = s /\ DOMAIN Tail(q) = 1 .. Len(Tail(q))
      BY <1>1, <1>2, <2>1, LenProperties
    <2> QED  BY <2>1, <2>2 DEF Elements
  <1> QED  BY <1>3, <1>4

LEMMA ComparedStep == FilesTypeOK /\ SavingInv /\ ComparedInv /\ [FilesNext]_files => ComparedInv'
  <1> SUFFICES ASSUME FilesTypeOK, SavingInv, ComparedInv, [FilesNext]_files PROVE ComparedInv'
    OBVIOUS
  <1>t. saving \in Savings
    BY SavingNow
  <1>e. ASSUME saving'.step \notin {"split", "auto"} PROVE ComparedInv'
    BY <1>e DEF ComparedInv
  <1>o. ASSUME NEW a, NEW b, NEW s PROVE SaysOther(a, b, s) <=> TextIn(a, s) # TextIn(b, s)
    BY DEF SaysOther
  <1>1. CASE Comparing
    <2>1. /\ \A x : [NotSaving EXCEPT !.step = "split", !.todo = x].step = "split"
          /\ Elements(saving'.todo) = Defined \cup GoneNow /\ AutoOfConfig \in LinesOf(Defined)
      BY <1>1 DEF Comparing, NotSaving
    <2>2. saving'.step = "split" /\ disk' = disk /\ tree' = tree /\ AutoOfConfig' = AutoOfConfig /\ Defined' = Defined
      BY <1>1, <2>1, SameAuto DEF Comparing
    <2>3. ASSUME NEW s \in Symbols, SaysOther(AutoOfConfig, disk["auto.conf"], s)
          PROVE  (s \in Strings /\ s \notin Defined) \/ s \in Elements(saving'.todo)
      <3>1. CASE s \in Defined \cup Strings
        BY <2>1, <3>1
      <3>2. CASE s \notin Defined \cup Strings
        <4>1. TextIn(AutoOfConfig, s) = {}
          BY <2>1, <3>2, NotListed
        <4>2. s \in GoneNow
          BY <2>3, <3>2, <4>1 DEF SaysOther, GoneNow
        <4> QED  BY <2>1, <4>2
      <3> QED  BY <3>1, <3>2
    <2> QED  BY <2>2, <2>3 DEF ComparedInv
  <1>2. CASE Stamped
    <2>1. /\ saving.step = "split" /\ saving.todo # <<>> /\ disk' = disk /\ tree' = tree
          /\ AutoOfConfig' = AutoOfConfig /\ Defined' = Defined
      BY <1>2, SameAuto DEF Stamped
    <2>2. saving'.step = "split" /\ saving'.todo = Tail(saving.todo) /\ saving.todo \in Seq(Symbols)
      BY <1>2, <1>t, <2>1 DEF Stamped, Savings
    <2>3. stamps' = IF SaysOther(AutoOfConfig, disk["auto.conf"], Head(saving.todo))
                    THEN stamps \cup {Head(saving.todo)} ELSE stamps
      BY <1>2 DEF Stamped
    <2>4. ASSUME NEW s \in Symbols, SaysOther(AutoOfConfig, disk["auto.conf"], s)
          PROVE  s \in stamps' \/ (s \in Strings /\ s \notin Defined) \/ s \in Elements(saving'.todo)
      <3>1. s \in stamps \/ (s \in Strings /\ s \notin Defined) \/ s \in Elements(saving.todo)
        BY <2>1, <2>4 DEF ComparedInv
      <3>2. s \in Elements(saving.todo) => s = Head(saving.todo) \/ s \in Elements(saving'.todo)
        BY <2>1, <2>2, HeadOrTail
      <3> QED  BY <2>3, <2>4, <3>1, <3>2
    <2> QED  BY <2>1, <2>2, <2>4 DEF ComparedInv
  <1>3. CASE HeaderReplaced
    <2>1. saving.step = "split" /\ saving.todo = <<>> /\ saving'.step = "auto"
      BY <1>3, <1>t DEF HeaderReplaced, Savings
    <2>2. stamps' = stamps /\ tree' = tree /\ Elements(<<>>) = {}
      BY <1>3 DEF HeaderReplaced, Elements
    <2>3. disk'["auto.conf"] = disk["auto.conf"] /\ disk'[".config"] = disk[".config"]
      BY <1>3 DEF HeaderReplaced, FilesTypeOK, Files
    <2>4. AutoOfConfig' = AutoOfConfig /\ Defined' = Defined
      BY <2>2, <2>3, SameAuto
    <2>5. ASSUME NEW s \in Symbols, SaysOther(AutoOfConfig, disk["auto.conf"], s)
          PROVE  s \in stamps \/ (s \in Strings /\ s \notin Defined)
      BY <2>1, <2>2, <2>5 DEF ComparedInv
    <2> QED  BY <2>1, <2>2, <2>3, <2>4, <2>5 DEF ComparedInv
  <1>4. CASE WriteBegun \/ Backup \/ Truncated \/ Replace \/ Continue
    <2>1. CASE WriteBegun \/ Truncated
      BY <2>1, <1>e DEF WriteBegun, Truncated, NewLines
    <2>2. CASE Backup \/ Replace
      BY <2>2, <1>t, <1>e DEF Backup, Replace, Savings
    <2>3. CASE Continue
      <3>1. NotSaving.step = "none" /\ [NotSaving EXCEPT !.step = "autoconf"].step = "autoconf"
        BY DEF NotSaving
      <3> QED  BY <2>3, <3>1, <1>e DEF Continue
    <2> QED  BY <1>4, <2>1, <2>2, <2>3
  <1>5. CASE Started \/ Stop \/ Filled \/ RenameAuto \/ ReplaceAndExit \/ NotReplaced \/ Rebuild \/ NewVersion
    <2>1. saving' = NotSaving
      BY <1>5 DEF Started, Stop, Filled, RenameAuto, ReplaceAndExit, NotReplaced, Rebuild, NewVersion, Over, SavingInv
    <2> QED  BY <2>1, <1>e, NothingSaved
  <1>6. CASE UNCHANGED files
    <2>1. tree' = tree /\ disk' = disk /\ saving' = saving /\ stamps' = stamps
      BY <1>6 DEF files
    <2>2. AutoOfConfig' = AutoOfConfig /\ Defined' = Defined
      BY <2>1, SameAuto
    <2> QED  BY <2>1, <2>2 DEF ComparedInv
  <1> QED  BY <1>1, <1>2, <1>3, <1>4, <1>5, <1>6 DEF FilesNext

(* Stamps only go with a build, which has seen auto.conf by then.            *)
LEMMA StampedStep == FilesTypeOK /\ SavingInv /\ ComparedInv /\ StampedInv /\ [FilesNext]_files => StampedInv'
  <1> SUFFICES ASSUME FilesTypeOK, SavingInv, ComparedInv, StampedInv, [FilesNext]_files PROVE StampedInv'
    OBVIOUS
  <1>1. CASE RenameAuto
    <2>1. saving.step = "auto" /\ stamps' = stamps /\ built' = built /\ disk'["auto.conf"] = saving.lines
      BY <1>1 DEF RenameAuto, FilesTypeOK, Files
    <2>2. saving.lines = AutoOfConfig /\ AutoOfConfig \in LinesOf(Defined)
      BY <2>1 DEF SavingInv
    <2>3. ASSUME NEW s \in Symbols, SaysOther(saving.lines, built, s)
          PROVE  s \in stamps \/ (s \in Strings /\ TextIn(saving.lines, s) = {})
      <3>1. CASE SaysOther(saving.lines, disk["auto.conf"], s)
        <4>1. s \in stamps \/ (s \in Strings /\ s \notin Defined)
          BY <2>1, <2>2, <3>1 DEF ComparedInv
        <4>2. s \notin Defined => TextIn(saving.lines, s) = {}
          BY <2>2, NotListed
        <4> QED  BY <4>1, <4>2
      <3>2. CASE ~SaysOther(saving.lines, disk["auto.conf"], s)
        <4>1. SaysOther(disk["auto.conf"], built, s) /\ TextIn(saving.lines, s) = TextIn(disk["auto.conf"], s)
          BY <2>3, <3>2 DEF SaysOther
        <4> QED  BY <4>1 DEF StampedInv
      <3> QED  BY <3>1, <3>2
    <2> QED  BY <2>1, <2>3 DEF StampedInv
  <1>2. CASE Rebuild
    <2>1. disk' = disk /\ built' = disk["auto.conf"]
      BY <1>2 DEF Rebuild
    <2>2. \A file, s : ~SaysOther(file, file, s)
      BY DEF SaysOther
    <2> QED  BY <2>1, <2>2 DEF StampedInv
  <1>3. CASE ~RenameAuto /\ ~Rebuild
    <2>1. disk'["auto.conf"] = disk["auto.conf"]
      BY <1>3, Writers
    <2>2. built' = built /\ stamps \subseteq stamps'
      BY <1>3 DEF FilesNext, files, Started, Stop, WriteBegun, Backup, Replaced, Replace, ReplaceAndExit,
                  NotReplaced, Continue, Truncated, Filled, Comparing, Stamped, HeaderReplaced, NewVersion
    <2> QED  BY <2>1, <2>2 DEF StampedInv
  <1> QED  BY <1>1, <1>2, <1>3

(* A .config that is written makes auto.conf old, and so does a new version   *)
(* of the Kconfig files.                                                   *)
LEMMA FreshStep == FilesTypeOK /\ SavingInv /\ FreshInv /\ [FilesNext]_files => FreshInv'
  <1> SUFFICES ASSUME FilesTypeOK, SavingInv, FreshInv, [FilesNext]_files, fresh' PROVE FreshInv'
    BY DEF FreshInv
  <1>1. CASE RenameAuto
    <2>1. /\ saving.step = "auto" /\ tree' = tree
          /\ disk'["auto.conf"] = saving.lines /\ disk'["autoconf.h"] = disk["autoconf.h"]
          /\ disk'[".config"] = disk[".config"]
      BY <1>1 DEF RenameAuto, FilesTypeOK, Files
    <2>2. saving.lines = AutoOfConfig /\ disk["autoconf.h"] = saving.lines /\ Elements(AutoOfConfig) = OnLines
      BY <2>1 DEF SavingInv
    <2>3. AutoOfConfig' = AutoOfConfig /\ OnLines' = OnLines
      BY <2>1, SameAuto
    <2>4. disk'["autoconf.h"] = disk'["auto.conf"] /\ disk'["auto.conf"] = AutoOfConfig'
          /\ Elements(disk'["auto.conf"]) = OnLines'
      BY <2>1, <2>2, <2>3
    <2> QED  BY <2>4 DEF FreshInv, Elements
  <1>2. CASE HeaderReplaced
    <2>1. /\ saving.step = "split" /\ tree' = tree /\ fresh
          /\ disk'["autoconf.h"] = AutoOfConfig /\ disk'["auto.conf"] = disk["auto.conf"]
          /\ disk'[".config"] = disk[".config"]
      BY <1>2 DEF HeaderReplaced, FilesTypeOK, Files
    <2>2. AutoOfConfig' = AutoOfConfig /\ OnLines' = OnLines
      BY <2>1, SameAuto
    <2>3. AutoOfConfig = disk["auto.conf"] /\ Elements(disk["auto.conf"]) = OnLines
      BY <2>1 DEF SavingInv, FreshInv
    <2>4. disk'["autoconf.h"] = disk'["auto.conf"] /\ disk'["auto.conf"] = AutoOfConfig'
          /\ Elements(disk'["auto.conf"]) = OnLines'
      BY <2>1, <2>2, <2>3
    <2> QED  BY <2>4 DEF FreshInv, Elements
  <1>3. CASE ~RenameAuto /\ ~HeaderReplaced
    <2>1. disk'["auto.conf"] = disk["auto.conf"] /\ disk'["autoconf.h"] = disk["autoconf.h"]
      BY <1>3, Writers
    <2>2. fresh /\ tree' = tree
      BY <1>3 DEF FilesNext, files, Started, Stop, WriteBegun, Backup, Replaced, Replace, ReplaceAndExit,
                  NotReplaced, Continue, Truncated, Filled, Comparing, Stamped, Rebuild, NewVersion
    <2>3. disk'[".config"] = disk[".config"] \/ disk'[".config"] = Missing
      <3>1. CASE Backup /\ saving.file = ".config"
        BY <3>1, BackupDisk
      <3>2. ~(Replaced /\ saving.file = ".config")
        BY DEF Replaced
      <3> QED  BY <3>1, <3>2, Writers
    <2>4. disk'["autoconf.h"] = disk'["auto.conf"]
      BY <2>1, <2>2 DEF FreshInv
    <2>5. CASE disk'[".config"] = Missing
      BY <2>4, <2>5 DEF FreshInv
    <2>6. CASE disk'[".config"] # Missing
      <3>1. disk'[".config"] = disk[".config"]
        BY <2>3, <2>6
      <3>2. disk["auto.conf"] = AutoOfConfig /\ Elements(disk["auto.conf"]) = OnLines
        BY <2>2, <2>6, <3>1 DEF FreshInv
      <3>3. disk'["auto.conf"] = AutoOfConfig' /\ Elements(disk'["auto.conf"]) = OnLines'
        BY <2>1, <2>2, <3>1, <3>2, SameAuto
      <3> QED  BY <2>4, <3>3 DEF FreshInv, Elements
    <2> QED  BY <2>5, <2>6
  <1> QED  BY <1>1, <1>2, <1>3

LEMMA Initially == FilesInit => FilesInv
  <1> SUFFICES ASSUME FilesInit PROVE FilesInv
    OBVIOUS
  <1>1. FilesTypeOK
    BY TypeInit
  <1>2. saving = NotSaving /\ saving.step = "none" /\ ~fresh
    BY NothingSaved DEF FilesInit
  <1>3. StampedInv
    <2>1. \A s : TextIn(<<>>, s) = {} /\ TextIn(Missing, s) = {}
      BY DEF TextIn
    <2> QED  BY <2>1 DEF FilesInit, StampedInv, SaysOther
  <1> QED  BY <1>1, <1>2, <1>3 DEF FilesInv, SavingInv, ComparedInv, FreshInv

LEMMA Inductive == FilesInv /\ [FilesNext]_files => FilesInv'
  BY TypeStep, SavingStep, ComparedStep, StampedStep, FreshStep DEF FilesInv

(* Types, and what a program has come to while it saves; wherever it is      *)
(* killed, the next one finds what the invariant says.                     *)
THEOREM FilesInvariance == FilesSpec => []FilesInv
  BY Initially, Inductive, PTL DEF FilesSpec

(* A configuration only goes when it gets its other name: whoever is killed   *)
(* while saving it leaves the old one or the new one.                      *)
THEOREM ConfigurationsStay == FilesSpec => NothingLost
  <1>1. FilesInv /\ [FilesNext]_files =>
            [\A f \in Configurations : disk[f] # Missing /\ disk'[f] # disk[f] => disk'[OldName(f)] = disk[f]]_files
    BY LossStep DEF FilesInv
  <1> QED  BY <1>1, FilesInvariance, PTL DEF FilesSpec, NothingLost

(* What a build finds is the configuration, and what it did not see last      *)
(* time is touched, wherever syncconfig was killed, however often it was   *)
(* run, and whichever versions of the Kconfig files came in between.       *)
THEOREM BuildsAreCurrent == FilesSpec => []BuildIsCurrent
  <1>1. FilesInv => ChangesStamped
    BY DEF FilesInv, SavingInv, ComparedInv, ChangesStamped
  <1>2. FilesInv => StampsTell /\ AutoIsConfig
    BY DEF FilesInv, StampedInv, FreshInv, StampsTell, AutoIsConfig
  <1> QED  BY <1>1, <1>2, FilesInvariance, PTL DEF BuildIsCurrent
(***************************************************************************)
(* Conditions: what one step of a simplification does keeps the value, for  *)
(* all settings that symbols can have.                                     *)
(***************************************************************************)
Legal(curr) ==
    \A s \in Symbols : /\ TypeOf(s) = "tristate" => curr[s] \in Tristates
                       /\ TypeOf(s) = "boolean" => curr[s] \in {no, yes}

LEMMA ConstValues == ConstValue["n"] = 0 /\ ConstValue["m"] = 1 /\ ConstValue["y"] = 2
  BY DEF ConstValue, Consts, no, mod, yes

LEMMA TriTexts ==
    /\ TriText[0] = "n" /\ TriText[1] = "m" /\ TriText[2] = "y"
    /\ \A v \in Tristates : TriText[v] \in Consts
  BY DEF TriText, Tristates, Consts, no, mod, yes

(* A boolean or tristate symbol and what it has for value. *)
LEMMA LogicalSymbol ==
    ASSUME NEW curr, Legal(curr), NEW s, TypeOf(s) \in Logical
    PROVE  /\ s \in Symbols /\ s \notin Consts
           /\ curr[s] \in Tristates /\ (TypeOf(s) = "boolean" => curr[s] \in {no, yes})
           /\ TriOf(s, curr) = curr[s] /\ TextOf(s, curr) = TriText[curr[s]]
  <1>1. s \in Symbols
    BY DEF TypeOf, Logical
  <1>2. s \notin Consts
    BY <1>1, TextsAssumption
  <1>3. curr[s] \in Tristates /\ (TypeOf(s) = "boolean" => curr[s] \in {no, yes})
    BY <1>1 DEF Legal, Logical, Tristates
  <1> QED  BY <1>1, <1>2, <1>3 DEF TriOf, TextOf

(* It is compared with a constant as a string, since neither is a number:    *)
(* it equals the constant that it has for value, and no other.             *)
LEMMA ComparedAsText ==
    ASSUME NEW curr, Legal(curr), NEW s, TypeOf(s) \in Logical, NEW c \in Consts
    PROVE  /\ Related("=", s, c, curr) <=> TriText[curr[s]] = c
           /\ Related("!=", s, c, curr) <=> TriText[curr[s]] # c
  <1> DEFINE text == [u \in {s, c} |-> TextOf(u, curr)]
  <1>1. s # c /\ TypeOf(s) # "string" /\ TriText[curr[s]] \in Consts
    BY LogicalSymbol, TriTexts DEF Logical
  <1>2. c \notin Symbols
    BY TextsAssumption
  <1>3. DOMAIN text = {s, c} /\ text[s] = TriText[curr[s]] /\ text[c] = c
    <2>1. TextOf(s, curr) = TriText[curr[s]]
      BY LogicalSymbol
    <2>2. TextOf(c, curr) = c
      BY <1>2 DEF TextOf
    <2> QED  BY <2>1, <2>2
  <1>4. text[c] \notin DOMAIN Numerals(c)
    <2>1. Numerals(c) = Number
      BY <1>2 DEF Numerals, TypeOf, Logical
    <2> QED  BY <1>3, <2>1, TextsAssumption
  <1> HIDE DEF text
  <1>5. Keys(text) = [u \in DOMAIN text |-> Rank[text[u]]]
    BY <1>3, <1>4 DEF Keys
  <1>6. Keys(text)[s] = Rank[TriText[curr[s]]] /\ Keys(text)[c] = Rank[c]
    BY <1>3, <1>5
  <1>7. Rank[TriText[curr[s]]] = Rank[c] <=> TriText[curr[s]] = c
    BY <1>1, TextsAssumption
  <1>8. \A op : Related(op, s, c, curr) = Compare(op, Rank[TriText[curr[s]]], Rank[c])
    BY <1>6 DEF Related, Ordered, text
  <1>9. \A a, b : (Compare("=", a, b) <=> a = b) /\ (Compare("!=", a, b) <=> a # b)
    BY DEF Compare
  <1> QED  BY <1>7, <1>8, <1>9

(* The value of each operand that the rules are about. *)
LEMMA OperandValues ==
    ASSUME NEW curr, Legal(curr), NEW s, TypeOf(s) \in Logical
    PROVE  /\ \A e : e.op = "symbol" /\ e.left = s => LiteralValue(e, curr) = curr[s]
           /\ \A e : e.op = "not" /\ e.left.op = "symbol" /\ e.left.left = s =>
                  LiteralValue(e, curr) = 2 - curr[s]
           /\ \A e : e.op = "=" /\ e.left = s /\ e.right \in Consts =>
                  LiteralValue(e, curr) = IF TriText[curr[s]] = e.right THEN 2 ELSE 0
           /\ \A e : e.op = "!=" /\ e.left = s /\ e.right \in Consts =>
                  LiteralValue(e, curr) = IF TriText[curr[s]] = e.right THEN 0 ELSE 2
  <1>1. TriOf(s, curr) = curr[s]
    BY LogicalSymbol
  <1>2. \A c \in Consts : /\ Related("=", s, c, curr) <=> TriText[curr[s]] = c
                          /\ Related("!=", s, c, curr) <=> TriText[curr[s]] # c
    BY ComparedAsText
  <1>3. \A e : e.op = "symbol" /\ e.left = s => LiteralValue(e, curr) = curr[s]
    BY <1>1 DEF LiteralValue, AtomValue
  <1>4. \A e : e.op = "not" /\ e.left.op = "symbol" /\ e.left.left = s => LiteralValue(e, curr) = 2 - curr[s]
    BY <1>1 DEF LiteralValue, AtomValue, EXPR_NOT
  <1>5. \A e : e.op = "=" /\ e.left = s /\ e.right \in Consts =>
            LiteralValue(e, curr) = IF TriText[curr[s]] = e.right THEN 2 ELSE 0
    BY <1>2 DEF LiteralValue, AtomValue, yes, no
  <1>6. \A e : e.op = "!=" /\ e.left = s /\ e.right \in Consts =>
            LiteralValue(e, curr) = IF TriText[curr[s]] = e.right THEN 0 ELSE 2
    BY <1>2 DEF LiteralValue, AtomValue, yes, no
  <1> QED  BY <1>3, <1>4, <1>5, <1>6

LEMMA ConstantValues ==
    ASSUME NEW curr
    PROVE  LiteralValue(Sym("y"), curr) = 2 /\ LiteralValue(Sym("n"), curr) = 0
  BY ConstValues DEF LiteralValue, AtomValue, Sym, TriOf, Consts

LEMMA Built ==
    /\ \A s : Sym(s).op = "symbol" /\ Sym(s).left = s
    /\ \A op, s, t : Two(op, s, t).op = op /\ Two(op, s, t).left = s /\ Two(op, s, t).right = t
    /\ \A a : Not(a).op = "not" /\ Not(a).left = a
  BY DEF Sym, Two, Not

LEMMA ThirdOf ==
    ASSUME NEW e, NEW f, e.right \in Consts, f.right \in Consts, e.right # f.right
    PROVE  Third(e, f) \in Consts /\ Third(e, f) # e.right /\ Third(e, f) # f.right
           /\ Consts = {e.right, f.right, Third(e, f)}
  <1>1. \E c \in Consts : c \notin {e.right, f.right}
    BY DEF Consts
  <1>2. Third(e, f) \in Consts /\ Third(e, f) \notin {e.right, f.right}
    BY <1>1 DEF Third
  <1> QED  BY <1>2 DEF Consts

(* expr.c 423-485: two operands about one symbol, which are not the same      *)
(* (the same are joined before), and what expr_join_or makes of them.      *)
THEOREM OrJoined ==
    ASSUME NEW curr, Legal(curr), NEW e, NEW f, Joinable(e, f),
           e.op \in Equalities /\ f.op = e.op => e.right # f.right,
           expr_join_or(e, f, About(e)) # NULL
    PROVE  LiteralValue(expr_join_or(e, f, About(e)), curr)
               = EXPR_OR(LiteralValue(e, curr), LiteralValue(f, curr))
  <1> DEFINE s == About(e)
  <1>s. TypeOf(s) \in Logical /\ About(f) = s
    BY DEF Joinable
  <1>v. curr[s] \in {0, 1, 2} /\ TriText[curr[s]] \in Consts /\ (TypeOf(s) = "boolean" => curr[s] \in {0, 2})
    BY <1>s, LogicalSymbol, TriTexts DEF Tristates, no, mod, yes
  <1>1. CASE TypeOf(s) = "tristate" /\ Both(e, f, "=")
    <2>1. e.op = "=" /\ f.op = "=" /\ e.right \in Consts /\ f.right \in Consts /\ e.right # f.right
      BY <1>1 DEF Both, Equalities
    <2>2. e.left = s /\ f.left = s
      BY <1>s, <2>1 DEF About
    <2>3. expr_join_or(e, f, s) = Two("!=", s, Third(e, f))
      BY <1>1 DEF expr_join_or
    <2>4. LiteralValue(expr_join_or(e, f, s), curr) = IF TriText[curr[s]] = Third(e, f) THEN 0 ELSE 2
      BY <1>s, <2>1, <2>3, Built, ThirdOf, OperandValues
    <2>5. /\ LiteralValue(e, curr) = IF TriText[curr[s]] = e.right THEN 2 ELSE 0
          /\ LiteralValue(f, curr) = IF TriText[curr[s]] = f.right THEN 2 ELSE 0
      BY <1>s, <2>1, <2>2, OperandValues
    <2>6. \/ TriText[curr[s]] = e.right /\ TriText[curr[s]] # f.right /\ TriText[curr[s]] # Third(e, f)
          \/ TriText[curr[s]] # e.right /\ TriText[curr[s]] = f.right /\ TriText[curr[s]] # Third(e, f)
          \/ TriText[curr[s]] # e.right /\ TriText[curr[s]] # f.right /\ TriText[curr[s]] = Third(e, f)
      BY <1>v, <2>1, ThirdOf
    <2> HIDE DEF s
    <2>7. LiteralValue(expr_join_or(e, f, s), curr) = EXPR_OR(LiteralValue(e, curr), LiteralValue(f, curr))
      BY <2>4, <2>5, <2>6 DEF EXPR_OR
    <2> QED  BY <2>7 DEF s
  <1>2. CASE TypeOf(s) = "boolean" /\ Contrary(e, f)
    <2>1. expr_join_or(e, f, s) = Sym("y")
      BY <1>2 DEF expr_join_or
    <2>2. \/ LiteralValue(e, curr) = 2 - curr[s] /\ LiteralValue(f, curr) = curr[s]
          \/ LiteralValue(e, curr) = curr[s] /\ LiteralValue(f, curr) = 2 - curr[s]
      BY <1>2, <1>s, OperandValues DEF Contrary, About
    <2>3. LiteralValue(expr_join_or(e, f, s), curr) = 2
      BY <2>1, ConstantValues
    <2> HIDE DEF s
    <2>4. curr[s] = 0 \/ curr[s] = 2
      BY <1>2, <1>v
    <2>5. LiteralValue(expr_join_or(e, f, s), curr) = EXPR_OR(LiteralValue(e, curr), LiteralValue(f, curr))
      BY <2>2, <2>3, <2>4 DEF EXPR_OR
    <2> QED  BY <2>5 DEF s
  <1>3. (TypeOf(s) = "tristate" /\ Both(e, f, "=")) \/ (TypeOf(s) = "boolean" /\ Contrary(e, f))
    BY DEF expr_join_or
  <1> QED  BY <1>1, <1>2, <1>3

(* expr.c 487-579: the same of expr_join_and. *)
THEOREM AndJoined ==
    ASSUME NEW curr, Legal(curr), NEW e, NEW f, Joinable(e, f),
           e.op \in Equalities /\ f.op = e.op => e.right # f.right,
           expr_join_and(e, f, About(e)) # NULL
    PROVE  LiteralValue(expr_join_and(e, f, About(e)), curr)
               = EXPR_AND(LiteralValue(e, curr), LiteralValue(f, curr))
  <1> DEFINE s == About(e)
             v == curr[s]
             eq == IF e.op = "=" THEN e ELSE f
             ne == IF e.op = "=" THEN f ELSE e
             join == expr_join_and(e, f, s)
             Mixed == /\ TypeOf(s) = "tristate" /\ eq.op = "=" /\ ne.op = "!="
                      /\ {eq.right, ne.right} \subseteq Consts
  <1>s. TypeOf(s) \in Logical /\ About(f) = s
    BY DEF Joinable
  <1>v. v \in {0, 1, 2} /\ TriText[v] \in Consts
    BY <1>s, LogicalSymbol, TriTexts DEF Tristates, no, mod, yes
  <1>c. "y" \in Consts /\ "m" \in Consts /\ "n" \in Consts
    BY DEF Consts
  <1>x. /\ SymbolAnd(e, f, "=", "y") \/ SymbolAnd(e, f, "!=", "m") =>
              ~SymbolAnd(e, f, "!=", "n") /\ ~Mixed /\ ~Both(e, f, "!=")
        /\ SymbolAnd(e, f, "!=", "n") => ~Mixed /\ ~Both(e, f, "!=")
        /\ Mixed => ~Both(e, f, "!=")
    <2>1. \A op, x : SymbolAnd(e, f, op, x) => "symbol" \in {e.op, f.op}
      BY DEF SymbolAnd
    <2>2. SymbolAnd(e, f, "=", "y") \/ SymbolAnd(e, f, "!=", "m") => ~SymbolAnd(e, f, "!=", "n")
      BY DEF SymbolAnd
    <2>3. Mixed => {e.op, f.op} = {"=", "!="}
      OBVIOUS
    <2>4. Both(e, f, "!=") => e.op = "!=" /\ f.op = "!="
      BY DEF Both
    <2> QED  BY <2>1, <2>2, <2>3, <2>4
  <1>1. CASE SymbolAnd(e, f, "=", "y") \/ SymbolAnd(e, f, "!=", "m")
    <2>1. join = Two("=", s, "y")
      BY <1>1, <1>x DEF expr_join_and
    <2>2. LiteralValue(join, curr) = IF TriText[v] = "y" THEN 2 ELSE 0
      BY <1>s, <1>c, <2>1, Built, OperandValues
    <2>3. LET other == IF TriText[v] = "y" THEN 2 ELSE 0
              another == IF TriText[v] = "m" THEN 0 ELSE 2
          IN  \/ LiteralValue(e, curr) = v /\ LiteralValue(f, curr) \in {other, another}
              \/ LiteralValue(e, curr) \in {other, another} /\ LiteralValue(f, curr) = v
      BY <1>1, <1>s, <1>c, OperandValues DEF SymbolAnd, About
    <2> HIDE DEF s, v, join
    <2>4. LiteralValue(join, curr) = EXPR_AND(LiteralValue(e, curr), LiteralValue(f, curr))
      BY <1>v, <2>2, <2>3, TriTexts DEF EXPR_AND
    <2> QED  BY <2>4 DEF join, s
  <1>2. CASE SymbolAnd(e, f, "!=", "n")
    <2>1. join = Sym(s)
      BY <1>2, <1>x DEF expr_join_and
    <2>2. LiteralValue(join, curr) = v
      BY <1>s, <2>1, Built, OperandValues
    <2>3. LET other == IF TriText[v] = "n" THEN 0 ELSE 2
          IN  \/ LiteralValue(e, curr) = v /\ LiteralValue(f, curr) = other
              \/ LiteralValue(e, curr) = other /\ LiteralValue(f, curr) = v
      BY <1>2, <1>s, <1>c, OperandValues DEF SymbolAnd, About
    <2> HIDE DEF s, v, join
    <2>4. LiteralValue(join, curr) = EXPR_AND(LiteralValue(e, curr), LiteralValue(f, curr))
      BY <1>v, <2>2, <2>3, TriTexts DEF EXPR_AND
    <2> QED  BY <2>4 DEF join, s
  <1>3. CASE Mixed
    <2>1. join = IF eq.right = ne.right THEN Sym("n") ELSE eq
      BY <1>3, <1>x DEF expr_join_and
    <2>2. eq.left = s /\ ne.left = s /\ eq.right \in Consts /\ ne.right \in Consts
      BY <1>3, <1>s DEF About
    <2>3. /\ LiteralValue(eq, curr) = IF TriText[v] = eq.right THEN 2 ELSE 0
          /\ LiteralValue(ne, curr) = IF TriText[v] = ne.right THEN 0 ELSE 2
      BY <1>3, <1>s, <2>2, OperandValues
    <2>4. \/ LiteralValue(e, curr) = LiteralValue(eq, curr) /\ LiteralValue(f, curr) = LiteralValue(ne, curr)
          \/ LiteralValue(e, curr) = LiteralValue(ne, curr) /\ LiteralValue(f, curr) = LiteralValue(eq, curr)
      OBVIOUS
    <2>5. LiteralValue(join, curr) = IF eq.right = ne.right THEN 0 ELSE LiteralValue(eq, curr)
      BY <2>1, ConstantValues
    <2> HIDE DEF s, v, join, eq, ne
    <2>6. LiteralValue(join, curr) = EXPR_AND(LiteralValue(e, curr), LiteralValue(f, curr))
      BY <2>3, <2>4, <2>5 DEF EXPR_AND
    <2> QED  BY <2>6 DEF join, s
  <1>4. CASE TypeOf(s) = "tristate" /\ Both(e, f, "!=")
    <2>1. e.op = "!=" /\ f.op = "!=" /\ e.right \in Consts /\ f.right \in Consts /\ e.right # f.right
      BY <1>4 DEF Both, Equalities
    <2>2. e.left = s /\ f.left = s
      BY <1>s, <2>1 DEF About
    <2>3. join = Two("=", s, Third(e, f))
      BY <1>4, <1>x DEF expr_join_and
    <2>4. LiteralValue(join, curr) = IF TriText[v] = Third(e, f) THEN 2 ELSE 0
      BY <1>s, <2>1, <2>3, Built, ThirdOf, OperandValues
    <2>5. /\ LiteralValue(e, curr) = IF TriText[v] = e.right THEN 0 ELSE 2
          /\ LiteralValue(f, curr) = IF TriText[v] = f.right THEN 0 ELSE 2
      BY <1>s, <2>1, <2>2, OperandValues
    <2>6. \/ TriText[v] = e.right /\ TriText[v] # f.right /\ TriText[v] # Third(e, f)
          \/ TriText[v] # e.right /\ TriText[v] = f.right /\ TriText[v] # Third(e, f)
          \/ TriText[v] # e.right /\ TriText[v] # f.right /\ TriText[v] = Third(e, f)
      BY <1>v, <2>1, ThirdOf
    <2> HIDE DEF s, v, join
    <2>7. LiteralValue(join, curr) = EXPR_AND(LiteralValue(e, curr), LiteralValue(f, curr))
      BY <2>4, <2>5, <2>6 DEF EXPR_AND
    <2> QED  BY <2>7 DEF join, s
  <1>5. \/ SymbolAnd(e, f, "=", "y") \/ SymbolAnd(e, f, "!=", "m") \/ SymbolAnd(e, f, "!=", "n")
        \/ Mixed \/ (TypeOf(s) = "tristate" /\ Both(e, f, "!="))
    BY DEF expr_join_and
  <1> QED  BY <1>1, <1>2, <1>3, <1>4, <1>5

(* expr.c 707-744: what expr_transform makes of a boolean that is compared    *)
(* with a constant.                                                        *)
THEOREM BooleansTested ==
    ASSUME NEW curr, Legal(curr), NEW e, e.op \in Equalities, TypeOf(e.left) = "boolean", e.right \in Consts
    PROVE  LiteralValue(BooleanTest(e), curr) = LiteralValue(e, curr)
  <1> DEFINE s == e.left
             v == curr[s]
             test == BooleanTest(e)
  <1>s. TypeOf(s) \in Logical
    BY DEF Logical
  <1>v. v \in {0, 2}
    BY <1>s, LogicalSymbol DEF no, yes
  <1>o. /\ LiteralValue(Sym(s), curr) = v /\ LiteralValue(Not(Sym(s)), curr) = 2 - v
        /\ LiteralValue(Sym("n"), curr) = 0 /\ LiteralValue(Sym("y"), curr) = 2
    BY <1>s, Built, OperandValues, ConstantValues
  <1>e. LiteralValue(e, curr) = IF (TriText[v] = e.right) = (e.op = "=") THEN 2 ELSE 0
    BY <1>s, OperandValues DEF Equalities
  <1>t. test = IF e.op = "="
               THEN IF e.right = "y" THEN Sym(s) ELSE IF e.right = "n" THEN Not(Sym(s)) ELSE Sym("n")
               ELSE IF e.right = "n" THEN Sym(s) ELSE IF e.right = "y" THEN Not(Sym(s)) ELSE Sym("y")
    BY DEF BooleanTest, Equalities, Consts
  <1>r. e.right = "y" \/ e.right = "m" \/ e.right = "n"
    BY DEF Consts
  <1>p. e.op = "=" \/ e.op = "!="
    BY DEF Equalities
  <1>1. LiteralValue(test, curr) =
            IF e.op = "=" THEN IF e.right = "y" THEN v ELSE IF e.right = "n" THEN 2 - v ELSE 0
            ELSE IF e.right = "n" THEN v ELSE IF e.right = "y" THEN 2 - v ELSE 2
    BY <1>t, <1>o
  <1> HIDE DEF s, v, test
  <1>2. LiteralValue(test, curr) = LiteralValue(e, curr)
    BY <1>1, <1>e, <1>v, <1>r, <1>p, TriTexts
  <1> QED  BY <1>2 DEF test

(* expr.c 749-795: a comparison that is turned around, of numbers or texts    *)
(* that strcmp compares.                                                   *)
THEOREM TurnedAround ==
    ASSUME NEW curr, NEW op \in Comparisons, NEW s, NEW t,
           TextOf(s, curr) \in DOMAIN Rank, TextOf(t, curr) \in DOMAIN Rank
    PROVE  LiteralValue(Two(Opposite[op], s, t), curr) = LiteralValue(Not(Two(op, s, t)), curr)
  <1> DEFINE text == [u \in {s, t} |-> TextOf(u, curr)]
             key == Keys(text)
  <1>1. DOMAIN text = {s, t} /\ text[s] \in DOMAIN Rank /\ text[t] \in DOMAIN Rank
    OBVIOUS
  <1>2. \A u : \A a \in DOMAIN Numerals(u) : Numerals(u)[a] \in Int
    <2>1. \A a \in DOMAIN ConstValue : ConstValue[a] \in Int
      BY DEF ConstValue, Consts, no, mod, yes
    <2> QED  BY <2>1, TextsAssumption DEF Numerals
  <1> HIDE DEF text
  <1>3. key[s] \in Int /\ key[t] \in Int
    <2>1. CASE key = [u \in DOMAIN text |-> Rank[text[u]]]
      BY <1>1, <2>1, TextsAssumption
    <2>2. CASE /\ \A u \in DOMAIN text : text[u] \in DOMAIN Numerals(u)
               /\ key = [u \in DOMAIN text |-> Numerals(u)[text[u]]]
      BY <1>1, <1>2, <2>2
    <2> QED  BY <2>1, <2>2 DEF Keys
  <1> HIDE DEF key
  <1>4. \A a, b \in Int : Compare(Opposite[op], a, b) <=> ~Compare(op, a, b)
    <2>1. op \in {"=", "!=", "<", "<=", ">", ">="}
      BY DEF Comparisons, Equalities
    <2>2. /\ Opposite["="] = "!=" /\ Opposite["!="] = "=" /\ Opposite["<="] = ">" /\ Opposite[">"] = "<="
          /\ Opposite[">="] = "<" /\ Opposite["<"] = ">="
      BY DEF Opposite, Comparisons, Equalities
    <2>3. ASSUME NEW a \in Int, NEW b \in Int
          PROVE  /\ Compare("=", a, b) <=> a = b
                 /\ Compare("!=", a, b) <=> a # b
                 /\ Compare("<", a, b) <=> a < b
                 /\ Compare("<=", a, b) <=> a <= b
                 /\ Compare(">", a, b) <=> a > b
                 /\ Compare(">=", a, b) <=> a >= b
      <3>1. /\ Compare("=", a, b) <=> a = b
            /\ Compare("!=", a, b) <=> a # b
        BY DEF Compare
      <3>2. Compare("<", a, b) <=> a < b
        BY DEF Compare
      <3>3. Compare("<=", a, b) <=> a <= b
        BY DEF Compare
      <3>4. Compare(">", a, b) <=> a > b
        BY DEF Compare
      <3>5. Compare(">=", a, b) <=> a >= b
        BY DEF Compare
      <3> QED  BY <3>1, <3>2, <3>3, <3>4, <3>5
    <2>4. ASSUME NEW a \in Int, NEW b \in Int
          PROVE  Compare(Opposite[op], a, b) <=> ~Compare(op, a, b)
      <3>1. (a > b <=> ~(a <= b)) /\ (a >= b <=> ~(a < b))
        OBVIOUS
      <3> QED  BY <2>1, <2>2, <2>3, <3>1
    <2> QED  BY <2>4
  <1>5. Compare(Opposite[op], key[s], key[t]) <=> ~Compare(op, key[s], key[t])
    BY <1>3, <1>4
  <1>6. \A o : Related(o, s, t, curr) = Compare(o, key[s], key[t])
    BY DEF Related, Ordered, key, text
  <1>7. op # "symbol" /\ op # "not" /\ Opposite[op] # "symbol" /\ Opposite[op] # "not"
    BY DEF Comparisons, Equalities, Opposite
  <1>8. /\ LiteralValue(Two(Opposite[op], s, t), curr) = IF Related(Opposite[op], s, t, curr) THEN 2 ELSE 0
        /\ LiteralValue(Not(Two(op, s, t)), curr) = IF Related(op, s, t, curr) THEN 0 ELSE 2
    BY <1>7, Built DEF LiteralValue, AtomValue, EXPR_NOT, yes, no
  <1> QED  BY <1>5, <1>6, <1>8
=============================================================================
