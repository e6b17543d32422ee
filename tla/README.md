# Formal models of the Buildroot guide's build system

The repository is a guide to building embedded Linux systems: a few scripts
(`build_all.sh`, `install_all.sh`, `cross_env.sh`, `post_build.sh`, `qemu.sh`),
a configuration, a small root filesystem overlay, and the build system itself,
the complete tree of Buildroot 2020.08.1 in `src/buildroot-2020.08.1/`. All the
logic that can go wrong is in that tree. It consists of make rules, shell
scripts and C programs that work on files: stamps, caches, shared directories
and lists that outlive the process that wrote them, with several processes at
work at the same time and any of them killed at any point. That is what these
TLA+ modules are about. Paths below are relative to `src/buildroot-2020.08.1/`.

## Inventory

| Component | State it keeps | Operations | Talks to | What is hard | What makes it correct |
|---|---|---|---|---|---|
| Download helper: `package/pkg-download.mk`, `support/download/dl-wrapper`, `check-hash` | `$(PKG)_DL_DIR`, shared by builds and trees; temporary files; the flock | take the lock, legacy link or copy, check, remove, fetch from a list of sites, verify, save, rename | backends (processes), the extraction (files) | concurrent builds, killed runs, full disks, bad sites, check and use far apart | a file under its final name is whole; what a build was told it has stays and passes its hash file |
| git backend: `support/download/git` | `$(PKG)_DL_DIR/git`, a clone that is used again and again | init, fetch, checkout, clean, submodules, archive; ERR trap that starts afresh | remote repository; called under the flock | leftovers of other changesets and killed runs, errors inside command substitutions | the archive is the changeset's, exactly (but see Observations); the cache is never why a run fails; a sound one is kept |
| Package steps: `package/pkg-generic.mk`, `support/scripts/apply-patches.sh` | stamp files and their times, `.applied_patches_list` | download to install, `-reinstall`, `-rebuild`, `-reconfigure`, `-dirclean` | dependencies' stamps (order-only rules), make | `-jN`, killed and failed runs, stale stamps | dependencies are installed before configuration; patches once; success means up to date |
| Kconfig: `support/kconfig/expr.c`, `menu.c`, `symbol.c`, `confdata.c`, `conf.c` | expressions, the menu tree, values of symbols and choices, `.config` and `.config.old`, `auto.conf`, `autoconf.h`, one stamp per symbol | simplify and spread dependencies, look for loops, calculate, set, ask, read, write, write the minimum, touch | make (`auto.conf`, stamps), the user, the front ends (shared code) | values cached until something changes, reverse dependencies, choices, simplification, files written one rename at a time, a new version of the Kconfig files | values respect limits and dependencies whatever was picked; saving and reading is stable; what is built by is current |
| Kconfig front ends: `mconf.c`, `nconf.c`, `gconf.c`, `qconf.cc`, `merge_config.sh` | open menus, the list shown, the name of the configuration, whether there is something to save | keys on a list, dialogs, search, load, save, leave | Kconfig (calls), the terminal | many ways to the same change, leaving with or without saving, signals | what is shown is what is in memory; nothing is lost without a question |
| Users tables: `support/scripts/mkusers` | passwd, group, shadow, gshadow | five passes: groups, additional groups, users | fs/common.mk | ranges that run out, ids given on later lines, users named twice | no two users share a uid; lines get what they ask for; homes and members are right |
| Device tables: `package/makedevs/makedevs.c` | the root filesystem in the making | one line after the other: files, directories, recursively, nodes in batches, capabilities | mkusers (names of users), fs/common.mk | order of lines, several names per line, lines that fail in the middle | an image is made only when each line was carried out |
| Toolchain wrapper: `toolchain/toolchain-wrapper.c` | a vector of words for gcc | classify the arguments, add the target's options, look for unsafe paths, exec | the environment, ccache, gcc | a fixed number of spare words, options that exclude each other, an option's value in the next word | the vector is long enough; nothing the caller said is contradicted; unsafe paths are found |
| File lists and finalize: `pkg-generic.mk`, `Makefile` | `.files-list*.before/.txt`, `TARGET_DIR` | list before configure and after installation, target-finalize, strip, overlay, post-build script | all packages (shared directory) | repeated and partial runs over the same `TARGET_DIR` | lists name what the package installed; finalize can be repeated |
| Per-package directories: `package/pkg-utils.mk` | one host and target directory per package, hard-linked | rsync from the dependencies, in order; final merge | package steps | hard links that are written in place, overlapping files, order of merge | a package sees its dependencies' files only |
| Root filesystem images: `fs/common.mk` | per-image copy of the target directory, fakeroot script, users and device tables | copy, hooks, image command | mkusers, makedevs | parallel images, interrupted runs | each image is made from a fresh copy |
| Kconfig packages: `package/pkg-kconfig.mk` | `.config`, `.stamp_kconfig_fixup_done`, fragments | merge, fix up, `-menuconfig`, `-update-config` | package steps | edited configuration against regenerated one | user changes are kept or visibly lost, never silently |
| Legal information: `Makefile`, `pkg-generic.mk` | `legal-info/` | clean, prepare, per-package collection, report | package steps | unordered prerequisites under `-jN` | the report has every package once |
| SDK relocation, graphs, test infrastructure, utilities | little or none | one pass over their input | | | |

`PROJECT.json` lists every component with its sources, also those that are not
modelled, and the hazards of the code with the line where each bites.

## Modules

| Module | What it is |
|---|---|
| `SharedDownloads` | abstract specification: a directory of verified files that several builds publish into and rely on |
| `Download`, `MCDownload` | the DOWNLOAD macro, dl-wrapper and check-hash, in full; implements `SharedDownloads` |
| `DownloadProofs` | the lock, types, the files: `TypeCorrect`, `WholeFiles`, `UnrefutedStays`, `HeldStaysVerified`, `ExtractionVerified` |
| `DownloadRefinement` | `Download` implements `SharedDownloads`: `Implements` |
| `GitCache`, `MCGitCache` | the git backend and its instance |
| `GitCacheProofs` | `ArchivesExact`, `OneRetrySuffices`, `SoundStays` |
| `PackageSteps`, `MCPackageSteps` | stamps and rules of packages under make, and their instance |
| `PackageStepsProofs` | `PatchesOnce`, `EndsWell`, `RestartsAlone`, `DependenciesReady` |
| `KconfigTypes` | the symbols, their types, and what stands for a file that is not there |
| `Conditions` | expr.c: the operands of conditions, what they are worth, and the rules that make one operand of two |
| `Expressions` | expr.c: transformation, elimination, comparison and printing of whole conditions, with the rules of `Conditions` |
| `KconfigExpr`, `MCKconfigExpr` | what the operators of `Expressions` promise, for all small conditions |
| `KconfigMenu` | menu.c: `menu_finalize`, which spreads dependencies over the menu tree and finds submenus and flattened blocks |
| `KconfigSymbol` | symbol.c: visibility, values, ranges, choices, and setting a symbol |
| `KconfigLoops` | symbol.c: `sym_check_deps`, next to what a loop is |
| `KconfigData` | confdata.c as functions: reading a file into the values, the lines of a file, the minimal configuration |
| `ConfigFiles` | abstract specification: the files of a configuration, whatever the programs have in memory: renames, `auto.conf`, the stamps of symbols, kills, a new version, a build |
| `KconfigFiles` | the programs' memory added to it, and how they come to what they write |
| `Conf`, `Mconf`, `Nconf`, `Gconf` | conf.c, mconf.c, nconf.c and gconf.c, one action per question, key or click |
| `KconfigSession`, `MCKconfigSession` | all of these one after the other on the same files; the properties; the Kconfig files of the instance |
| `KconfigProofs` | `ConfigurationsStay`, `BuildsAreCurrent` of `ConfigFiles`; `OrJoined`, `AndJoined`, `BooleansTested`, `TurnedAround` of `Conditions` |
| `MkUsers` | the five passes of mkusers over its table |
| `MkUsersProofs` | `TypeCorrect`, `UniqueUids`, `HomesCorrect`, `AllAsAsked`, `RefusesForAReason` |
| `MakeDevs`, `MCMakeDevs` | the device table after the users table, as the script of fs/common.mk runs them, and the instance of both |
| `MakeDevsProofs` | `TablesAreApplied` |
| `ToolchainWrapper`, `MCToolchainWrapper` | main of the wrapper and its instance |
| `ToolchainWrapperProofs` | `BufferSuffices`, `NeverContradicts`, `UnsafeAlwaysFound` |

Interactions are modelled where they carry the properties: `Download` is what
concurrent runs of the wrapper do to one directory; `MakeDevs` EXTENDS `MkUsers`
and starts from the passwd file it leaves; `Conf`, `Mconf`, `Nconf` and `Gconf` share the
files, the memory and the functions of the Kconfig modules as the programs share
the C files, and `KconfigSession` runs them in any order.

### Download

`out[f]` is the file under its final name in `$(PKG)_DL_DIR`, `tmp[t]` a file
that `mktemp` made next to it, `lock` the holder of `.lock`. For each build `pc`
says where it stands: `want` before each file of `$(PKG)_ALL_DOWNLOADS`, then
the points of dl-wrapper (`legacy`, `copy`, `existing`, `remove`, `fetch`,
`verify`, `mktemp`, `save`, `cat`, `mv`, `return`), then `downloaded` (the stamp
exists) and `extracted`. There is one action per command whose effect another
process, a kill or a full disk can come before or after: saving is `MkTemp`,
`CatBegin`, `CatEnd`, `Move`; a copy from the legacy directory `LegacyCopyBegin`,
`LegacyCopyEnd` or `LegacyCopyFail`. `CheckHash` is check-hash with its four exit
codes, on abstract contents: complete files, a partial one (`Short`), one written
onto leftovers (`Mixed`), an empty one. What a site may deliver is the constant
`Serves`; it may differ from one attempt to the next.

The extraction is a step of its own without the lock, since nothing in
`.stamp_extracted` checks the file again. This is where the property that
matters most, `HeldVerified`, gets its force: it relates what one build was told
to what all others do to the directory later. It needs `CompatibleHashes`: no
hash file refutes what another one accepts. Without it (`HashFile <- MCHashConflict`,
two trees that share a download location and know different hashes for the same
file name) TLC finds that one tree extracts what the other put there after the check.

### GitCache

`cache` is the clone: whether `git init` and later commands work on it
(`ok`, `damaged` that `git init` repairs with the loss of some objects, `broken`
that only removal helps), the changesets and the tag it has, the current head and
the contents of the work tree. Every command of the script is an action; each
may fail because of the cache (`CacheAtFault`) or for some other reason
(`Spurious`, bounded by `MaxFaults`). `OnError` is the trap, and `RemoveCache` its `rm -rf`.

No removal or writing of a work tree is atomic: `HalfDone` is what the `rm -rf` of the
submodules (line 160), the checkout and the update leave when a kill or a fault breaks them off, and
`HalfRemoved` what a killed `rm -rf` of the whole cache (line 41) leaves: any part of the work tree, with the
repository, with less of it, or without. Files may then be in a directory that is a submodule's, for
the changeset they are of or for another one (`Under`), and that has no repository in it. `Stray(c)` stands for these.
`git submodule foreach` skips such a directory, `git clean -ffdx` spares it if it is a submodule's in the
changeset checked out, and `git submodule update` overwrites the files, leaves them there, or fails because of them.
So they get into the archive, and `ArchiveIsCset` says when (only if `brokenOff`: such a break
happened since the cache was made) and where.

The subtle part is `set -E`: a command substitution inherits the trap, so that an error in `$(...)`
executes the whole script again inside the substitution (`within`), and the
waiting script goes on afterwards in a directory that was removed (`gone`).
`nested` remembers that this happened in the present run.

### PackageSteps

`stamp[t]` is a stamp file: `none`, `ok`, or `old`, older than a prerequisite.
`Prereqs` and `OrderOnly` are the rules of `pkg-generic.mk`, for packages with
and without `_OVERRIDE_SRCDIR`, of type host or target, with any of the install
steps. A run of make has a request, a list of stamps that `-clean-for-...` has
still to remove (`cleaning`), and a state per target (`visit`). `Jobs` recipes run
at once, a number that Init takes from `Jobs`; with one job a request is cleaned
before its package is made, with more it is just another job. The recipe of `.stamp_patched` is modelled patch by patch
with the list of `apply-patches.sh`. `fresh[t]` is a history variable: `t` was done
since the last time an earlier step of the package was. `Needed[r]`, what make comes to
for a request, is a constant that `NeededAssumption` makes the goals and what they depend on
(`MCPackageSteps` computes it), `Rank` is the order of the steps of a package, and `Layered`
says that the rules have no circle.

### Kconfig

The Kconfig files are a constant: `Sources[t]` is the list of entries the parser
gives, in the order of the files, each with its parent, its own conditions and its
properties. `KconfigMenu!menu_finalize` makes of it what the programs work with, `k`:
the tree, the dependencies of each symbol, what selects and implies it, the values of
each choice. Conditions are records (`Sym`, `Not`, `Two`, `Compare`), and the operators of
`Expressions` have the names of the functions of expr.c. Most of them are recursive
and work in place in C; here they return the new expression. Recursive elimination
from both sides (`expr_eliminate_eq`) and duplicates (`expr_eliminate_dups`) are kept,
since what could be wrong with them is the order in which they take things out.

The variables are those of a process and those of the disk. The last two items below, with `program` and `tree`,
belong to `ConfigFiles`, and the others to the modules that extend it:

* `st`, the memory of the running program: `sym[s]` with `curr` (the value),
  `vis`, `dir`, `rev`, `imp` (what it was calculated from), `valid`, `write`, the user's value
  and the flags `def_user` etc.; `shown[i]` for each entry; `modules`, `changed`, `warned`. `spent` is a history variable:
  `conf_write` has taken `SYMBOL_WRITE` since the values were last made invalid.
  `sym_calc_value(k, x, s)` returns the new memory, so that what calculating one symbol does to
  others, and the order in which they are calculated (`order`, as the hash table
  gives it), are part of the model.
  `With` and `InOrder` are application and `FoldLeft`; they only make TLC calculate one memory before the next.
* `own`, what the program itself keeps: the name of the configuration, the open
  menus and the list they show, whether `<Z>` shows everything, the modes of conf; and
  `asked`, the answer accepted last. `own.lost` is a history variable: the count of changes was set to 0, though
  not all changes are in the file of that name.
* `saving`, how far writing has come: the lines in the temporary file, then the
  rename of the old file, then that of the new one. A program can be killed between any two, and the second rename
  may fail: conf, and who was leaving, end then (`GiveUp`), the menus go on, and the user may try again.
* `disk`, `stamps` (the symbols touched since the last build), `fresh` (whether
  `auto.conf` is newer than `.config`) and `built` (what the last build saw).

conf calls itself down the menu tree; here `todo` is the work list of these calls, and
`ConfStep` takes the first of them up to the next question or the next write. mconf and
nconf are event loops: each key is an action, with all that the handler does, and ends with
building the list that is then on the screen, as `conf()` does, because showing a menu
calculates symbols and changes flags. gconf does not build its list anew: `own.rows` is the
tree of its window (full view), `own.flagged` the symbols with `SYMBOL_CHANGED`, and `update_tree` walks
along the entries and the rows, adding and removing (`AddNode`, `RemoveNode`, `Refilled`). What can be
clicked is what has a row, so that setters are also called for entries that are not
visible. Filling a row calculates symbols, and which rows are filled depends on the flags and on the
option mode (`own.show`). `own.filename` is the file read or written last; "Save" and the question on exit write
`.config` whatever it is. `Kill` ends the program anywhere, `Upgrade` puts the next
version of the Kconfig files in place between two runs, `Build` runs what make would.

`ConfigFiles` is the abstract specification of all that: `FilesSpec` has one action for each change of a file,
with any lines, names and values that the programs might come to. What it asks of them is little: .config is written of the
Kconfig files in use before `auto.conf` follows it (`Comparing`), a symbol is stamped when `auto.conf` is going to say
something else of it (`Stamped`), and `auto.conf` is what .config says (`HeaderReplaced`). `KconfigFiles` takes from it the renames,
`Rebuild` and `NewVersion` as they are, and computes the rest from the memory, as the C code does: it reads the old `auto.conf` over
the values, calculates each symbol and compares. `ImplementsFiles` says that this comes to the same. The run
`kconfig_session` checks it with all the programs, so that what is proved of `FilesSpec` holds of what they do to the files.

`KconfigLoops` has `sym_check_deps` with its marks on symbols and its stack, and `Cyclic`, the
definition it is compared with: the graph of all expressions it looks at.

### MkUsers

`passwd`, `group` and `gshadow` are maps from names to entries; `pass`, `at` and `sub`
say which loop of `main` is at which line and which of its additional groups. The
input, a `table` and the files of a `skeleton`, is chosen by `Init`. `AddUser` is
`add_one_user` up to the printf lines; `Invalid` is `check_user_validity`, and
`generate_uid`, `generate_gid`, `add_one_group` and `add_user_to_group` keep their names.
A `fail`, also one in a command substitution (the script has `set -e`), ends the
run where it is: a user that was removed to be written again is missing then.

Properties hold of lines that describe a user (`UserLines`), because the code
makes exceptions for the others, none of which contradicts its comments: a line
whose uid is below -1 is in no pass and is left out without a word; lines that only
create a group (user `-`) are never checked, so that two of them may give two groups
the same gid, or move a group of the skeleton to another one. That is why there
is no property that gids are unique. They count among the reasons for which a table can be refused,
though (`GroupsDisagree`): a group-only line may take the gid that a user of the skeleton has
its main group by. `MembersListed` says who is a member in the end, neither more nor less: in group the users of the lines
and those of the skeleton, in gshadow only the former if any line names the group (see Observations). `SkeletonGidsUnique` says that no two groups of the skeleton share a gid, as in `system/skeleton/etc/group`.

### MakeDevs

`script` says where the script of fs/common.mk stands: mkusers, makedevs, done, or failed.
`tree` maps names to what is there (type, mode, owner, device numbers, capabilities), `next` is the
line of `devices` to do, `full_name` the file that a following `|xattr` line is about, which
the program keeps from one line to the next, and `ret` its exit code. A line that fails does
not end the program: it goes on with the others and fails in the end. `StartScript` is what comes before
makedevs: everything is given to root, then the homes to their users, with the parents that `mkdir -p` made.
`d` makes
parents as it goes, `r` visits everything below a directory, nodes come in batches of
`count`. `TablesApplied` compares the tree in the end with what the lines say. Of the lines about a file (`About`:
those at which it is there) the last one counts, with the ids users have in passwd then; without
one, a file in a home that was found belongs to its user, and any other to root (`SetByScript`).
The capabilities of a file are those of the xattr lines below a line that names it (`Follows`).

### ToolchainWrapper

`config` is what the wrapper was compiled with (`toolchain-wrapper.mk`), `argv` and `env` what
it is called with: all three are chosen by Init. A word is an option and the rest that
follows it. `args` is the vector, filled step by step as `main` does: the program (and ccache),
the predefined options, float ABI, FP32, tuning, the options of `SOURCE_DATE_EPOCH`, PIE, RELRO,
the caller's words; then the scan for unsafe paths with its index `i`, and exec or exit.
`FitsTheBuffer` counts the words against `EXCLUSIVE_ARGS`. `NothingContradicted` looks at each
word added, and at what the caller said: an option that the exact words of the code exclude is not there.
`UnsafeFound` compares the scan with the directories gcc would search, from the caller's words.

## Runs

| Run | Shows |
|---|---|
| `download_shared` | `Download` implements `SharedDownloads`, no torn file appears and a file no hash file refutes stays, with kills, full disks, linked legacy files, missing hashes and unknown hash types |
| `download_copied` | held files stay verified and verified files are extracted, with legacy files that are copied and copies that break off |
| `download_ends` | every run ends, one reliable site is enough |
| `download_torn` (violation) | a broken-off legacy copy is accepted when there is no hash file; dl-wrapper line 56 promises a download instead |
| `git_cache_reuse` | exact archives (but for strays after a removal or a checkout was broken off), cache never to blame, sound caches kept, runs end, over sequences of runs, kills, moved tags and failing commands |
| `git_cache_empty` (violation) | after a command in a substitution failed the script succeeds with an empty archive, line 69 says it recovers |
| `steps` | patches once; success means up to date, failure has a reason (`EndsAsItShould`); with one job `-rebuild` and `-reconfigure` redo what they promise (`RebuildRestartsAlone`); with one or two nothing is configured before its dependencies are installed |
| `steps_race` (violation) | with two jobs `-rebuild` may rebuild nothing |
| `users_and_devices` | unique uids, lines get the ids and members they ask for (`AsAsked` = `IdsAsAsked` and `MembersListed`), homes are right in the end, a users table is refused only for a reason; an image is made only of a tree in which each line of the device table was carried out |
| `kconfig_expr` | rewriting, transforming, joining and printing a condition keeps what it means; the comparisons that decide what becomes a submenu hide nothing (`SubmenuNeedsParent`) |
| `kconfig_session` | values are current and legal; what is written is consistent, and is all that is in memory, but for a second attempt that writes nothing (`SavesTheConfiguration`); without a change that counts, the file is what is in memory, but for a count that a failed load took away (`UnchangedMeansSaved`); the minimal configuration is enough; an accepted answer is kept; prompts are shown under the conditions the files state, in their order, and loops are reported (`MenusAsWritten`); the programs implement `ConfigFiles` (`ImplementsFiles`); what is built by is current (`BuildIsCurrent`); nothing is lost by a kill; conf can always be answered, and ends |
| `toolchain_wrapper` | the vector is long enough; no option added contradicts one of the caller's; what gcc would search on the build machine is found |

### Bounds

*Download.* Two builds: every property is about one build and what another does
between two of its steps, and the lock makes a third one wait like the second.
Two files, of which one is wanted by both; two contents, of which one is right;
three names for `mktemp`, enough for two kills and one live run. `MaxRuns = 3`
runs of make per build let a build fail, be killed and succeed. The proofs need
none of these bounds.

*GitCache.* Two changesets, one of them only reachable by name, and one the remote does not have; in one
directory both have a submodule, in another one has a submodule and the other files. Runs are
unbounded, since the number of runs is not part of the state. `MaxFaults`,
`MaxKills` and `MaxMoves` of 1 or 2 are enough for a fault in the first attempt,
one in the second, and a killed run before them. `git_cache_empty` has one fault and no kill, so that
what it shows is due to the substitution alone.

*PackageSteps.* A host package, a library installed to staging that depends on
it, an application with an overridden source on top: all rules occur. Two runs of
make, with one job or two (`Jobs`), one failure, and one kill with one job
(`MaxKills` is a function of the number of jobs: kills during a parallel run add
states, not situations, since stamps are written one at a time).

*Kconfig.* Four sets of files: packages (a selection, a number with a range and
a default out of it, a choice), upgraded (what follows packages: a symbol gone, others new), modules
(tristates, an implication, a choice of modules) and menus (menus, `visible if`,
`if`, `menuconfig`, a submenu by dependency, a hex number, a string, a comment). `MaxRuns` programs
are run on each (2 on packages, so that one follows the other and a kill and an upgrade come in between),
`MaxEdits` changes, loads and saves by a user, failing ones and those tried again too, in the first and second (1 and 2 on packages, else 2: one change,
and one that makes something of it, or loses it; a save that fails, and one more), `MaxDepth = 2` open menus or dialogs. mconf runs on all, nconf and gconf on modules and
menus, and each mode of conf on at least one. `Texts`, `Entered` and `Names` are what a
user types: a number beyond a range, one within, and a second file. Another 270 sets are
all dependencies and selections of two symbols, a choice and its values: no program runs on them
(`MaxRuns` 0), they are for `LoopsReported` in `MenusAsWritten`, in two orders of the symbols, and for the menus.
`kconfig_expr` takes all conditions of up to three operands over a boolean and a tristate, each
below ten parents: the rules of expr.c look at two operands of an operator at a time.

*MkUsers and MakeDevs.* All users tables of up to three lines out of 23, which use fixed and automatic ids,
group-only lines (one gives a group another gid than a skeleton has), malformed ones, additional groups; three skeletons, one of which has
a user of the table and a gshadow. Two ids in the computed range (it runs out
with three users) and two outside of it. Three lines are enough for one that fixes
what a second computes and a third takes. Each is followed by a device table of two lines, and
one of them by all of up to three lines out of 21, of every type, on files, directories and
nothing, in the home of a user and outside of it; the files found belong to somebody else: three are enough for a file made, changed, and named by an xattr line.

*ToolchainWrapper.* Four targets: nothing set, ARM, MIPS and x86, which between them have every
option; all commands of up to two words out of 16, and of three of one kind (float and tuning
options; linking; paths): options interact within a kind. The proof needs no bound.

`CHECK_DEADLOCK FALSE` stands where runs are bounded, or the program ends, so that
the system stops.

### Fairness

`Download!FairSpec` is weak fairness of each build's own steps: the scheduler
runs every process, backends end one way or the other (that is assumed of wget and
git, not shown), and `flock` is granted when it is free for good. Nothing is
assumed of the user (`Make`) or of kills. `GitCache!FairSpec` is weak fairness of the script's steps.
`PackageSteps` has safety properties only: that make ends is make's own doing.

`KconfigSession!Spec` assumes that whoever is asked by conf goes on answering, with any answer
it accepts, and that a program that writes goes on writing. It is
weak fairness of `ConfStep \/ Saving`, with `Going` in place of ENABLED: that the action is possible
whenever conf runs is what `AlwaysAnAnswer` says. Nothing is assumed of a user of
mconf, nconf or gconf.

### Where the properties stop

`ValuesAreCurrent`, `UnchangedMeansSaved` and `MinimalIsEnough` are stated of `Steady` states: mconf, nconf or gconf
waits for a key. `Wavering` states are left out, of `SavesTheConfiguration` too, in which a tristate choice was just set to y while
its values are new: calculating it makes it new again (symbol.c:304), so that its value is another
one each time it is asked for. conf_write_autoconf does not read the old value of a string that the Kconfig files no longer
have (confdata.c:152, for `S_OTHER`), so that it is not stamped when it goes. `ChangesStamped` leaves these strings out, and `StampsTell`, which relates
`auto.conf` to the last build over any number of versions, those that are not set any more. `SubmenuNeedsParent` holds of Kconfig files without modules: for a tristate A, `!A` is
compared like `A=n`. Properties of users hold of lines that describe a user (see above).

## Proofs

`DownloadProofs` holds for all values of the constants
that satisfy the named assumptions of `Download`: any builds, files, sites,
hash files, lists of wanted files, any number of runs and kills.

* `TypeCorrect`: `Spec => []TypeOK`. `TypeOK` is not inductive: the exit of a wrapper
  moves on to the next file, so that the position stays in the list only if it
  was in it; and `mv` reads the temporary file of the build, which must have one.
  `LockInv` adds `Locked` (a build is inside the wrapper just when it holds the lock),
  `InList` and `HasTemp`.
* `WriteCorrect`: `WriteInv` says what the holder of the lock knows at each point
  (the name is free from the first fetch to `mv`, the temporary file holds what was
  written, a pending exit code 0 means an accepted file). It is inductive on top
  of `LockInv`, since nobody else writes while the lock is held (`UnderLock`,
  `Undisturbed`).
* `WholeFiles` and `UnrefutedStays`, when legacy files can be linked (`CanLink`),
  follow from `FileStep`: a step changes a final name only by putting a whole file
  where there was none or by removing a refuted one. Both are false with copies,
  which is the finding of `download_torn`.
* `HeldStaysVerified` and `ExtractionVerified`, for `CompatibleHashes`: `HeldInv` adds
  that nobody holds a file that is being copied, and that a stamped build is at
  the end of its list. `HeldStep` says how a build comes to hold a file,
  `HeldUntouched` that no step touches a held one.

* `Implements`: `ASSUME CanLink PROVE Spec => ImplementsShared`, the refinement mapping being
  `out`, the final names, and `Held`, what each build was told it has. Step by step: `FileStep` gives
  what happens to a final name, `HeldChange` what happens to what a build holds (nothing, all gone, or
  the file just checked is added), and each pair is a step of `SharedDownloads` or a stutter. With copies
  the refinement is false, as a part of a file is seen under its final name.

`GitCacheProofs` holds for any changesets, wherever their submodules are, any moves of tags, faults and kills. `IInv` has these parts:

* `NestedInv`: scripts are executed within a substitution only after a fault, and whoever goes on in a removed
  directory knows it; `RepoInv`: which commands have made the clone what it is at each point.
* `TreeInv`: the work trees of submodules are those of the changeset checked out last. This is what makes
  `ArchiveIsCset` inductive: runs before may have left submodules, and whoever was killed left anything else; those
  of the old head go with `deregister`, before the checkout changes what counts as one, and the rest with `git clean -ffdx`,
  but for the strays. Half-removed submodules never count as submodules of another changeset (`HalfDoneTrees`, `RemnantsOf`).
* `StrayInv`: there are strays only if something was broken off since the cache was made, and behind
  `git clean` only those in the directories of the submodules of the changeset.
* `BlameInv`: in a run that nothing disturbs, the second attempt starts on a new cache and stays without
  fault, and a changeset that can be fetched is there, so that the run fails only for one that is not. And the
  trap removes a cache only if it is broken, its tag was moved, or strays are in it (`SoundStays`).

`ArchivesExact`, `OneRetrySuffices` and `SoundStays` (`Spec => SoundCacheKept`, an action property) follow.

`PackageStepsProofs` holds for any packages, dependencies, patches, jobs, runs, failures and kills. `IInv`:

* `VisitInv` and `StampInv`: what make has begun has all its prerequisites behind it; what it is done with has
  its stamp, but for those that a parallel `clean-for-...` removes (`MayVanish`). The last one is needed:
  without it the invariant is false, and `steps_race` shows why.
* `SourceInv`, `PatchInv`, `CalmInv`: sources are never out of date, patches are applied in order, and nothing
  is on the list before its time unless a run failed or was killed. They give `PatchesOnce`.
* `FreshInv`, `CurrentInv`, `ReasonInv`: a stamp that make would not renew is the result of the steps before it.
  They give `EndsWell`. The step that adds to `fresh` uses `AfterIsPrereqs`, that what comes after
  a step is reached by the rules.
* `RanInv`: a stamp to be removed is still on the list, or is gone, or was made in this run. It gives `RestartsAlone`.

`DependenciesReady` (`Spec => DepsReady`) takes a depth for which the rules are `Layered`: make drops a prerequisite that
closes a circle, and then a package may be configured before what it depends on. TLC checks `Layered` for the instance.

`MkUsersProofs` holds for all tables, skeletons (in which uids are unique) and ranges.

* `TypeCorrect` and `UniqueUids` come from `UidInv`: types, unique uids, and the main
  groups of the lines passed so far exist, since `AddUser` reads the gid of one. `UidFree`
  is the heart: a uid that `Invalid` does not refuse, or `generate_uid` computed, is the
  user's own or free.
* `HomesCorrect`: `HomesInv` says that each chown written so far agrees with passwd. When
  a user is written again its ids do not change (`HomesStep`): the uid because of
  `UidFree`, the gid because `check_user_validity` compares the old group by name.
* `AllAsAsked`: `AskedInv` says it of each line the passes have come past (`Reached`), and of each additional group
  within a line. `ExtraGroups` is needed for it: a membership is written into a group that a pass before has made.
  `GroupMembers` and `GshadowMembers` are the other direction: nobody is a member without having been put there,
  and gshadow has only members of the lines in a group once `add_one_group` was called for it (`Touched`).
* `RefusesForAReason`, for `SkeletonGidsUnique`: `GroupsInv` and `UsersInv` say where ids come from, the
  skeleton, a line, or a computation that found them free, so that whatever `Invalid` objects to leads back to a line
  or to the skeleton (`InvalidForAReason`); `LowestNone` is that a computation fails only when the range is used up.

`MakeDevsProofs` holds for all trees, homes (none within another), modes, users and device tables that `MakeDevs` assumes.

* `TablesAreApplied`: `DevicesSpec => []TablesApplied`. `TablesApplied` speaks of the end; `Applying` says the same of the
  lines come past (`Handled`), as long as none failed: which files there are (`ExistInv`), that the last line about each
  has set its owner (`OwnerInv`), what `full_name` stands for (`NameInv`), capabilities (`CapsInv`), and that what was
  carried out still is (`LinesInv`). `Started` shows it of the tree the script hands to makedevs, by `HomesInv` of the users.
  Each kind of line is then shown to do one thing (`Applied`): add what it creates, keep what was there, own what it
  covers. For batches of nodes that rests on `NodesNumbered`: no two have the same name, and their names and
  minor numbers are those of the usage text.

`ToolchainWrapperProofs` holds for all compiled-in options, command lines and environments.

* `BufferSuffices`: `Spec => []FitsTheBuffer`. That the vector is long enough in the end is not
  inductive; `IInv` is `Inputs` (types, and that the float ABI and the FP32 mode exclude each
  other) and `Counted`, how many words there are at most at each step. The sum is exactly
  `EXCLUSIVE_ARGS` and the NULL: without the exclusion it would be one too many. Its
  lemmas count what one step appends.
* `NeverContradicts`: `AddedInv` says of each word between the predefined ones and the caller's what justified it, and that
  nothing later takes the justification away, since `argv` does not change.
* `UnsafeAlwaysFound`: `ScanInv` says that the index never stands on a word that is another's path without having
  compared it, and that all before it are reported where they should be. What a path is depends on all words before (`-I -I /x`); the
  recursive function `IsPath` is shown to be `OddRun`, whether the run of such options before a word has an odd length:
  a run is found with the least element that `NatLessThanWellFounded` gives, and two runs that end at the same word are one.

`KconfigProofs` holds, as to files, for any symbols, any versions of the Kconfig files whose entries name symbols
(`SourcesAssumption`), any files at first, and any number of programs, kills, versions and builds.

* `ConfigurationsStay` (`FilesSpec => NothingLost`) and `BuildsAreCurrent` (`FilesSpec => []BuildIsCurrent`) follow from `FilesInv`
  (`FilesInvariance`), which TLC checks too. `SavingInv` says what the program that saves has come to: its file has
  lost its name before another gets it, and .config is as it was when it began to compare. `ComparedInv`: what is not to be
  compared any more is stamped if it is to change. It hands over to `StampedInv` when `auto.conf` gets its name: what
  differs from the last build is stamped, since what differs from the old `auto.conf` is, and what does not differs from the build as before.
* `StampedInv` holds at all times, also when syncconfig was killed halfway: the stamps it had made stay,
  and the next one compares with the same old file. `AutoIsConfig` rests on `FreshInv`: while `auto.conf` is newer, a second syncconfig finds
  it equal to what it would write (`SameAuto`), so that replacing `autoconf.h` first does not set it apart from `auto.conf`.
* `OrJoined` and `AndJoined`: what `expr_join_or` and `expr_join_and` make of two operands about one boolean or tristate is worth
  what the two are, whatever the values are (`Legal`: no boolean is m). `BooleansTested` says it of what
  `expr_transform` makes of a boolean that is compared with a constant, `TurnedAround` of any comparison whose sense it turns. They hold because y, m and n are not
  numbers and differ for strcmp (`TextsAssumption`), so that a symbol equals just the constant it has for value
  (`ComparedAsText`). This is what `SimplificationKeepsValue` rests on; that it holds of a whole expression is induction, and left to TLC.

Some statements turned out to be false in general when their proof was tried, although the instances of
that time agreed with them, and were corrected, in the properties, not in the actions: `FailsForAReason` did not know that a
group-only line can give a group of a skeleton's user another gid; `TablesApplied` gave the parents made inside a home to
its user, and an `F` line for a directory an effect. The instances now contain such lines. `StampsTell` left out
strings that the Kconfig files no longer have. Such a string is not stamped when it goes, and when a later version has it again, without
a value, there is still nothing to compare; so it is the strings that are not set that have to be left out.
`NothingLost` allowed for anything when there already was a file under the other name, which the proof had no need of, and no longer does.

Left to TLC: liveness (`RunsEnd`, `GoodSiteSuffices`, `ScriptEnds`, `ConfEnds`), and of Kconfig what
depends on whole expressions, menus and values: `SimplificationKeepsValue`, `SubmenuNeedsParent`, `PrintedIsMeant`, `AlwaysAnAnswer`,
`ValuesAreCurrent`, `LegalValues`, `WrittenIsConsistent`, `SavesTheConfiguration`, `UnchangedMeansSaved`, `AcceptedIsKept`,
`MinimalIsEnough`, `MenusAsWritten`, and the refinement `ImplementsFiles`. Liveness under fairness and ENABLED are out of the
prover's reach, and so are induction over data and RECURSIVE operators, of which these modules are built: values of
symbols are defined by values of other symbols, and the functions on expressions follow the
recursion of expr.c. Every other property of a passing run has its theorem.

## Not modelled

See `PROJECT.json` for whole components. Of those that are modelled:

* `Download`: file modes and umask (lines 170-183), progress output, the parsing of options;
  backends other than git are one step that delivers a file or fails.
* `GitCache`: the file names and dates in the archive. `rm -rf` is killed, but does not fail by itself.
* `PackageSteps`: `.stamp_actual_downloaded`, hooks, and what the recipes' commands do, except for patching.
* Kconfig: the grammar of Config.in files, preprocessing (`$(...)`), symbols from the
  environment, quoting of strings, `KCONFIG_OVERWRITECONFIG` and `KCONFIG_NOSILENTUPDATE`. In C,
  undefined symbols are compared by name; here every symbol used is defined or a constant. Of the renames of `conf_write`
  the first (line 831), whose result is ignored, fails only without an old file, and those of `auto.conf` do not fail. SIGINT counts when
  mconf waits for a key or shows a message; in the middle of a function it is a kill.
* mconf and nconf: `MENUCONFIG_MODE=single_menu`, the screen, help texts; in nconf a function key
  within the list of a choice is taken as pressed after leaving it, the search goes to one symbol
  at a time, and `child_count`, which is never reset, is left out.
* gconf: the single and split views, which rows are expanded, and the texts and colours in them; a click on the value of a
  number or text that was never set (see Observations). qconf and the merge scripts have no module.
* MkUsers: passwords, shells, comments, shadow, the order of members.
* MakeDevs: symbolic links in the tree, lines with fewer than five fields (user and group
  stay uninitialised), numbers that do not fit their type.
* ToolchainWrapper: `BR2_DEBUG_WRAPPER` output, `exec_ccache` and the path of the compiler beyond which program is run.

## Observations

What was met while modelling and is not a contradiction of the repository's own words, so
that it is not listed as a finding; the models have these behaviours (unless
the line says otherwise).

* git backend. A kill inside one of the two `rm -rf` (lines 41 and 160), or inside a checkout where another changeset has a
  submodule, leaves files in a directory of a submodule without a `.git` in it. The comment at lines 167-169 counts on `git clean`
  to remove what an interrupted run left, but it spares such a directory, and the archive
  gets these files with the changeset's own (tried with git 2.39.2, with and without `-r`). A hash file refuses
  that archive, but the next attempt makes the same one, until the cache is removed.
* mkusers. `add_one_group` (229-238) writes the members a group had back to `/etc/group` only, so that a group of the skeleton
  loses its members in gshadow as soon as a line names it, though lines 38-39 want the two files in sync. `MembersListed`
  states it, and the skeleton with a gshadow shows it.
* Kconfig. A load that fails in mconf, nconf or gconf (a wrong name is enough) leaves the values alone, but sets the
  change count to 0 (confdata.c:413) before it returns (286), so that leaving drops earlier changes without the question
  (`LoadFails`, `F7Fails`, `GLoadFails`; `own.lost` in `UnchangedMeansSaved`).
* `conf_write` takes `SYMBOL_WRITE` from what it writes (confdata.c:807) and has the values calculated again only if nothing
  counts as changed (789). After its last rename failed (832) it therefore writes an empty file when it is called again before something is changed:
  tried again at once, at a later save, or on leaving (`SaveFails`, `NSaveFails`, `GSaveFails`). SIGINT while mconf shows that
  the file was written, or not, does the same (`SignalInMessage`; if the user then wants the configuration saved); its handler leaves also
  after ESC ESC was answered. `SavesTheConfiguration` states both.
* `menu_is_visible` sets `SYMBOL_DEF_USER` of a value of a choice, so that showing a menu can make n of what would later be a default.
* "recursive dependency detected!" never ends the program, since `sym_check_deps` sets its result
  to NULL at the symbol where the loop began. Expressions of `imply` and `range` are not
  looked at, and a loop that goes through the name of a choice is not reported (symbol.c:1291).
* With `<Z>` mconf accepts a text for an invisible entry, which has no effect until it is visible; nconf does not.
* `conf_string` would ask for ever at the end of its input if a default were not valid. What randconfig
  says of changes is only what its last choice says.
* The comment at `expr_trans_bool` speaks of "bool FOO!=n", the code looks at tristates.
* ToolchainWrapper. `EXCLUSIVE_ARGS` is exactly enough; the list in its comment lacks `-mfp`.
  toolchain-wrapper.mk:32 puts `-DBR_NEED_SOURCE_DATE_EPOCH` among the options the wrapper gives to gcc (line 39) instead of those it
  is built with, so that it never gives the options that make dates reproducible. The scan takes the word after `-I` for its value even when gcc takes
  `-isystem` for it, and the prefix `/lib` also stands for `/library`. `-fno-pic` is not looked for.
* MakeDevs. An optional `F` line for a missing file, followed by `|xattr`, ends the program; a `d` line for a regular
  file is accepted; mode -1 on a new directory gives 7777, and parents that are made on
  the way have 0777; nodes that exist are refused. The manual describes start, inc and count
  otherwise than the code and its usage text.
* gconf. `update_tree` returns when the row it removed was the last, so that visible entries
  behind it get their rows with the next update. `display_tree` puts a visible entry of an invisible menu below the row of
  some other entry (a stale `parents[]`), where it stays; loading a file appends the whole tree again. A click on the value of a number or text that
  was never set marks it as set by the user, to a null pointer (symbol.c:539; not modelled). The answers of the setters are
  ignored. "Save as" and "Load" reset the change count and leave the name alone, so that
  leaving asks nothing though `.config` is another file.

## Plan

1. Done: `Download`, `GitCache`, `PackageSteps`, `MkUsers`, `MakeDevs`, the Kconfig modules with conf,
   mconf, nconf and gconf, `ToolchainWrapper`, the proofs of all their safety properties but those of Kconfig, and of these what needs
   no recursion: the files (`ConfigFiles`) and the rules for two operands (`Conditions`).
2. `PackageFiles` (file lists, reinstall, target-finalize repeated), `PerPackageDirs`
   (rsync with hard links, parallel packages; to implement the single directory of a
   serial build), `RootfsImages`; runs with two packages that share a file.
3. `KconfigPackage` and `LegalInfo`, both about unordered or stale steps.
4. The single and split views of gconf, then qconf, whose list views do the same with other rules.
5. Theorems about the modules of 2 and 3, as they are written.
