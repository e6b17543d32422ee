------------------------------ MODULE GitCache ------------------------------
(***************************************************************************)
(* The git backend of the downloads, support/download/git: a local clone   *)
(* ("the git cache") kept in the package's download directory from one     *)
(* download to the next, from which it archives one changeset.  dl-wrapper *)
(* runs it under the flock on that directory, so there is one run at a     *)
(* time; each run may want another changeset, with or without submodules,  *)
(* and any run may be killed and leave the cache as it is.                 *)
(*                                                                         *)
(* An error in a command springs the ERR trap, which removes the cache and  *)
(* executes the script again.  "set -E" makes command substitutions        *)
(* inherit the trap: an error in $(...) re-executes the script inside the  *)
(* substitution, in place of the command, while the script that waits for  *)
(* it goes on afterwards, in a working directory that no longer exists.    *)
(***************************************************************************)
EXTENDS Integers, FiniteSets

CONSTANTS
    Commits,    \* changesets
    Remote,     \* those that a fetch of all references brings
    Special,    \* those only reachable by fetching them by name
    Under,      \* Under[c]: the changesets that have files, or a submodule,
                \* in a directory in which c has a submodule
    Junk,       \* a file left in the work tree that belongs to no changeset
    NoCommit, NoArchive,
    MaxFaults,  \* bound: commands that fail for no reason of the cache's
    MaxKills,   \* bound: runs that are killed
    MaxMoves    \* bound: how often a tag is moved in the remote repository

ASSUME CommitsAssumption ==
    /\ Remote \subseteq Commits /\ Special \subseteq Commits
    /\ Under \in [Commits -> SUBSET Commits]
    /\ NoCommit \notin Commits /\ Junk \notin Commits
ASSUME BoundsAssumption ==
    /\ MaxFaults \in Nat /\ MaxKills \in Nat /\ MaxMoves \in Nat

(* What a work tree or an archive can contain: the files of a changeset,   *)
(* those of its submodules, leftovers, and strays: files of a changeset or *)
(* of its submodules in a directory that is a submodule's for some         *)
(* changeset, but in which there is no repository.  Git takes such a       *)
(* directory neither for a submodule it has nor for an untracked one.      *)
Tracked(c)    == [of |-> c, part |-> "main"]
Submodules(c) == [of |-> c, part |-> "submodules"]
Stray(c)      == [of |-> c, part |-> "stray"]
Leftover      == [of |-> Junk, part |-> "main"]
AllSubmodules == {Submodules(c) : c \in Commits}
Strays        == {Stray(c) : c \in Commits}
Items == {Tracked(c) : c \in Commits} \cup AllSubmodules \cup Strays
         \cup {Leftover}

(* The version of the remote's tag the cache has. *)
NoTag == -1

Cache == [repo : {"none", "ok", "damaged", "broken"}, origin : BOOLEAN,
          commits : SUBSET Commits, tag : -1 .. MaxMoves,
          head : Commits \cup {NoCommit}, tree : SUBSET Items]

NoCache == [repo |-> "none", origin |-> FALSE, commits |-> {}, tag |-> NoTag,
            head |-> NoCommit, tree |-> {}]

VARIABLES
    cache,     \* ${dl_dir}/git
    moved,     \* how often the remote repository has moved its tag
    pc,        \* the command the script is at
    cset, recurse, \* its options
    fault,     \* BR_GIT_BACKEND_FIRST_FAULT
    within,    \* the substitution in which a re-executed script runs, or "none"
    gone,      \* the working directory of the script was removed under it
    output,    \* contents of ${output}
    disturbed, \* this run met a fault that is not the cache's, or a moving tag
    nested,    \* in this run, the script was executed again in a substitution
    brokenOff, \* since the cache was made, a command that removes or writes a
               \* work tree was broken off
    faults, kills

vars == <<cache, moved, pc, cset, recurse, fault, within, gone, output,
          disturbed, nested, brokenOff, faults, kills>>
run  == <<cset, recurse, fault, within, gone>>
counters == <<moved, disturbed, nested, brokenOff, faults, kills>>

Commands == {"init", "origin", "fetch", "tags", "deregister", "checkout",
             "clean", "date", "update", "gitdirs", "archive"}

(* The commands that, broken off, leave a work tree half removed or half   *)
(* written; "remove" is the trap's rm -rf of the whole cache.              *)
OnWorkTrees == {"deregister", "checkout", "update", "remove"}

Resting == {"idle", "done", "failed"}

Init ==
    /\ cache = NoCache /\ moved = 0
    /\ pc = "idle" /\ cset = NoCommit /\ recurse = FALSE
    /\ fault = FALSE /\ within = "none" /\ gone = FALSE
    /\ output = NoArchive
    /\ disturbed = FALSE /\ nested = FALSE /\ brokenOff = FALSE
    /\ faults = 0 /\ kills = 0

(* dl-wrapper runs the backend for some changeset. *)
Start ==
    /\ pc \in Resting
    /\ cset' \in Commits /\ recurse' \in BOOLEAN
    /\ pc' = "init" /\ fault' = FALSE /\ within' = "none" /\ gone' = FALSE
    /\ output' = NoArchive /\ disturbed' = FALSE /\ nested' = FALSE
    /\ UNCHANGED <<cache, moved, brokenOff, faults, kills>>

Do(command, next) ==
    /\ pc = command /\ pc' = next
    /\ UNCHANGED <<run, output, counters>>

(* git init creates the repository, or repairs some kinds of damage; objects *)
(* may be missing then.                                                    *)
GitInit ==
    /\ Do("init", "origin")
    /\ \/ cache.repo \in {"ok", "broken"} /\ UNCHANGED cache
       \/ cache.repo = "none" /\ cache' = [cache EXCEPT !.repo = "ok"]
       \/ /\ cache.repo = "damaged"
          /\ \E lost \in SUBSET cache.commits :
                cache' = [cache EXCEPT !.repo = "ok", !.commits = @ \ lost]

Healthy == cache.repo = "ok"

(* A command fails for some reason that is not the cache: network, disk... *)
Spurious ==
    /\ faults < MaxFaults
    /\ faults' = faults + 1 /\ disturbed' = TRUE

(* git remote add origin, unless there is one; then set its URL. *)
RemoteOrigin ==
    /\ Do("origin", "fetch") /\ Healthy
    /\ cache' = [cache EXCEPT !.origin = TRUE]

FetchOrigin ==
    /\ Do("fetch", "tags") /\ Healthy
    /\ cache' = [cache EXCEPT !.commits = @ \cup Remote,
                              !.tag = IF @ = NoTag THEN moved ELSE @]

(* git fetch -t refuses to overwrite a tag that points elsewhere. *)
TagsAgree == cache.tag = moved
FetchTags ==
    /\ Do("tags", "special") /\ Healthy /\ TagsAgree
    /\ UNCHANGED cache

(* Trying to fetch the changeset by its name; that this fails is no error, *)
(* neither for a changeset that has no such name nor for any other reason. *)
FetchSpecial ==
    /\ pc = "special" /\ pc' = "verify"
    /\ \/ cset \notin Special /\ UNCHANGED <<cache, faults, disturbed>>
       \/ /\ cset \in Special
          /\ cache' = [cache EXCEPT !.commits = @ \cup {cset}]
          /\ UNCHANGED <<faults, disturbed>>
       \/ Spurious /\ UNCHANGED cache
    /\ UNCHANGED <<run, output, moved, nested, brokenOff, kills>>

(* rev-parse --verify; a missing changeset ends the script, not the trap. *)
CommitExists ==
    /\ Do("verify", "deregister") /\ cset \in cache.commits
    /\ UNCHANGED cache

MutCommitMissing == \* a plain command, which springs the trap
    /\ pc = "verify" /\ cset \notin cache.commits
    /\ IF fault
       THEN pc' = "exit 1" /\ UNCHANGED <<cache, fault, gone>>
       ELSE /\ pc' = "remove" /\ UNCHANGED cache
            /\ fault' = TRUE /\ gone' = FALSE
    /\ UNCHANGED <<cset, recurse, within, output, counters>>

CommitMissing ==
    /\ pc = "verify" /\ cset \notin cache.commits
    /\ pc' = "exit 1"
    /\ UNCHANGED <<cache, run, output, counters>>

(* The work trees of the submodules of the current index are removed, where *)
(* foreach finds a repository in them.                                     *)
Deregister ==
    /\ Do("deregister", "checkout") /\ Healthy
    /\ cache' = [cache EXCEPT !.tree = @ \ {Submodules(cache.head)}]

(* checkout -f replaces the tracked files and leaves untracked ones. *)
Checkout ==
    /\ Do("checkout", "clean") /\ Healthy
    /\ cache' = [cache EXCEPT !.head = cset,
                              !.tree = (@ \ {Tracked(cache.head)}) \cup {Tracked(cset)}]

MutClean == \* clean -fdx, which spares nested repositories, and before it ran
    /\ Do("clean", "date") /\ Healthy
    /\ UNCHANGED cache

(* clean -ffdx removes all that is neither tracked nor in a directory that *)
(* is a submodule's in the changeset checked out.                          *)
Clean ==
    /\ Do("clean", "date") /\ Healthy
    /\ cache' = [cache EXCEPT !.tree = @ \cap ({Tracked(cset), Submodules(cset)}
                                        \cup {Stray(c) : c \in Under[cset]})]

(* date="$( git log ... )" *)
Date ==
    /\ Do("date", IF recurse THEN "update" ELSE "archive") /\ Healthy
    /\ UNCHANGED cache

(* submodule update overwrites strays, or leaves them beside its files. *)
Update ==
    /\ Do("update", "gitdirs") /\ Healthy /\ ~gone
    /\ \E kept \in SUBSET (cache.tree \cap Strays) :
          cache' = [cache EXCEPT !.tree = (@ \ Strays) \cup kept \cup {Submodules(cset)}]

(* for module_dir in $( git submodule foreach ... ) *)
GitDirs == Do("gitdirs", "archive") /\ Healthy /\ ~gone /\ UNCHANGED cache

(* find, sort, tar and gzip put what the working directory holds in output. *)
Archive ==
    /\ pc = "archive"
    /\ output' = IF gone THEN {} ELSE cache.tree
    /\ pc' = "exit 0"
    /\ UNCHANGED <<cache, run, counters>>

(***************************************************************************)
(* Errors.  A command fails because of the state the cache is in, or for   *)
(* some other reason (network, disk, memory).                              *)
(***************************************************************************)
Astray == cache.tree \cap Strays # {}

(* What the state of the cache makes fail; strays may fail an update.      *)
CacheAtFault ==
    \/ pc \in Commands \ {"init", "archive"} /\ ~Healthy
    \/ pc = "tags" /\ ~TagsAgree
    \/ pc \in {"update", "gitdirs"} /\ gone
    \/ pc = "update" /\ Astray

(* The work tree a command leaves that is broken off, by a kill or a full  *)
(* disk: submodules without their .git, files of a changeset that no index *)
(* has, or has yet.                                                        *)
HalfDone ==
    CASE pc = "deregister" /\ Submodules(cache.head) \in cache.tree ->
            {cache.tree, (cache.tree \ {Submodules(cache.head)}) \cup {Stray(cache.head)}}
      [] pc = "checkout" ->
            {cache.tree \cup part : part \in SUBSET {Tracked(cset), Stray(cset)}}
      [] pc = "update" ->
            {cache.tree, cache.tree \cup {Submodules(cset)}}
      [] OTHER -> {cache.tree}

BreaksOff == brokenOff' = (brokenOff \/ pc \in OnWorkTrees)

Substitution == {"date", "gitdirs"}

Failing ==
    \/ CacheAtFault /\ UNCHANGED <<cache, brokenOff, faults, disturbed>>
    \/ /\ Spurious /\ BreaksOff
       /\ \E tree \in HalfDone : cache' = [cache EXCEPT !.tree = tree]

MutOnErrorKeeps == \* the script is executed again on the cache as it is
    /\ IF fault
       THEN pc' = "exit 1" /\ UNCHANGED <<fault, gone>>
       ELSE /\ pc' = "init"
            /\ fault' = TRUE /\ gone' = FALSE
    /\ UNCHANGED <<moved, cset, recurse, output, kills>>

MutOnErrorAgain == \* execute the script again, without a trace of the fault
    /\ pc' = "init"
    /\ gone' = FALSE
    /\ UNCHANGED <<fault, moved, cset, recurse, output, kills>>

(* The trap: the second fault in a row ends the script, the first one      *)
(* removes the cache and executes the script again.                        *)
OnError ==
    /\ IF fault
       THEN /\ pc' = "exit 1"
            /\ UNCHANGED <<fault, gone>>
       ELSE /\ pc' = "remove"
            /\ fault' = TRUE /\ gone' = FALSE
    /\ UNCHANGED <<moved, cset, recurse, output, kills>>

RemoveCache ==
    /\ pc = "remove" /\ pc' = "init"
    /\ cache' = NoCache /\ brokenOff' = FALSE
    /\ UNCHANGED <<run, output, moved, disturbed, nested, faults, kills>>

CommandFails ==
    /\ pc \in Commands \ Substitution
    /\ Failing
    /\ OnError
    /\ UNCHANGED <<within, nested>>

(* In a substitution it is the subshell that executes the script again; on  *)
(* a second fault the subshell ends, which "date=" takes for an error and  *)
(* "for" does not notice.                                                  *)
SubstitutionFails ==
    /\ pc \in Substitution
    /\ Failing
    /\ IF fault /\ pc = "gitdirs"
       THEN /\ pc' = "archive"
            /\ UNCHANGED <<moved, run, output, nested, kills>>
       ELSE /\ OnError
            /\ within' = IF fault THEN within ELSE pc
            /\ nested' = (nested \/ ~fault)

(* The end of a script: of the backend, or of one that was executed in a    *)
(* substitution, whose exit code the waiting script sees, with a first      *)
(* fault still ahead of it and its working directory removed.               *)
Exit ==
    /\ pc \in {"exit 0", "exit 1"} /\ within = "none"
    /\ pc' = IF pc = "exit 0" THEN "done" ELSE "failed"
    /\ UNCHANGED <<cache, run, output, counters>>

ExitWithin ==
    /\ pc \in {"exit 0", "exit 1"} /\ within # "none"
    /\ within' = "none"
    /\ IF within = "date" /\ pc = "exit 1"
       THEN /\ pc' = "remove"
            /\ fault' = TRUE /\ gone' = FALSE
       ELSE /\ pc' = IF within = "date" /\ recurse THEN "update" ELSE "archive"
            /\ fault' = FALSE /\ gone' = TRUE
    /\ UNCHANGED <<cache, cset, recurse, output, counters>>

(* The run is killed: a git command that was writing leaves its lock file,  *)
(* a half-written repository, or a half-written work tree behind.          *)
Kill ==
    /\ pc \in Commands /\ kills < MaxKills
    /\ kills' = kills + 1 /\ BreaksOff
    /\ pc' = "idle"
    /\ \E repo \in {cache.repo, "damaged", "broken"}, tree \in HalfDone,
          extra \in SUBSET {Leftover} :
          cache' = IF cache.repo = "none" THEN [cache EXCEPT !.repo = repo]
                   ELSE [cache EXCEPT !.repo = repo, !.tree = tree \cup extra]
    /\ UNCHANGED <<run, output, moved, disturbed, nested, faults>>

(* The rm -rf of the cache is killed: some of the files, and anything from  *)
(* all to nothing of the repository, are still there.  Without the index   *)
(* or their .git, submodules are so no longer.                             *)
Remnants(head) ==
    SUBSET ((IF head = NoCommit THEN cache.tree \ AllSubmodules ELSE cache.tree)
            \cup {Stray(c) : c \in {d \in Commits :
                     {Tracked(d), Submodules(d)} \cap cache.tree # {}}})

HalfRemoved ==
    \/ \E tree \in Remnants(NoCommit) : cache' = [NoCache EXCEPT !.tree = tree]
    \/ /\ cache.repo # "none"
       /\ \E repo \in {cache.repo, "damaged", "broken"}, tag \in {cache.tag, NoTag},
             head \in {cache.head, NoCommit} : \E tree \in Remnants(head) :
             cache' = [cache EXCEPT !.repo = repo, !.tag = tag, !.head = head,
                                    !.tree = tree]

KillRemoval ==
    /\ pc = "remove" /\ kills < MaxKills
    /\ kills' = kills + 1 /\ BreaksOff
    /\ pc' = "idle"
    /\ HalfRemoved
    /\ UNCHANGED <<run, output, moved, disturbed, nested, faults>>

(* Somebody moves a tag in the remote repository. *)
MoveTag ==
    /\ moved < MaxMoves /\ moved' = moved + 1
    /\ disturbed' = (disturbed \/ pc \notin Resting)
    /\ UNCHANGED <<cache, pc, run, output, nested, brokenOff, faults, kills>>

Script ==
    \/ GitInit \/ RemoteOrigin \/ FetchOrigin \/ FetchTags \/ FetchSpecial
    \/ CommitExists \/ CommitMissing \/ Deregister \/ Checkout \/ Clean
    \/ Date \/ Update \/ GitDirs \/ Archive
    \/ CommandFails \/ SubstitutionFails \/ RemoveCache \/ Exit \/ ExitWithin

Next == Start \/ Script \/ Kill \/ KillRemoval \/ MoveTag
Spec == Init /\ [][Next]_vars
FairSpec == Spec /\ WF_vars(Script)

-----------------------------------------------------------------------------

Wanted == {Tracked(cset)} \cup (IF recurse THEN {Submodules(cset)} ELSE {})
Exact  == output = Wanted

(* git lines 137-209: whatever changesets, submodules and killed runs the  *)
(* cache has seen before, an archive has the files of the changeset asked  *)
(* for, those of its submodules if they are wanted, and nothing else, as   *)
(* long as no command substitution was the one to fail; but after a        *)
(* command that removes or writes work trees was broken off, and until the *)
(* cache is next removed, strays may be with them, in the directories of   *)
(* the submodules the changeset has.                                       *)
ArchiveIsCset ==
    pc = "done" /\ ~nested =>
        /\ output \ Strays = Wanted
        /\ output \cap Strays \subseteq
              IF brokenOff THEN {Stray(c) : c \in Under[cset]} ELSE {}

(* Line 69: "Any error now should try to recover": one in a command        *)
(* substitution, too, ends in an exact archive or in a failure.            *)
RecoversFromAnyError == pc = "done" => Exact

(* _on_error, lines 28-44: in whatever state the cache is, starting afresh *)
(* is enough: a run fails only for a changeset the remote does not have,    *)
(* or because something else than the cache failed meanwhile.              *)
CacheNeverToBlame ==
    pc = "failed" => disturbed \/ cset \notin Remote \cup Special

(* Lines 129-131: a sound cache, expensive to build again, is not thrown   *)
(* away, for a missing changeset least of all.                             *)
SoundCacheKept ==
    [][cache' = NoCache /\ cache # NoCache
         => disturbed' \/ cache.repo = "broken" \/ ~TagsAgree \/ Astray]_vars

(* A backend that is running ends, as dl-wrapper, and everyone who waits   *)
(* for the flock it holds, counts on.                                      *)
ScriptEnds == pc \notin Resting ~> pc \in Resting
=============================================================================
