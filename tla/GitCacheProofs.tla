--------------------------- MODULE GitCacheProofs ---------------------------
(***************************************************************************)
(* Proofs about the git backend's cache: whatever changesets it was used   *)
(* for before, wherever it was killed and whatever commands failed, an     *)
(* archive is exact but for the strays of work trees that were broken off, *)
(* a failure is never the cache's, and a sound cache is kept.  For any     *)
(* number of changesets, wherever their submodules are, and any number of  *)
(* faults, kills and moves of a tag.                                       *)
(***************************************************************************)
EXTENDS GitCache, TLAPS

Points == Commands \cup Resting
          \cup {"special", "verify", "remove", "exit 0", "exit 1"}

CountersOK ==
    moved \in 0 .. MaxMoves /\ faults \in 0 .. MaxFaults /\ kills \in 0 .. MaxKills

TypeOK ==
    /\ cache \in Cache /\ CountersOK
    /\ pc \in Points
    /\ cset \in Commits \cup {NoCommit} /\ recurse \in BOOLEAN
    /\ fault \in BOOLEAN /\ within \in {"none"} \cup Substitution
    /\ gone \in BOOLEAN /\ disturbed \in BOOLEAN /\ nested \in BOOLEAN
    /\ brokenOff \in BOOLEAN
    /\ pc # "idle" => cset \in Commits

(* The commands between two points of the script. *)
FromFetch     == {"fetch", "tags", "special", "verify", "deregister",
                  "checkout", "clean", "date"}
FromTags      == FromFetch \ {"fetch"}
FromClean     == {"clean", "date", "update", "gitdirs"}
InSubmodules  == {"update", "gitdirs", "archive"}

(* Where a script is that still has its working directory. *)
Past(commands) == pc \in commands \/ (pc \in InSubmodules /\ ~gone)

(* Scripts are nested only in a run that knows it, and only after a fault. *)
NestedInv ==
    /\ within # "none" => nested /\ fault
    /\ gone => nested /\ within = "none" /\ ~fault
    /\ gone => pc \in {"update", "archive", "exit 0"} \cup Resting
    /\ nested => disturbed
    /\ pc \in Resting \ {"idle"} => within = "none"

(* What the commands that succeeded have made of the cache. *)
RepoInv ==
    /\ cache.repo = "none" => cache.tag = NoTag /\ cache.head = NoCommit
    /\ pc = "origin" => cache.repo \in {"ok", "broken"}
    /\ Past(FromFetch) => Healthy
    /\ Past(FromTags) => Remote \subseteq cache.commits

(* The work trees of submodules are those of the changeset checked out last. *)
TreeInv ==
    /\ \A c \in Commits : Submodules(c) \in cache.tree => c = cache.head
    /\ pc = "checkout" => \A c \in Commits : Submodules(c) \notin cache.tree
    /\ pc = "clean" => /\ Tracked(cset) \in cache.tree
                       /\ Submodules(cset) \notin cache.tree
    /\ pc \in FromClean => cache.head = cset
    /\ pc \in {"archive", "exit 0"} /\ within # "none" => cache.head = cset
    /\ (pc = "date" \/ (pc = "update" /\ ~gone)) => cache.tree \ Strays = {Tracked(cset)}
    /\ pc \in {"update", "gitdirs"} => recurse
    /\ pc \in {"gitdirs", "archive"} /\ ~gone => cache.tree \ Strays = Wanted
    /\ pc \in {"exit 0", "done"} /\ ~nested => output \ Strays = Wanted

(* The strays that git clean spares. *)
Spared == {Stray(c) : c \in Under[cset]}

(* Strays come from commands that were broken off, and after git clean they *)
(* are in the directories of submodules only.                              *)
StrayInv ==
    /\ Astray => brokenOff
    /\ Past({"date"}) => cache.tree \cap Strays \subseteq Spared
    /\ pc \in {"exit 0", "done"} /\ ~nested =>
          output \cap Strays \subseteq IF brokenOff THEN Spared ELSE {}

(* A run that nothing disturbs: a second attempt, on a new cache, has no   *)
(* reason to fail, and a changeset that can be fetched is there.           *)
BlameInv == ~disturbed =>
    /\ fault /\ pc = "init" => cache = NoCache
    /\ fault /\ pc = "origin" => Healthy
    /\ fault /\ pc \in {"init", "origin", "fetch"} => cache.tag = NoTag
    /\ fault /\ pc = "tags" => TagsAgree
    /\ fault /\ pc \in Commands \cup {"special", "verify"} => ~Astray
    /\ pc = "remove" => cache.repo = "broken" \/ ~TagsAgree \/ Astray
    /\ pc = "verify" /\ cset \in Special => cset \in cache.commits
    /\ pc \in {"exit 1", "failed"} => cset \notin Remote \cup Special

IInv == TypeOK /\ NestedInv /\ RepoInv /\ TreeInv /\ StrayInv /\ BlameInv

-----------------------------------------------------------------------------

LEMMA Versions == 0 .. MaxMoves \subseteq -1 .. MaxMoves /\ NoTag \in -1 .. MaxMoves
  BY BoundsAssumption DEF NoTag

LEMMA NewCache ==
    NoCache \in Cache /\ NoCache.repo = "none" /\ NoCache.tree = {}
  BY Versions DEF NoCache, Cache

(* Only commands that fail, kills and moved tags are counted. *)
LEMMA CountersStep ==
  ASSUME CountersOK, [Next]_vars
  PROVE  CountersOK'
<1> USE BoundsAssumption DEF CountersOK, counters
<1>1. CASE Start
  BY <1>1 DEF Start
<1>2. CASE Kill
  BY <1>2 DEF Kill
<1>3. CASE MoveTag
  BY <1>3 DEF MoveTag
<1>4. ASSUME Failing, UNCHANGED <<moved, kills>>
      PROVE  CountersOK'
  BY <1>4 DEF Failing, Spurious
<1>12. CASE KillRemoval
  BY <1>12 DEF KillRemoval
<1>13. CASE RemoveCache
  BY <1>13 DEF RemoveCache
<1>5. CASE CommandFails
  BY <1>4, <1>5 DEF CommandFails, OnError
<1>6. CASE SubstitutionFails
  BY <1>4, <1>6 DEF SubstitutionFails, OnError
<1>7. CASE FetchSpecial
  BY <1>7 DEF FetchSpecial, Spurious
<1>8. CASE ExitWithin
  BY <1>8 DEF ExitWithin
<1>9. CASE Archive \/ CommitMissing \/ Exit
  BY <1>9 DEF Archive, CommitMissing, Exit
<1>10. ASSUME NEW command, NEW next, Do(command, next)
       PROVE  CountersOK'
  BY <1>10 DEF Do
<1>11. CASE UNCHANGED vars
  BY <1>11 DEF vars
<1> QED
  BY <1>1, <1>2, <1>3, <1>5, <1>6, <1>7, <1>8, <1>9, <1>10, <1>11, <1>12,
     <1>13
  DEF Next, Script, GitInit, RemoteOrigin, FetchOrigin, FetchTags,
      CommitExists, Deregister, Checkout, Clean, Date, Update, GitDirs

LEMMA Initially == Init => IInv
<1> SUFFICES ASSUME Init PROVE IInv
  OBVIOUS
<1>1. CountersOK
  BY BoundsAssumption DEF Init, CountersOK
<1>2. TypeOK
  BY <1>1, NewCache DEF Init, TypeOK, Points, Resting
<1>3. NestedInv /\ BlameInv
  BY DEF Init, NestedInv, BlameInv, Resting, Commands
<1>4. RepoInv
  BY DEF Init, RepoInv, Past, FromFetch, FromTags, InSubmodules, NoCache
<1>5. TreeInv /\ StrayInv
  BY DEF Init, TreeInv, NoCache, FromClean, StrayInv, Astray, Past, InSubmodules
<1> QED
  BY <1>2, <1>3, <1>4, <1>5 DEF IInv

(* What a command leaves that is broken off: only strays, files of its own, *)
(* and never submodules of another changeset than the one checked out.     *)
LEMMA HalfDoneTrees ==
  ASSUME TypeOK, TreeInv, pc \in Commands, NEW tree \in HalfDone
  PROVE  /\ tree \in SUBSET Items
         /\ \A c \in Commits : Submodules(c) \in tree => c = cache.head
         /\ tree \cap Strays # {} => Astray \/ pc \in OnWorkTrees
<1> USE CommitsAssumption DEF Items, AllSubmodules, Strays, Tracked, Submodules,
        Stray, Leftover, Astray, OnWorkTrees
<1>0. cset \in Commits /\ cache.tree \in SUBSET Items
  BY DEF TypeOK, Commands, Cache
<1>1. \A c \in Commits : Submodules(c) \in cache.tree => c = cache.head
  BY DEF TreeInv
<1>2. CASE tree = cache.tree
  BY <1>0, <1>1, <1>2
<1>3. CASE /\ pc = "deregister" /\ Submodules(cache.head) \in cache.tree
           /\ tree = (cache.tree \ {Submodules(cache.head)}) \cup {Stray(cache.head)}
  <2>1. cache.head \in Commits
    BY <1>0, <1>3
  <2> QED
    BY <1>0, <1>1, <1>3, <2>1
<1>4. CASE /\ pc = "checkout"
           /\ \E part \in SUBSET {Tracked(cset), Stray(cset)} : tree = cache.tree \cup part
  <2>1. PICK part \in SUBSET {Tracked(cset), Stray(cset)} : tree = cache.tree \cup part
    BY <1>4
  <2>2. part \in SUBSET Items /\ \A c \in Commits : Submodules(c) \notin part
    BY <1>0, <2>1
  <2> QED
    BY <1>0, <1>1, <1>4, <2>1, <2>2
<1>5. CASE pc = "update" /\ tree = cache.tree \cup {Submodules(cset)}
  <2>1. cset = cache.head
    BY <1>5 DEF TreeInv, FromClean
  <2> QED
    BY <1>0, <1>1, <1>5, <2>1
<1> QED
  BY <1>2, <1>3, <1>4, <1>5 DEF HalfDone

(* A command that fails changes at most the work tree. *)
LEMMA FailedCache ==
  ASSUME cache \in Cache, Failing
  PROVE  \E tree \in HalfDone \cup {cache.tree} : cache' = [cache EXCEPT !.tree = tree]
<1>1. cache = [cache EXCEPT !.tree = cache.tree]
  BY DEF Cache
<1> QED
  BY <1>1 DEF Failing

LEMMA FailedTree ==
  ASSUME TypeOK, TreeInv, pc \in Commands, Failing
  PROVE  /\ cache' \in Cache
         /\ cache'.repo = cache.repo /\ cache'.commits = cache.commits
         /\ cache'.tag = cache.tag /\ cache'.head = cache.head
         /\ \A c \in Commits : Submodules(c) \in cache'.tree => c = cache'.head
         /\ cache'.tree \cap Strays # {} => brokenOff' \/ Astray
         /\ brokenOff' \in BOOLEAN /\ (brokenOff => brokenOff')
<1>1. cache \in Cache
  BY DEF TypeOK
<1>2. PICK tree \in HalfDone \cup {cache.tree} : cache' = [cache EXCEPT !.tree = tree]
  BY <1>1, FailedCache
<1>3. /\ cache'.tree = tree /\ cache'.repo = cache.repo
      /\ cache'.commits = cache.commits /\ cache'.tag = cache.tag
      /\ cache'.head = cache.head
  BY <1>1, <1>2 DEF Cache
<1>4. /\ tree \in SUBSET Items
      /\ \A c \in Commits : Submodules(c) \in tree => c = cache.head
  <2>1. CASE tree \in HalfDone
    BY <2>1, HalfDoneTrees
  <2>2. CASE tree = cache.tree
    BY <1>1, <2>2 DEF Cache, TreeInv
  <2> QED
    BY <2>1, <2>2
<1>5. cache' \in Cache
  BY <1>1, <1>2, <1>4 DEF Cache
<1>6. brokenOff' \in BOOLEAN /\ (brokenOff => brokenOff')
  BY DEF Failing, BreaksOff, TypeOK
<1>7. cache'.tree \cap Strays # {} => brokenOff' \/ Astray
  <2>1. CASE cache' = cache
    BY <2>1 DEF Astray
  <2>2. CASE BreaksOff /\ tree \in HalfDone
    BY <1>3, <2>2, HalfDoneTrees DEF BreaksOff
  <2>3. CASE BreaksOff /\ tree = cache.tree
    BY <1>3, <2>3 DEF Astray
  <2> QED
    BY <2>1, <2>2, <2>3 DEF Failing
<1> QED
  BY <1>3, <1>4, <1>5, <1>6, <1>7

(* A kill keeps the repository or damages it, and breaks off a command. *)
LEMMA KilledTree ==
  ASSUME TypeOK, TreeInv, Kill
  PROVE  /\ cache' \in Cache
         /\ cache'.repo = "none" => cache.repo = "none"
         /\ cache'.tag = cache.tag /\ cache'.head = cache.head
         /\ \A c \in Commits : Submodules(c) \in cache'.tree => c = cache'.head
         /\ cache'.tree \cap Strays # {} => brokenOff' \/ Astray
         /\ brokenOff' \in BOOLEAN /\ (brokenOff => brokenOff')
<1>1. cache \in Cache /\ pc \in Commands /\ BreaksOff /\ brokenOff \in BOOLEAN
  BY DEF TypeOK, Kill
<1>2. PICK repo \in {cache.repo, "damaged", "broken"}, tree \in HalfDone,
           extra \in SUBSET {Leftover} :
         cache' = IF cache.repo = "none" THEN [cache EXCEPT !.repo = repo]
                  ELSE [cache EXCEPT !.repo = repo, !.tree = tree \cup extra]
  BY DEF Kill
<1>3. /\ tree \in SUBSET Items
      /\ \A c \in Commits : Submodules(c) \in tree => c = cache.head
      /\ tree \cap Strays # {} => Astray \/ pc \in OnWorkTrees
  BY <1>1, HalfDoneTrees
<1>4. /\ extra \in SUBSET Items /\ extra \cap Strays = {}
      /\ \A c \in Commits : Submodules(c) \notin extra
  BY CommitsAssumption DEF Leftover, Strays, Stray, Submodules, Items
<1>5. CASE cache.repo = "none"
  <2>1. cache' = [cache EXCEPT !.repo = repo]
    BY <1>2, <1>5
  <2> QED
    BY <1>1, <2>1, <1>5 DEF Cache, TreeInv, Astray, BreaksOff
<1>6. CASE cache.repo # "none"
  <2>1. cache' = [cache EXCEPT !.repo = repo, !.tree = tree \cup extra]
    BY <1>2, <1>6
  <2>2. /\ cache'.repo = repo /\ cache'.tag = cache.tag
        /\ cache'.head = cache.head /\ cache'.tree = tree \cup extra
    BY <1>1, <2>1 DEF Cache
  <2>3. cache' \in Cache
    BY <1>1, <1>3, <1>4, <2>1 DEF Cache
  <2> QED
    BY <1>1, <1>3, <1>4, <1>6, <2>2, <2>3 DEF BreaksOff
<1> QED
  BY <1>5, <1>6

(* Nor does the removal of the cache leave submodules without their index. *)
LEMMA RemnantsOf ==
  ASSUME TypeOK, TreeInv, NEW head \in {cache.head, NoCommit},
         NEW tree \in Remnants(head)
  PROVE  /\ tree \in SUBSET Items
         /\ \A c \in Commits : Submodules(c) \in tree => c = head
<1> DEFINE Apart == {Stray(c) : c \in {d \in Commits :
                       {Tracked(d), Submodules(d)} \cap cache.tree # {}}}
<1>1. cache.tree \in SUBSET Items
  BY DEF TypeOK, Cache
<1>2. Apart \in SUBSET Items /\ \A c \in Commits : Submodules(c) \notin Apart
  BY DEF Items, Strays, Stray, Submodules
<1>3. \A c \in Commits : Submodules(c) \in cache.tree => c = cache.head
  BY DEF TreeInv
<1>4. CASE head = NoCommit
  <2>1. tree \subseteq (cache.tree \ AllSubmodules) \cup Apart
    BY <1>4 DEF Remnants
  <2> QED
    BY <1>1, <1>2, <2>1 DEF AllSubmodules
<1>5. CASE head # NoCommit
  <2>1. tree \subseteq cache.tree \cup Apart /\ head = cache.head
    BY <1>5 DEF Remnants
  <2> QED
    BY <1>1, <1>2, <1>3, <2>1
<1> QED
  BY <1>4, <1>5

LEMMA KilledRemoval ==
  ASSUME TypeOK, TreeInv, RepoInv, KillRemoval
  PROVE  /\ cache' \in Cache
         /\ cache'.repo = "none" => cache'.tag = NoTag /\ cache'.head = NoCommit
         /\ \A c \in Commits : Submodules(c) \in cache'.tree => c = cache'.head
<1>1. cache \in Cache /\ NoTag \in -1 .. MaxMoves
  BY Versions DEF TypeOK
<1>2. ASSUME NEW tree \in Remnants(NoCommit), cache' = [NoCache EXCEPT !.tree = tree]
      PROVE  /\ cache' \in Cache
             /\ cache'.repo = "none" => cache'.tag = NoTag /\ cache'.head = NoCommit
             /\ \A c \in Commits : Submodules(c) \in cache'.tree => c = cache'.head
  <2>1. /\ tree \in SUBSET Items
        /\ \A c \in Commits : Submodules(c) \in tree => c = NoCommit
    BY <1>2, RemnantsOf
  <2>2. cache' = [repo |-> "none", origin |-> FALSE, commits |-> {}, tag |-> NoTag,
                  head |-> NoCommit, tree |-> tree]
    BY <1>2 DEF NoCache
  <2> QED
    BY <1>1, <2>1, <2>2 DEF Cache
<1>3. ASSUME cache.repo # "none", NEW repo \in {cache.repo, "damaged", "broken"},
             NEW tag \in {cache.tag, NoTag}, NEW head \in {cache.head, NoCommit},
             NEW tree \in Remnants(head),
             cache' = [cache EXCEPT !.repo = repo, !.tag = tag, !.head = head,
                                    !.tree = tree]
      PROVE  /\ cache' \in Cache
             /\ cache'.repo = "none" => cache'.tag = NoTag /\ cache'.head = NoCommit
             /\ \A c \in Commits : Submodules(c) \in cache'.tree => c = cache'.head
  <2>1. /\ tree \in SUBSET Items
        /\ \A c \in Commits : Submodules(c) \in tree => c = head
    BY <1>3, RemnantsOf
  <2>2. cache'.repo = repo /\ cache'.head = head /\ cache'.tree = tree
    BY <1>1, <1>3 DEF Cache
  <2>3. cache' \in Cache
    BY <1>1, <1>3, <2>1 DEF Cache
  <2> QED
    BY <1>3, <2>1, <2>2, <2>3
<1> QED
  BY <1>2, <1>3 DEF KillRemoval, HalfRemoved

(* The types survive every step. *)
LEMMA TypeStep ==
  ASSUME TypeOK, TreeInv, RepoInv, [Next]_vars
  PROVE  TypeOK'
<1> CountersOK'
  BY CountersStep DEF TypeOK
<1> USE CommitsAssumption
    DEF TypeOK, Points, Commands, Resting, Substitution, run, counters
<1>2. CASE Start
  BY <1>2 DEF Start
<1>3. CASE Kill
  <2>1. cache' \in Cache /\ brokenOff' \in BOOLEAN
    BY <1>3, KilledTree
  <2> QED
    BY <1>3, <2>1 DEF Kill
<1>24. CASE KillRemoval
  <2>1. cache' \in Cache /\ brokenOff' \in BOOLEAN
    BY <1>24, KilledRemoval DEF KillRemoval, BreaksOff
  <2> QED
    BY <1>24, <2>1 DEF KillRemoval
<1>25. CASE RemoveCache
  BY <1>25, NewCache DEF RemoveCache
<1>4. CASE MoveTag
  <2>1. disturbed' \in BOOLEAN
    BY <1>4 DEF MoveTag
  <2> QED
    BY <1>4, <2>1 DEF MoveTag
<1>5. CASE GitInit
  <2>1. cache' \in Cache
    <3>1. CASE UNCHANGED cache
      BY <3>1
    <3>2. CASE cache' = [cache EXCEPT !.repo = "ok"]
      BY <3>2 DEF Cache
    <3>3. ASSUME NEW lost \in SUBSET cache.commits,
                 cache' = [cache EXCEPT !.repo = "ok", !.commits = @ \ lost]
          PROVE  cache' \in Cache
      BY <3>3 DEF Cache
    <3> QED
      BY <1>5, <3>1, <3>2, <3>3 DEF GitInit
  <2> QED
    BY <1>5, <2>1 DEF GitInit, Do
<1>6. CASE RemoteOrigin
  BY <1>6 DEF RemoteOrigin, Do, Cache
<1>7. CASE FetchOrigin
  <2>1. cache' \in Cache
    BY <1>7, Versions DEF FetchOrigin, Cache, CountersOK
  <2> QED
    BY <1>7, <2>1 DEF FetchOrigin, Do
<1>8. CASE FetchTags
  BY <1>8 DEF FetchTags, Do
<1>9. CASE FetchSpecial
  <2>1. cache' \in Cache
    BY <1>9 DEF FetchSpecial, Spurious, Cache
  <2>2. disturbed' \in BOOLEAN
    BY <1>9 DEF FetchSpecial, Spurious
  <2> QED
    BY <1>9, <2>1, <2>2 DEF FetchSpecial
<1>10. CASE CommitExists
  BY <1>10 DEF CommitExists, Do
<1>11. CASE CommitMissing
  BY <1>11 DEF CommitMissing
<1>12. CASE Deregister
  BY <1>12 DEF Deregister, Do, Cache
<1>13. CASE Checkout
  BY <1>13 DEF Checkout, Do, Cache, Items
<1>14. CASE Clean
  BY <1>14 DEF Clean, Do, Cache
<1>15. CASE Date
  BY <1>15 DEF Date, Do
<1>16. CASE Update
  <2>1. PICK kept \in SUBSET (cache.tree \cap Strays) :
          cache' = [cache EXCEPT !.tree = (@ \ Strays) \cup kept \cup {Submodules(cset)}]
    BY <1>16 DEF Update
  <2>2. Submodules(cset) \in Items
    BY <1>16 DEF Update, Do, Items, AllSubmodules
  <2>3. cache' \in Cache
    BY <2>1, <2>2 DEF Cache
  <2> QED
    BY <1>16, <2>3 DEF Update, Do
<1>17. CASE GitDirs
  BY <1>17 DEF GitDirs, Do
<1>18. CASE Archive
  BY <1>18 DEF Archive
<1>19. CASE CommandFails
  <2>0. pc \in Commands /\ Failing
    BY <1>19 DEF CommandFails
  <2>1. disturbed' \in BOOLEAN /\ brokenOff' \in BOOLEAN /\ cache' \in Cache
    BY <2>0, FailedTree DEF Failing, Spurious
  <2>2. pc' \in Points /\ pc # "idle"
    BY <1>19 DEF CommandFails, OnError
  <2>3. nested' \in BOOLEAN /\ within' \in {"none"} \cup Substitution
    BY <1>19 DEF CommandFails, OnError
  <2> QED
    BY <1>19, <2>1, <2>2, <2>3 DEF CommandFails, OnError
<1>20. CASE SubstitutionFails
  <2>0. pc \in Commands /\ Failing
    BY <1>20 DEF SubstitutionFails
  <2>1. disturbed' \in BOOLEAN /\ brokenOff' \in BOOLEAN /\ cache' \in Cache
    BY <2>0, FailedTree DEF Failing, Spurious
  <2>2. pc' \in Points /\ pc # "idle"
    BY <1>20 DEF SubstitutionFails, OnError
  <2>3. nested' \in BOOLEAN /\ within' \in {"none"} \cup Substitution
    BY <1>20 DEF SubstitutionFails, OnError
  <2> QED
    BY <1>20, <2>1, <2>2, <2>3 DEF SubstitutionFails, OnError
<1>21. CASE Exit
  BY <1>21 DEF Exit
<1>22. CASE ExitWithin
  BY <1>22 DEF ExitWithin
<1>23. CASE UNCHANGED vars
  BY <1>23 DEF vars
<1> QED
  BY <1>2, <1>3, <1>4, <1>5, <1>6, <1>7, <1>8, <1>9, <1>10, <1>11, <1>12,
     <1>13, <1>14, <1>15, <1>16, <1>17, <1>18, <1>19, <1>20, <1>21, <1>22,
     <1>23, <1>24, <1>25 DEF Next, Script

(* What fails in a run that nothing disturbs fails because it must. *)
LEMMA FailingDisturbs ==
  Failing => disturbed' \/ (CacheAtFault /\ disturbed' = disturbed)
  BY DEF Failing, Spurious

LEMMA NestedStep ==
  ASSUME TypeOK, NestedInv, RepoInv, [Next]_vars
  PROVE  NestedInv'
<1> USE DEF TypeOK, NestedInv, Points, Commands, Resting, Substitution, run,
        counters
<1>1. CASE Start
  BY <1>1 DEF Start
<1>2. CASE Kill
  BY <1>2 DEF Kill
<1>12. CASE KillRemoval
  BY <1>12 DEF KillRemoval
<1>13. CASE RemoveCache
  BY <1>13 DEF RemoveCache
<1>3. CASE MoveTag
  BY <1>3 DEF MoveTag
<1>4. ASSUME NEW command, NEW next, Do(command, next), next \notin Resting, ~gone
      PROVE  NestedInv'
  BY <1>4 DEF Do
<1>5. CASE GitInit \/ RemoteOrigin \/ FetchOrigin \/ FetchTags \/ CommitExists
           \/ Deregister \/ Checkout \/ Clean \/ Date \/ Update \/ GitDirs
  BY <1>4, <1>5 DEF Do, GitInit, RemoteOrigin, FetchOrigin, FetchTags,
     CommitExists, Deregister, Checkout, Clean, Date, Update, GitDirs
<1>6. CASE FetchSpecial
  BY <1>6 DEF FetchSpecial, Spurious
<1>7. CASE CommitMissing \/ Archive \/ Exit
  <2>1. CASE CommitMissing
    BY <2>1 DEF CommitMissing
  <2>2. CASE Archive
    BY <2>2 DEF Archive
  <2>3. CASE Exit
    BY <2>3 DEF Exit
  <2> QED
    BY <1>7, <2>1, <2>2, <2>3
<1>8. CASE CommandFails
  <2>1. disturbed => disturbed'
    BY <1>8 DEF CommandFails, Failing, Spurious
  <2>2. CASE fault
    BY <1>8, <2>1, <2>2 DEF CommandFails, OnError
  <2>3. CASE ~fault
    BY <1>8, <2>1, <2>3 DEF CommandFails, OnError
  <2> QED
    BY <2>2, <2>3
<1>9. CASE SubstitutionFails
  <2>1. disturbed'
    BY <1>9 DEF SubstitutionFails, Failing, CacheAtFault, Spurious, RepoInv,
       Past, FromFetch, InSubmodules
  <2>2. CASE fault /\ pc = "gitdirs"
    BY <1>9, <2>1, <2>2 DEF SubstitutionFails
  <2>3. CASE ~(fault /\ pc = "gitdirs")
    BY <1>9, <2>1, <2>3 DEF SubstitutionFails, OnError
  <2> QED
    BY <2>2, <2>3
<1>10. CASE ExitWithin
  BY <1>10 DEF ExitWithin
<1>11. CASE UNCHANGED vars
  BY <1>11 DEF vars
<1> QED
  BY <1>1, <1>2, <1>3, <1>5, <1>6, <1>7, <1>8, <1>9, <1>10, <1>11,
     <1>12, <1>13
  DEF Next, Script

LEMMA RepoStep ==
  ASSUME TypeOK, NestedInv, RepoInv, TreeInv, [Next]_vars
  PROVE  RepoInv'
<1> USE DEF RepoInv, Past, FromFetch, FromTags, InSubmodules, Healthy,
        Commands, Resting, Substitution, run, counters
<1> cache \in Cache
  BY DEF TypeOK
<1>1. CASE Start
  BY <1>1 DEF Start
<1>2. CASE Kill
  <2>1. pc' = "idle"
    BY <1>2 DEF Kill
  <2> QED
    BY <1>2, <2>1, KilledTree
<1>23. CASE KillRemoval
  <2>1. pc' = "idle"
    BY <1>23 DEF KillRemoval
  <2> QED
    BY <1>23, <2>1, KilledRemoval
<1>24. CASE RemoveCache
  BY <1>24 DEF RemoveCache, NoCache
<1>3. CASE MoveTag
  BY <1>3 DEF MoveTag
<1>4. CASE GitInit
  BY <1>4 DEF GitInit, Do, Cache
<1>5. CASE RemoteOrigin
  BY <1>5 DEF RemoteOrigin, Do, Cache
<1>6. CASE FetchOrigin
  BY <1>6 DEF FetchOrigin, Do, Cache
<1>7. CASE FetchTags
  BY <1>7 DEF FetchTags, Do
<1>8. CASE FetchSpecial
  BY <1>8 DEF FetchSpecial, Spurious, Cache
<1>9. CASE CommitExists
  BY <1>9 DEF CommitExists, Do
<1>10. CASE CommitMissing
  BY <1>10 DEF CommitMissing
<1>11. CASE Deregister
  BY <1>11 DEF Deregister, Do, Cache
<1>12. CASE Checkout
  BY <1>12 DEF Checkout, Do, Cache
<1>13. CASE Clean
  BY <1>13 DEF Clean, Do, Cache
<1>14. CASE Date
  BY <1>14 DEF Date, Do
<1>15. CASE Update
  BY <1>15 DEF Update, Do, Cache
<1>16. CASE GitDirs
  BY <1>16 DEF GitDirs, Do
<1>17. CASE Archive
  BY <1>17 DEF Archive
<1>18. CASE CommandFails
  <2>1. /\ cache'.repo = cache.repo /\ cache'.tag = cache.tag
        /\ cache'.head = cache.head
    BY <1>18, FailedTree DEF CommandFails
  <2> QED
    BY <1>18, <2>1 DEF CommandFails, OnError
<1>19. CASE SubstitutionFails
  <2>1. /\ cache'.repo = cache.repo /\ cache'.tag = cache.tag
        /\ cache'.head = cache.head /\ cache'.commits = cache.commits
    BY <1>19, FailedTree DEF SubstitutionFails
  <2> QED
    BY <1>19, <2>1 DEF SubstitutionFails, OnError, NestedInv
<1>20. CASE Exit
  BY <1>20 DEF Exit
<1>21. CASE ExitWithin
  BY <1>21 DEF ExitWithin
<1>22. CASE UNCHANGED vars
  BY <1>22 DEF vars
<1> QED
  BY <1>1, <1>2, <1>3, <1>4, <1>5, <1>6, <1>7, <1>8, <1>9, <1>10, <1>11,
     <1>12, <1>13, <1>14, <1>15, <1>16, <1>17, <1>18, <1>19, <1>20, <1>21,
     <1>22, <1>23, <1>24 DEF Next, Script

(* A command that succeeds, or fails for no other reason than the cache,   *)
(* brings no strays.                                                       *)
LEMMA NoNewStrays ==
  ASSUME TypeOK, Script, ~Spurious
  PROVE  cache'.tree \cap Strays \subseteq cache.tree \cap Strays
<1> cache \in Cache
  BY DEF TypeOK
<1>1. CASE cache' = cache
  BY <1>1
<1>2. \A c : Tracked(c) \notin Strays /\ Submodules(c) \notin Strays
  BY DEF Tracked, Submodules, Strays, Stray
<1>3. CASE GitInit \/ RemoteOrigin \/ FetchOrigin \/ FetchSpecial
  <2>1. cache'.tree = cache.tree
    BY <1>3 DEF GitInit, RemoteOrigin, FetchOrigin, FetchSpecial, Cache
  <2> QED
    BY <2>1
<1>4. CASE Deregister \/ Clean
  <2>1. cache'.tree \subseteq cache.tree
    BY <1>4 DEF Deregister, Clean, Cache
  <2> QED
    BY <2>1
<1>5. CASE Checkout
  <2>1. cache'.tree = (cache.tree \ {Tracked(cache.head)}) \cup {Tracked(cset)}
    BY <1>5 DEF Checkout, Cache
  <2> QED
    BY <1>2, <2>1
<1>6. CASE Update
  <2>1. \E kept \in SUBSET (cache.tree \cap Strays) :
          cache'.tree = (cache.tree \ Strays) \cup kept \cup {Submodules(cset)}
    BY <1>6 DEF Update, Cache
  <2> QED
    BY <1>2, <2>1
<1>7. CASE RemoveCache
  BY <1>7, NewCache DEF RemoveCache
<1>8. ASSUME Failing PROVE cache' = cache
  BY <1>8 DEF Failing
<1> QED
  BY <1>1, <1>3, <1>4, <1>5, <1>6, <1>7, <1>8
  DEF Script, FetchTags, CommitExists, CommitMissing, Date, GitDirs, Archive,
      CommandFails, SubstitutionFails, Exit, ExitWithin

LEMMA NoFault ==
  ASSUME CountersOK, faults' = faults
  PROVE  ~Spurious
  BY BoundsAssumption DEF CountersOK, Spurious

LEMMA BlameStep ==
  ASSUME TypeOK, NestedInv, RepoInv, BlameInv, TypeOK', NestedInv', [Next]_vars
  PROVE  BlameInv'
<1> SUFFICES ASSUME ~disturbed' PROVE BlameInv'
  BY DEF BlameInv
<1> USE DEF BlameInv, TagsAgree, Healthy, Commands, Resting, Substitution, run,
        counters
<1> /\ cache \in Cache /\ nested' \in BOOLEAN
    /\ disturbed \in BOOLEAN /\ disturbed' \in BOOLEAN
  BY DEF TypeOK
<1>1. CASE Start
  BY <1>1 DEF Start
<1>2. CASE Kill
  BY <1>2 DEF Kill
<1>18. CASE KillRemoval
  BY <1>18 DEF KillRemoval
<1>19. CASE RemoveCache
  BY <1>19 DEF RemoveCache, NoCache, Astray
<1>3. CASE MoveTag
  BY <1>3 DEF MoveTag
<1>20. ASSUME Script PROVE Astray' => Astray
  <2>1. ~Spurious
    BY DEF Spurious
  <2> QED
    BY <1>20, <2>1, NoNewStrays DEF Astray
<1>4. CASE GitInit
  <2>0. Astray' => Astray
    BY <1>4, <1>20 DEF Script
  <2>1. CASE fault
    <3>1. cache = NoCache
      BY <1>4, <2>1 DEF GitInit, Do
    <3>2. cache' = [cache EXCEPT !.repo = "ok"]
      BY <1>4, <3>1 DEF GitInit, NoCache
    <3> QED
      BY <1>4, <2>0, <2>1, <3>1, <3>2 DEF GitInit, Do, NoCache
  <2>2. CASE ~fault
    BY <1>4, <2>2 DEF GitInit, Do
  <2> QED
    BY <2>1, <2>2
<1>5. CASE RemoteOrigin
  BY <1>5, <1>20 DEF RemoteOrigin, Do, Cache, Script
<1>6. CASE FetchOrigin
  BY <1>6, <1>20 DEF FetchOrigin, Do, Cache, Script
<1>7. CASE FetchTags
  BY <1>7, <1>20 DEF FetchTags, Do, Script
<1>8. CASE FetchSpecial
  <2>1. Astray' => Astray
    BY <1>8, <1>20 DEF Script
  <2> QED
    BY <1>8, <2>1 DEF FetchSpecial, Spurious, Cache
<1>9. CASE CommitExists
  BY <1>9, <1>20 DEF CommitExists, Do, Script
<1>10. CASE CommitMissing
  BY <1>10 DEF CommitMissing, RepoInv, Past, FromTags, FromFetch
<1>11. CASE Deregister \/ Checkout \/ Clean \/ Date \/ Update \/ GitDirs
  <2>1. Astray' => Astray
    BY <1>11, <1>20 DEF Script
  <2>2. /\ pc \in Commands /\ UNCHANGED <<cset, fault, disturbed>>
        /\ pc' \in {"checkout", "clean", "date", "update", "gitdirs", "archive"}
    BY <1>11 DEF Deregister, Checkout, Clean, Date, Update, GitDirs, Do
  <2> QED
    BY <2>1, <2>2
<1>12. CASE Archive
  BY <1>12 DEF Archive
<1>13. CASE CommandFails
  <2>0. Failing /\ ~Spurious
    BY <1>13 DEF CommandFails, Spurious
  <2>1. CacheAtFault /\ ~disturbed /\ cache' = cache
    <3>1. CacheAtFault /\ cache' = cache /\ disturbed' = disturbed
      BY <2>0 DEF Failing
    <3> QED
      BY <3>1
  <2>2. ~fault
    BY <1>13, <2>1 DEF CacheAtFault, CommandFails, NestedInv, RepoInv, Past,
       FromFetch, InSubmodules
  <2>3. cache.repo = "broken" \/ ~TagsAgree \/ Astray
    BY <1>13, <2>1 DEF CacheAtFault, CommandFails, NestedInv, RepoInv, Past,
       FromFetch, InSubmodules
  <2>4. /\ pc' = "remove" /\ cache' = cache /\ UNCHANGED <<moved, cset>>
    BY <1>13, <2>1, <2>2 DEF CommandFails, OnError
  <2> QED
    BY <2>3, <2>4 DEF Astray
<1>14. CASE SubstitutionFails
  BY <1>14 DEF SubstitutionFails, Failing, CacheAtFault, Spurious, RepoInv,
     Past, FromFetch, InSubmodules, NestedInv
<1>15. CASE Exit
  BY <1>15 DEF Exit
<1>16. CASE ExitWithin
  BY <1>16 DEF ExitWithin, NestedInv
<1>17. CASE UNCHANGED vars
  BY <1>17 DEF vars, Astray
<1> QED
  BY <1>1, <1>2, <1>3, <1>4, <1>5, <1>6, <1>7, <1>8, <1>9, <1>10, <1>11,
     <1>12, <1>13, <1>14, <1>15, <1>16, <1>17, <1>18, <1>19 DEF Next, Script

(* The work tree, command by command. *)
LEMMA TreeStep ==
  ASSUME TypeOK, NestedInv, RepoInv, TreeInv, [Next]_vars
  PROVE  TreeInv'
<1> USE CommitsAssumption
    DEF TreeInv, FromClean, Wanted, Commands, Resting, Substitution, run,
        counters
<1> /\ cache \in Cache /\ cset \in Commits \cup {NoCommit}
    /\ pc # "idle" => cset \in Commits
  BY DEF TypeOK
<1>0. \A c, d : /\ Tracked(c) # Submodules(d)
                /\ Submodules(c) = Submodules(d) => c = d
                /\ Tracked(c) \notin Strays /\ Submodules(c) \notin Strays
  BY DEF Tracked, Submodules, Strays, Stray
<1>1. CASE Start
  BY <1>1 DEF Start
<1>2. CASE Kill
  <2>1. pc' = "idle"
    BY <1>2 DEF Kill
  <2>2. \A c \in Commits : Submodules(c) \in cache'.tree => c = cache'.head
    BY <1>2, KilledTree
  <2> QED
    BY <2>1, <2>2
<1>20. CASE KillRemoval
  <2>1. pc' = "idle"
    BY <1>20 DEF KillRemoval
  <2>2. \A c \in Commits : Submodules(c) \in cache'.tree => c = cache'.head
    BY <1>20, KilledRemoval
  <2> QED
    BY <2>1, <2>2
<1>21. CASE RemoveCache
  BY <1>21, NewCache DEF RemoveCache
<1>3. CASE MoveTag
  BY <1>3 DEF MoveTag
<1>4. CASE GitInit \/ RemoteOrigin \/ FetchOrigin
  <2>1. cache'.head = cache.head /\ cache'.tree = cache.tree
    BY <1>4 DEF GitInit, RemoteOrigin, FetchOrigin, Cache
  <2>2. pc' \in {"origin", "fetch", "tags"}
    BY <1>4 DEF GitInit, RemoteOrigin, FetchOrigin, Do
  <2> QED
    BY <2>1, <2>2
<1>5. CASE FetchSpecial
  BY <1>5 DEF FetchSpecial, Cache
<1>6. CASE FetchTags \/ CommitExists \/ CommitMissing
  BY <1>6 DEF FetchTags, CommitExists, CommitMissing, Do
<1>7. CASE Deregister
  <2>1. cache'.head = cache.head
        /\ cache'.tree = cache.tree \ {Submodules(cache.head)}
    BY <1>7 DEF Deregister, Cache
  <2>2. pc' = "checkout"
    BY <1>7 DEF Deregister, Do
  <2> QED
    BY <2>1, <2>2
<1>8. CASE Checkout
  <2>1. cache'.head = cset
        /\ cache'.tree = (cache.tree \ {Tracked(cache.head)}) \cup {Tracked(cset)}
    BY <1>8 DEF Checkout, Cache
  <2>2. pc = "checkout" /\ pc' = "clean" /\ cset' = cset
    BY <1>8 DEF Checkout, Do
  <2>3. \A c \in Commits : Submodules(c) \notin cache'.tree
    BY <1>0, <2>1, <2>2
  <2> QED
    BY <2>1, <2>2, <2>3
<1>9. CASE Clean
  <2>0. pc = "clean" /\ pc' = "date" /\ cset' = cset
    BY <1>9 DEF Clean, Do
  <2>1. cache'.head = cache.head
        /\ cache'.tree = cache.tree \cap ({Tracked(cset), Submodules(cset)}
                                          \cup {Stray(c) : c \in Under[cset]})
    BY <1>9 DEF Clean, Cache
  <2>2. {Stray(c) : c \in Under[cset]} \subseteq Strays
    BY <2>0 DEF Strays
  <2>3. cache'.tree \ Strays = {Tracked(cset)}
    BY <1>0, <2>0, <2>1, <2>2
  <2>4. \A c \in Commits : Submodules(c) \notin cache'.tree
    BY <1>0, <2>3
  <2> QED
    BY <2>0, <2>1, <2>3, <2>4
<1>10. CASE Date
  BY <1>10 DEF Date, Do, NestedInv
<1>11. CASE Update
  <2>1. PICK kept \in SUBSET (cache.tree \cap Strays) :
          cache' = [cache EXCEPT !.tree = (@ \ Strays) \cup kept \cup {Submodules(cset)}]
    BY <1>11 DEF Update
  <2>2. cache'.head = cache.head
        /\ cache'.tree = (cache.tree \ Strays) \cup kept \cup {Submodules(cset)}
    BY <2>1 DEF Cache
  <2>3. pc = "update" /\ pc' = "gitdirs" /\ UNCHANGED <<cset, recurse>> /\ ~gone
    BY <1>11 DEF Update, Do
  <2>4. cache'.tree \ Strays = Wanted'
    BY <1>0, <2>2, <2>3
  <2>5. \A c \in Commits : Submodules(c) \in cache'.tree => c = cset
    BY <1>0, <2>3, <2>4
  <2> QED
    BY <2>2, <2>3, <2>4, <2>5
<1>12. CASE GitDirs
  BY <1>12 DEF GitDirs, Do
<1>13. CASE Archive
  BY <1>13 DEF Archive, NestedInv
<1>14. ASSUME pc' \in {"remove", "exit 1"},
              cache'.head = cache.head,
              \A c \in Commits : Submodules(c) \in cache'.tree => c = cache'.head
       PROVE  TreeInv'
  BY <1>14
<1>15. CASE CommandFails
  <2>1. pc' \in {"remove", "exit 1"}
    BY <1>15 DEF CommandFails, OnError
  <2> QED
    BY <1>14, <1>15, <2>1, FailedTree DEF CommandFails
<1>16. CASE SubstitutionFails
  <2>1. CASE fault /\ pc = "gitdirs"
    <3>1. cache' = cache
      BY <1>16, <2>1, FailedCache DEF SubstitutionFails, HalfDone, Failing, Cache
    <3> QED
      BY <1>16, <2>1, <3>1 DEF SubstitutionFails
  <2>2. CASE ~(fault /\ pc = "gitdirs")
    <3>1. pc' \in {"remove", "exit 1"}
      BY <1>16, <2>2 DEF SubstitutionFails, OnError
    <3> QED
      BY <1>14, <1>16, <3>1, FailedTree DEF SubstitutionFails
  <2> QED
    BY <2>1, <2>2
<1>17. CASE Exit
  BY <1>17 DEF Exit, NestedInv
<1>18. CASE ExitWithin
  <2>1. CASE pc' = "remove"
    BY <1>14, <1>18, <2>1 DEF ExitWithin
  <2>2. CASE pc' = "update" \/ pc' = "archive"
    BY <1>18, <2>2 DEF ExitWithin, NestedInv
  <2> QED
    BY <1>18, <2>1, <2>2 DEF ExitWithin
<1>19. CASE UNCHANGED vars
  BY <1>19 DEF vars
<1> QED
  BY <1>1, <1>2, <1>3, <1>4, <1>5, <1>6, <1>7, <1>8, <1>9, <1>10, <1>11,
     <1>12, <1>13, <1>15, <1>16, <1>17, <1>18, <1>19, <1>20, <1>21
  DEF Next, Script

(* Strays: where they come from, and that git clean leaves only those in   *)
(* the directories of submodules.                                          *)
LEMMA StrayStep ==
  ASSUME TypeOK, NestedInv, RepoInv, TreeInv, StrayInv, TypeOK', NestedInv',
         [Next]_vars
  PROVE  StrayInv'
<1> USE DEF StrayInv, Past, InSubmodules, Commands, Resting, Substitution, run,
        counters
<1> cache \in Cache /\ nested' \in BOOLEAN /\ brokenOff \in BOOLEAN
  BY DEF TypeOK
<1>0. cset' = cset => Spared' = Spared
  BY DEF Spared
<1>1. CASE Start
  BY <1>1 DEF Start, Astray
<1>2. CASE Kill
  <2>1. pc' = "idle"
    BY <1>2 DEF Kill
  <2> QED
    BY <1>2, <2>1, KilledTree DEF Astray
<1>3. CASE KillRemoval
  BY <1>3 DEF KillRemoval, BreaksOff, OnWorkTrees
<1>4. CASE MoveTag
  <2>1. Spared' = Spared /\ cache' = cache
    BY <1>4, <1>0 DEF MoveTag
  <2> QED
    BY <1>4, <2>1 DEF MoveTag, Astray
<1>5. CASE GitInit \/ RemoteOrigin \/ FetchOrigin \/ FetchTags \/ FetchSpecial
           \/ CommitExists \/ CommitMissing \/ Deregister \/ Checkout
  <2>1. cache'.tree \cap Strays \subseteq cache.tree \cap Strays
    <3>1. CASE FetchSpecial
      BY <3>1 DEF FetchSpecial, Cache
    <3>2. CASE ~FetchSpecial
      <4>1. UNCHANGED faults
        BY <1>5, <3>2 DEF GitInit, RemoteOrigin, FetchOrigin, FetchTags,
           CommitExists, CommitMissing, Deregister, Checkout, Do
      <4>2. ~Spurious
        BY <4>1, NoFault DEF TypeOK
      <4> QED
        BY <1>5, <4>2, NoNewStrays DEF Script
    <3> QED
      BY <3>1, <3>2
  <2>2. /\ brokenOff' = brokenOff
        /\ pc' \in {"origin", "fetch", "tags", "special", "verify", "deregister",
                    "checkout", "clean", "exit 1"}
    BY <1>5 DEF GitInit, RemoteOrigin, FetchOrigin, FetchTags, FetchSpecial,
       CommitExists, CommitMissing, Deregister, Checkout, Do
  <2> QED
    BY <2>1, <2>2 DEF Astray
<1>6. CASE Clean
  <2>1. /\ pc' = "date" /\ UNCHANGED <<cset, brokenOff>>
        /\ cache'.tree = cache.tree \cap ({Tracked(cset), Submodules(cset)} \cup Spared)
    BY <1>6 DEF Clean, Do, Cache, Spared
  <2>2. Tracked(cset) \notin Strays /\ Submodules(cset) \notin Strays
    BY DEF Tracked, Submodules, Strays, Stray
  <2> QED
    BY <1>0, <2>1, <2>2 DEF Astray
<1>7. CASE Date \/ Update \/ GitDirs
  <2>1. /\ pc \in {"date", "update", "gitdirs"} /\ ~gone
        /\ pc' \in {"update", "gitdirs", "archive"}
        /\ UNCHANGED <<cset, brokenOff, faults>>
    BY <1>7 DEF Date, Update, GitDirs, Do, NestedInv
  <2>2. cache'.tree \cap Strays \subseteq cache.tree \cap Strays
    BY <1>7, <2>1, NoNewStrays, NoFault DEF Script, TypeOK
  <2> QED
    BY <1>0, <2>1, <2>2 DEF Astray
<1>8. CASE Archive
  BY <1>0, <1>8 DEF Archive, Astray, NestedInv
<1>9. CASE CommandFails
  <2>1. pc' \in {"remove", "exit 1"}
    BY <1>9 DEF CommandFails, OnError
  <2> QED
    BY <1>9, <2>1, FailedTree DEF CommandFails, Astray
<1>10. CASE SubstitutionFails
  <2>1. cache'.tree \cap Strays # {} => brokenOff'
    BY <1>10, FailedTree DEF SubstitutionFails, Astray
  <2>2. CASE fault /\ pc = "gitdirs"
    <3>1. cache' = cache
      BY <1>10, <2>2, FailedCache DEF SubstitutionFails, HalfDone, Failing, Cache
    <3>2. pc' = "archive" /\ UNCHANGED <<cset, gone>>
      BY <1>10, <2>2 DEF SubstitutionFails
    <3> QED
      BY <1>0, <2>1, <2>2, <3>1, <3>2 DEF Astray
  <2>3. CASE ~(fault /\ pc = "gitdirs")
    <3>1. pc' \in {"remove", "exit 1"}
      BY <1>10, <2>3 DEF SubstitutionFails, OnError
    <3> QED
      BY <2>1, <3>1 DEF Astray
  <2> QED
    BY <2>2, <2>3
<1>11. CASE RemoveCache
  BY <1>11, NewCache DEF RemoveCache, Astray
<1>12. CASE Exit
  <2>1. Spared' = Spared /\ cache' = cache
    BY <1>12, <1>0 DEF Exit
  <2> QED
    BY <1>12, <2>1 DEF Exit, Astray
<1>13. CASE ExitWithin
  BY <1>13 DEF ExitWithin, Astray, NestedInv
<1>14. CASE UNCHANGED vars
  BY <1>0, <1>14 DEF vars, Astray
<1> QED
  BY <1>1, <1>2, <1>3, <1>4, <1>5, <1>6, <1>7, <1>8, <1>9, <1>10, <1>11,
     <1>12, <1>13, <1>14 DEF Next, Script

-----------------------------------------------------------------------------

(* Every reachable state satisfies the inductive invariant. *)
THEOREM Inductive == Spec => []IInv
<1>1. IInv /\ [Next]_vars => IInv'
  BY TypeStep, NestedStep, RepoStep, TreeStep, StrayStep, BlameStep DEF IInv
<1> QED
  BY Initially, <1>1, PTL DEF Spec

(* git lines 137-209: for any changesets, any faults and any kills before  *)
(* it, an archive that the script makes without having been executed again *)
(* in a substitution has the files of its changeset; and only after a      *)
(* command that removes or writes work trees was broken off, strays in the *)
(* directories of its submodules, for any layout of those.                 *)
THEOREM ArchivesExact == Spec => []ArchiveIsCset
<1>1. IInv => ArchiveIsCset
  BY DEF IInv, TreeInv, StrayInv, ArchiveIsCset, Spared
<1> QED
  BY Inductive, <1>1, PTL

(* Lines 28-44: one new start on an empty cache is enough, so that a run   *)
(* that nothing disturbs fails only for a changeset that is not there.     *)
THEOREM OneRetrySuffices == Spec => []CacheNeverToBlame
<1>1. IInv => CacheNeverToBlame
  BY DEF IInv, BlameInv, CacheNeverToBlame
<1> QED
  BY Inductive, <1>1, PTL

(* Lines 129-131: the trap, the only one to remove the cache, springs only *)
(* on a broken repository, a tag that was moved, strays in the way of an   *)
(* update, or a fault from outside.                                        *)
THEOREM SoundStays == Spec => SoundCacheKept
<1> DEFINE Kept == cache' = NoCache /\ cache # NoCache
                     => disturbed' \/ cache.repo = "broken" \/ ~TagsAgree \/ Astray
<1>1. IInv /\ [Next]_vars => [Kept]_vars
  <2> SUFFICES ASSUME IInv, Next, cache' = NoCache, cache # NoCache, ~disturbed'
               PROVE  cache.repo = "broken" \/ ~TagsAgree \/ Astray
    OBVIOUS
  <2> cache \in Cache /\ disturbed \in BOOLEAN
    BY DEF IInv, TypeOK
  <2>1. cache'.repo = "none" /\ cache'.commits = {}
    BY DEF NoCache
  <2>2. CASE RemoveCache \/ KillRemoval
    BY <2>2 DEF RemoveCache, KillRemoval, IInv, BlameInv
  <2>3. CASE Kill
    <3>1. PICK repo \in {cache.repo, "damaged", "broken"}, tree \in HalfDone,
               extra \in SUBSET {Leftover} :
            cache' = IF cache.repo = "none" THEN [cache EXCEPT !.repo = repo]
                     ELSE [cache EXCEPT !.repo = repo, !.tree = tree \cup extra]
      BY <2>3 DEF Kill
    <3>2. cache.repo = "none" /\ cache' = [cache EXCEPT !.repo = cache.repo]
      BY <2>1, <3>1 DEF Cache
    <3> QED
      BY <3>2 DEF Cache
  <2>4. CASE GitInit \/ RemoteOrigin \/ FetchOrigin \/ Deregister \/ Checkout
             \/ Clean \/ Update
    BY <2>1, <2>4 DEF GitInit, RemoteOrigin, FetchOrigin, Deregister, Checkout,
       Clean, Update, Healthy, Cache
  <2>5. CASE FetchSpecial
    BY <2>1, <2>5 DEF FetchSpecial, Cache
  <2>6. ASSUME Failing PROVE cache' = cache
    BY <2>6 DEF Failing, Spurious
  <2>7. CASE Start \/ MoveTag \/ FetchTags \/ CommitExists \/ CommitMissing
             \/ Date \/ GitDirs \/ Archive \/ CommandFails \/ SubstitutionFails
             \/ Exit \/ ExitWithin
    BY <2>6, <2>7 DEF Start, MoveTag, FetchTags, CommitExists, CommitMissing,
       Date, GitDirs, Archive, CommandFails, SubstitutionFails, Exit, ExitWithin
  <2> QED
    BY <2>2, <2>3, <2>4, <2>5, <2>7 DEF Next, Script
<1> QED
  BY Inductive, <1>1, PTL DEF SoundCacheKept, Spec
=============================================================================
