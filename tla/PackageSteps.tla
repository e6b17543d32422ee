---------------------------- MODULE PackageSteps ----------------------------
(***************************************************************************)
(* The build of packages, step by step: the stamp files and rules that      *)
(* package/pkg-generic.mk defines for each package, as make executes them.  *)
(*                                                                         *)
(* A step is a rule whose target is a stamp file.  Its recipe does the work *)
(* of the step and touches the stamp last.  A stamp is "none" (no such      *)
(* file), "ok", or "old": there, but older than a stamp it depends on.      *)
(* One run of make after the other works on the output directory; a run    *)
(* may fail, or be killed at any point.  With BR2_PER_PACKAGE_DIRECTORIES   *)
(* and -jN, N recipes run at the same time; without, .NOTPARALLEL makes it  *)
(* one.                                                                    *)
(***************************************************************************)
EXTENDS Integers, Sequences, FiniteSets

CONSTANTS
    Pkgs,           \* the packages
    Host,           \* those of type host; the others are of type target
    Override,       \* those with <PKG>_OVERRIDE_SRCDIR
    InstallTarget, InstallStaging, InstallImages, \* <PKG>_INSTALL_... = YES
    Deps, DownloadDeps, ExtractDeps, PatchDeps,   \* FINAL_..._DEPENDENCIES
    Patches,        \* Patches[p]: how many patches p has
    NoPkg,
    Needed,         \* Needed[r]: the stamps make comes to for the request r
    Jobs,           \* the numbers of jobs, make -jN
    MaxRuns,        \* bound: how often make is run
    MaxFails,       \* bound: how many recipes fail
    MaxKills        \* bound: how many runs are killed, by the number of jobs

ASSUME PkgsAssumption ==
    /\ IsFiniteSet(Pkgs)
    /\ Host \subseteq Pkgs /\ Override \subseteq Pkgs
    /\ InstallTarget \subseteq Pkgs /\ InstallStaging \subseteq Pkgs
    /\ InstallImages \subseteq Pkgs
ASSUME DepsAssumption ==
    /\ Deps \in [Pkgs -> SUBSET Pkgs] /\ DownloadDeps \in [Pkgs -> SUBSET Pkgs]
    /\ ExtractDeps \in [Pkgs -> SUBSET Pkgs] /\ PatchDeps \in [Pkgs -> SUBSET Pkgs]
ASSUME NumbersAssumption ==
    /\ Patches \in [Pkgs -> Nat] /\ Jobs \subseteq Nat \ {0}
    /\ MaxRuns \in Nat /\ MaxFails \in Nat /\ \A n \in Jobs : MaxKills[n] \in Nat

SourceSteps(p) == IF p \in Override THEN {"rsynced"}
                  ELSE {"downloaded", "extracted", "patched"}
InstallSteps(p) ==
    IF p \in Host THEN {"host_installed"}
    ELSE {s \in {"staging_installed", "images_installed", "target_installed"} :
             \/ s = "staging_installed" /\ p \in InstallStaging
             \/ s = "images_installed" /\ p \in InstallImages
             \/ s = "target_installed" /\ p \in InstallTarget}

(* <PKG>_INSTALL_TARGET is YES by default, and a package that says NO       *)
(* installs to staging or images: one that installs nowhere would never be *)
(* built, as .stamp_installed depends on nothing else.                     *)
ASSUME InstallAssumption == \A p \in Pkgs : InstallSteps(p) # {}

Steps(p) == SourceSteps(p) \cup {"configured", "built", "installed"} \cup InstallSteps(p)

AllSteps == {"downloaded", "rsynced", "extracted", "patched", "configured", "built",
             "host_installed", "staging_installed", "images_installed",
             "target_installed", "installed"}
Targets == {t \in Pkgs \X AllSteps : t[2] \in Steps(t[1])}
Installed(P) == {<<p, "installed">> : p \in P}

(***************************************************************************)
(* The rules, pkg-generic.mk lines 751-858: the prerequisites that make the *)
(* step be done again when they are newer, and the order-only ones.         *)
(***************************************************************************)
MutPrereqs(t) == \* the installation to target does not care for that to staging
    LET p == t[1]
        of(S) == {<<p, s>> : s \in S}
    IN  CASE t[2] = "extracted"  -> of({"downloaded"})
          [] t[2] = "patched"    -> of({"extracted"})
          [] t[2] = "configured" -> of(SourceSteps(p) \cap {"patched"})
          [] t[2] = "built"      -> of({"configured"})
          [] t[2] \in {"host_installed", "staging_installed", "images_installed",
                       "target_installed"} -> of({"built"})
          [] t[2] = "installed"  -> of(InstallSteps(p))
          [] OTHER               -> {}

Prereqs(t) ==
    LET p == t[1]
        of(S) == {<<p, s>> : s \in S}
    IN  CASE t[2] = "extracted"  -> of({"downloaded"})
          [] t[2] = "patched"    -> of({"extracted"})
          [] t[2] = "configured" -> of(SourceSteps(p) \cap {"patched"})
          [] t[2] = "built"      -> of({"configured"})
          [] t[2] \in {"host_installed", "staging_installed", "images_installed"}
                                 -> of({"built"})
          [] t[2] = "target_installed"
                                 -> of({"built"} \cup (InstallSteps(p) \cap {"staging_installed"}))
          [] t[2] = "installed"  -> of(InstallSteps(p))
          [] OTHER               -> {}

MutOrderOnly(t) == \* a dependency need only be built
    LET p == t[1]
    IN  CASE t[2] = "configured" ->
                {<<d, "built">> : d \in Deps[p]}
                \cup {<<p, s>> : s \in SourceSteps(p) \cap {"rsynced"}}
          [] t[2] \in {"downloaded", "extracted", "patched"} -> {}
          [] OTHER -> {}

OrderOnly(t) ==
    LET p == t[1]
    IN  CASE t[2] = "downloaded" -> Installed(DownloadDeps[p])
          [] t[2] = "extracted"  -> Installed(ExtractDeps[p])
          [] t[2] = "patched"    ->
                {<<q, IF q \in Override THEN "rsynced" ELSE "patched">> : q \in PatchDeps[p]}
          [] t[2] = "configured" ->
                Installed(Deps[p]) \cup {<<p, s>> : s \in SourceSteps(p) \cap {"rsynced"}}
          [] OTHER               -> {}

Before(t) == Prereqs(t) \cup OrderOnly(t)

(* The order of the steps, and those of the same package that t makes out  *)
(* of date.                                                                *)
Rank(step) ==
    CASE step \in {"downloaded", "rsynced"} -> 1
      [] step = "extracted" -> 2 [] step = "patched" -> 3
      [] step = "configured" -> 4 [] step = "built" -> 5
      [] step = "target_installed" -> 7 [] step = "installed" -> 8
      [] OTHER -> 6

After(t) ==
    {u \in Targets : u[1] = t[1] /\ Rank(u[2]) > Rank(t[2])
                     /\ (t[2] \in {"host_installed", "images_installed"} => u[2] = "installed")}

(* The rules have no circle (make would drop a prerequisite that closes    *)
(* one): with each prerequisite the depth grows.                           *)
Layered(depth) == \A t \in Targets : \A u \in Before(t) : depth[t] < depth[u]

(***************************************************************************)
(* The goals a user asks for.  <pkg>-rebuild and its like first remove      *)
(* stamps, one rm after the other, and then make the package.               *)
(***************************************************************************)
Requests == [verb : {"package", "reinstall", "rebuild", "reconfigure"}, pkg : Pkgs]
            \cup {[verb |-> "world", pkg |-> NoPkg]}

Present(p, step) == IF step \in Steps(p) THEN <<step>> ELSE <<>>
Reinstall(p) == \* <pkg>-clean-for-reinstall
    Present(p, "rsynced") \o <<"installed">> \o Present(p, "staging_installed")
    \o Present(p, "target_installed") \o Present(p, "images_installed")
    \o Present(p, "host_installed")

MutCleanListBuilt(r) == \* clean-for-rebuild is clean-for-reinstall
    IF r.verb \in {"reinstall", "rebuild", "reconfigure"} THEN Reinstall(r.pkg) ELSE <<>>

(* The steps whose stamps are removed, in order (rm -f does not mind those *)
(* that the package never has).                                            *)
CleanList(r) ==
    CASE r.verb = "reinstall" -> Reinstall(r.pkg)
      [] r.verb = "rebuild" -> Reinstall(r.pkg) \o <<"built">>
      [] r.verb = "reconfigure" -> Reinstall(r.pkg) \o <<"built", "configured">>
      [] OTHER -> <<>>

Goals(r) == IF r.verb = "world" THEN Installed(Pkgs) ELSE Installed({r.pkg})

(* make comes to the goals, and with a target to all it depends on.        *)
ASSUME NeededAssumption ==
    /\ Needed \in [Requests -> SUBSET Targets]
    /\ \A r \in Requests :
        /\ Goals(r) \subseteq Needed[r]
        /\ \A t \in Needed[r] :
            /\ Before(t) \subseteq Needed[r]
            /\ t \in Goals(r) \/ \E u \in Needed[r] : t \in Before(u)

VARIABLES
    jobs,     \* how many jobs make is allowed
    stamp,    \* stamp[t]: the stamp file
    make,     \* the run of make
    request,  \* what it was asked for
    cleaning, \* the steps whose stamps clean-for-... has yet to remove
    visit,    \* visit[t]: what this run has come to with t
    listed,   \* listed[p]: how many patches .applied_patches_list names
    series,   \* series[p]: the patches applied to the sources of p, in order
    patching, \* patching[p]: the patch that the recipe is at
    applying, \* applying[p]: it is on the list already
    fresh,    \* fresh[t]: no earlier step was done again after t was
    ran,      \* the steps this run of make has done
    runs, fails, kills

vars == <<jobs, stamp, make, request, cleaning, visit, listed, series, patching,
          applying, fresh, ran, runs, fails, kills>>
patchvars == <<listed, series, patching, applying>>
bounds == <<jobs, runs, fails, kills>>

Resting == {"idle", "done", "failed", "killed"}

Init ==
    /\ jobs \in Jobs
    /\ stamp = [t \in Targets |-> "none"]
    /\ make = "idle" /\ request \in Requests /\ cleaning = <<>>
    /\ visit = [t \in Targets |-> "none"]
    /\ listed = [p \in Pkgs |-> 0]
    /\ series = [p \in Pkgs |-> <<>>]
    /\ patching = [p \in Pkgs |-> 1]
    /\ applying = [p \in Pkgs |-> FALSE]
    /\ fresh = [t \in Targets |-> FALSE]
    /\ ran = {}
    /\ runs = 0 /\ fails = 0 /\ kills = 0

Make(r) ==
    /\ make \in Resting /\ runs < MaxRuns
    /\ make' = "running" /\ request' = r
    /\ cleaning' = CleanList(r)
    /\ LET needed == Needed[r]
       IN  visit' = [t \in Targets |-> IF t \in needed THEN "todo" ELSE "none"]
    /\ ran' = {} /\ runs' = runs + 1
    /\ UNCHANGED <<stamp, patchvars, fresh, jobs, fails, kills>>

(* make <pkg>-dirclean: the build directory goes, with all that is in it. *)
Dirclean(p) ==
    /\ make \in Resting /\ runs < MaxRuns
    /\ stamp' = [t \in Targets |-> IF t[1] = p THEN "none" ELSE stamp[t]]
    /\ listed' = [listed EXCEPT ![p] = 0]
    /\ series' = [series EXCEPT ![p] = <<>>]
    /\ make' = "idle" /\ runs' = runs + 1
    /\ UNCHANGED <<request, cleaning, visit, patching, applying, fresh, ran, jobs, fails, kills>>

Running == {t \in Targets : visit[t] = "running"}
FreeJob == Cardinality(Running) + (IF cleaning = <<>> THEN 0 ELSE 1) < jobs

(* rm -f of the next stamp. *)
Clean ==
    /\ make \in {"running", "failing"} /\ cleaning # <<>>
    /\ stamp' = [t \in Targets |->
                    IF t = <<request.pkg, Head(cleaning)>> THEN "none" ELSE stamp[t]]
    /\ cleaning' = Tail(cleaning)
    /\ UNCHANGED <<make, request, visit, patchvars, fresh, ran, bounds>>

(* make comes to t when it is finished with all that t comes after.  In a   *)
(* serial run "<pkg>-clean-for-..." is finished by then; in a parallel one  *)
(* it is just another job.                                                 *)
Considered(t) ==
    /\ make = "running" /\ visit[t] = "todo"
    /\ \A u \in Before(t) : visit[u] = "done"
    /\ FreeJob

Skip(t) ==
    /\ Considered(t)
    /\ stamp[t] = "ok"
    /\ visit' = [visit EXCEPT ![t] = "done"]
    /\ UNCHANGED <<stamp, make, request, cleaning, patchvars, fresh, ran, bounds>>

(* The recipe starts.  From now on the results of later steps are those of *)
(* a state of the build directory that is no more.                         *)
Begin(t) ==
    /\ Considered(t)
    /\ stamp[t] # "ok"
    /\ visit' = [visit EXCEPT ![t] = "running"]
    /\ LET later == {t} \cup After(t)
       IN  fresh' = [u \in Targets |-> fresh[u] /\ u \notin later]
    /\ series' = IF t[2] = "extracted" THEN [series EXCEPT ![t[1]] = <<>>] ELSE series
    /\ IF t[2] = "patched"
       THEN /\ patching' = [patching EXCEPT ![t[1]] = 1]
            /\ applying' = [applying EXCEPT ![t[1]] = FALSE]
       ELSE UNCHANGED <<patching, applying>>
    /\ UNCHANGED <<stamp, make, request, cleaning, listed, ran, bounds>>

(* A recipe fails: make starts no other and waits for those that run. *)
Failing(t) ==
    /\ make' = "failing"
    /\ visit' = [visit EXCEPT ![t] = "failed"]

Fail(t) ==
    /\ visit[t] = "running" /\ fails < MaxFails
    /\ fails' = fails + 1
    /\ Failing(t)
    /\ UNCHANGED <<stamp, request, cleaning, patchvars, fresh, ran, jobs, runs, kills>>

(***************************************************************************)
(* The recipe of .stamp_patched runs apply-patches.sh, which for each patch *)
(* refuses a name that is on the list, puts it on the list, and applies it. *)
(***************************************************************************)
AtPatch(p) ==
    /\ p \notin Override /\ visit[<<p, "patched">>] = "running"
    /\ patching[p] <= Patches[p]

MutDuplicatePatch(p) == \* the name is looked for after it was put on the list
    /\ AtPatch(p) /\ listed[p] >= patching[p]
    /\ Failing(<<p, "patched">>)
    /\ UNCHANGED <<stamp, request, cleaning, patchvars, fresh, ran, bounds>>

DuplicatePatch(p) ==
    /\ AtPatch(p) /\ ~applying[p] /\ listed[p] >= patching[p]
    /\ Failing(<<p, "patched">>)
    /\ UNCHANGED <<stamp, request, cleaning, patchvars, fresh, ran, bounds>>

MutListPatch(p) == \* a name that is on the list already is no error
    /\ AtPatch(p) /\ ~applying[p]
    /\ listed' = [listed EXCEPT ![p] = patching[p]]
    /\ applying' = [applying EXCEPT ![p] = TRUE]
    /\ UNCHANGED <<stamp, make, request, cleaning, visit, series, patching, fresh, ran, bounds>>

ListPatch(p) ==
    /\ AtPatch(p) /\ ~applying[p] /\ listed[p] < patching[p]
    /\ listed' = [listed EXCEPT ![p] = patching[p]]
    /\ applying' = [applying EXCEPT ![p] = TRUE]
    /\ UNCHANGED <<stamp, make, request, cleaning, visit, series, patching, fresh, ran, bounds>>

ApplyPatch(p) ==
    /\ AtPatch(p) /\ applying[p]
    /\ series' = [series EXCEPT ![p] = Append(@, patching[p])]
    /\ patching' = [patching EXCEPT ![p] = @ + 1]
    /\ applying' = [applying EXCEPT ![p] = FALSE]
    /\ UNCHANGED <<stamp, make, request, cleaning, visit, listed, fresh, ran, bounds>>

(* The work of the recipe is done, and it touches the stamp. *)
Finish(t) ==
    /\ visit[t] = "running"
    /\ t[2] = "patched" => patching[t[1]] > Patches[t[1]]
    /\ visit' = [visit EXCEPT ![t] = "done"]
    /\ stamp' = [u \in Targets |->
                    IF u = t THEN "ok"
                    ELSE IF t \in Prereqs(u) /\ stamp[u] = "ok" THEN "old" ELSE stamp[u]]
    /\ fresh' = [fresh EXCEPT ![t] = TRUE]
    /\ ran' = ran \cup {t}
    /\ UNCHANGED <<make, request, cleaning, patchvars, bounds>>

(* The run of make ends. *)
Succeed ==
    /\ make = "running" /\ cleaning = <<>>
    /\ \A t \in Targets : visit[t] \in {"none", "done"}
    /\ make' = "done"
    /\ UNCHANGED <<stamp, request, cleaning, visit, patchvars, fresh, ran, bounds>>

GiveUp ==
    /\ make = "failing" /\ cleaning = <<>> /\ Running = {}
    /\ make' = "failed"
    /\ UNCHANGED <<stamp, request, cleaning, visit, patchvars, fresh, ran, bounds>>

(* The run is killed, with all the recipes it was executing. *)
Kill ==
    /\ make \notin Resting /\ kills < MaxKills[jobs]
    /\ kills' = kills + 1
    /\ make' = "killed" /\ cleaning' = <<>>
    /\ visit' = [t \in Targets |-> IF visit[t] = "running" THEN "failed" ELSE visit[t]]
    /\ UNCHANGED <<stamp, request, patchvars, fresh, ran, jobs, runs, fails>>

Step ==
    \/ Clean \/ Succeed \/ GiveUp
    \/ \E t \in Targets : Skip(t) \/ Begin(t) \/ Fail(t) \/ Finish(t)
    \/ \E p \in Pkgs : DuplicatePatch(p) \/ ListPatch(p) \/ ApplyPatch(p)

Next ==
    \/ \E r \in Requests : Make(r)
    \/ \E p \in Pkgs : Dirclean(p)
    \/ Step
    \/ Kill

Spec == Init /\ [][Next]_vars

-----------------------------------------------------------------------------

(* apply-patches.sh lines 108-122 and pkg-generic.mk lines 202-222: sources *)
(* that count as patched have every patch applied once, in order, although  *)
(* a run may be killed between any two steps and the recipe done again.    *)
PatchedOnce ==
    \A p \in Pkgs \ Override :
        stamp[<<p, "patched">>] # "none" =>
            series[p] = [i \in 1 .. Patches[p] |-> i]

(* pkg-generic.mk line 807: what a package depends on is installed, up to   *)
(* date and not being worked on when the package is configured, even with  *)
(* several jobs.                                                           *)
DepsReady ==
    [][\A p \in Pkgs : \A d \in Deps[p] :
         LET c == <<p, "configured">>
         IN  visit[c] = "todo" /\ visit'[c] = "running" =>
                 \A s \in Steps(d) : stamp[<<d, s>>] = "ok" /\ visit[<<d, s>>] # "running"]_vars

(* When make succeeds all it was asked for is there, and nothing in it      *)
(* dates from before an earlier step of its package was done again, however *)
(* many runs failed or were killed before, and with several jobs unless the *)
(* run removes stamps itself.  With an overridden source this is so from   *)
(* the configuration on (the order-only rule of line 858).  And a run that *)
(* does not fail over a recipe, nor over patches that a killed run has put *)
(* on the list, succeeds.                                                  *)
SuccessMeansCurrent ==
    make = "done" /\ (jobs = 1 \/ CleanList(request) = <<>>) =>
        \A t \in Needed[request] :
            stamp[t] = "ok" /\ (t[1] \in Override \/ fresh[t])
FailsForAReason ==
    make = "failed" =>
        fails > 0 \/ \E t \in Targets : t[2] = "patched" /\ visit[t] = "failed" /\ kills > 0
EndsAsItShould == SuccessMeansCurrent /\ FailsForAReason

(* docs/manual/rebuilding-packages.txt lines 111-120: <pkg>-rebuild         *)
(* restarts compilation and installation, <pkg>-reconfigure configuration  *)
(* as well; an overridden source is synchronised first, and compiled.  With *)
(* one job that is what happens.                                           *)
RebuildRestarts ==
    make = "done" /\ request.verb \in {"rebuild", "reconfigure"} =>
        LET p == request.pkg
        IN  /\ \A s \in {"built", "installed"} \cup InstallSteps(p) : <<p, s>> \in ran
            /\ request.verb = "reconfigure" => <<p, "configured">> \in ran
            /\ p \in Override => <<p, "rsynced">> \in ran /\ fresh[<<p, "built">>]
RebuildRestartsAlone == jobs = 1 => RebuildRestarts
=============================================================================
