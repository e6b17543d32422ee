------------------------ MODULE PackageStepsProofs --------------------------
(***************************************************************************)
(* Proofs about the build of packages: for any packages, dependencies,     *)
(* patches and numbers of jobs, runs, failures and kills.                  *)
(***************************************************************************)
EXTENDS PackageSteps, TLAPS, SequenceTheorems, FiniteSetTheorems, WellFoundedInduction

(* What clean-for-... may remove: never the stamps of the sources.         *)
Removable == AllSteps \ {"downloaded", "extracted", "patched"}

VisitStates == {"none", "todo", "running", "done", "failed"}
Elements(s) == {s[i] : i \in DOMAIN s}

TypeOK ==
    /\ jobs \in Jobs
    /\ stamp \in [Targets -> {"none", "ok", "old"}]
    /\ make \in Resting \cup {"running", "failing"}
    /\ request \in Requests
    /\ cleaning \in Seq(Removable)
    /\ visit \in [Targets -> VisitStates]
    /\ fresh \in [Targets -> BOOLEAN]
    /\ ran \in SUBSET Targets

PatchTypeOK ==
    /\ listed \in [Pkgs -> Nat] /\ series \in [Pkgs -> Seq(Nat)]
    /\ patching \in [Pkgs -> Nat \ {0}] /\ applying \in [Pkgs -> BOOLEAN]

CountersOK == runs \in Nat /\ fails \in Nat /\ kills \in Nat

(* What make has come to, in which order, and when.                        *)
Begun(t) == visit[t] \in {"running", "done", "failed"}
VisitInv ==
    /\ \A t \in Targets : Begun(t) => \A u \in Before(t) : visit[u] = "done"
    /\ make \in Resting => cleaning = <<>> /\ \A t \in Targets : visit[t] # "running"
    /\ make = "done" => \A t \in Targets : visit[t] \in {"none", "done"}
    /\ make # "idle" => \A t \in Targets : visit[t] # "none" <=> t \in Needed[request]
    /\ jobs = 1 /\ cleaning # <<>> => \A t \in Targets : visit[t] \in {"none", "todo"}
    /\ CleanList(request) = <<>> => cleaning = <<>>

(* The stamps that a parallel run may remove although make is past them.   *)
MayVanish(t) ==
    /\ jobs # 1 /\ CleanList(request) # <<>>
    /\ t[1] = request.pkg /\ t[2] \in Removable

StampInv ==
    /\ \A t \in Targets : visit[t] = "running" => stamp[t] # "ok"
    /\ make # "idle" => \A t \in Targets : visit[t] = "done" => stamp[t] = "ok" \/ MayVanish(t)

(* The sources of a package: their stamps are there in order, and never    *)
(* out of date.                                                            *)
SourceInv == \A p \in Pkgs \ Override :
    /\ stamp[<<p, "patched">>] # "none" => stamp[<<p, "extracted">>] = "ok"
    /\ stamp[<<p, "extracted">>] # "none" => stamp[<<p, "downloaded">>] = "ok"
    /\ \A s \in SourceSteps(p) : stamp[<<p, s>>] # "old"

(* The patches: those applied are the first ones, and all are on the list. *)
Patching(p) == visit[<<p, "patched">>] = "running"
PatchesOf(p) ==
    /\ \A i \in 1 .. Len(series[p]) : series[p][i] = i
    /\ Len(series[p]) <= listed[p] /\ listed[p] <= Patches[p]
    /\ Patching(p) /\ applying[p] =>
            listed[p] = patching[p] /\ Len(series[p]) = patching[p] - 1
    /\ Patching(p) => patching[p] <= Patches[p] + 1
    /\ Patching(p) /\ ~applying[p] /\ listed[p] < patching[p] =>
            Len(series[p]) = patching[p] - 1
    /\ stamp[<<p, "patched">>] # "none" => Len(series[p]) = Patches[p]
PatchInv == \A p \in Pkgs \ Override : PatchesOf(p)

(* Without a failure or a kill before, nothing is on the list too early.   *)
Calm == fails = 0 /\ kills = 0
CalmInv == Calm => \A p \in Pkgs \ Override :
    /\ ~Patching(p) /\ stamp[<<p, "patched">>] = "none" => listed[p] = 0
    /\ Patching(p) /\ ~applying[p] => listed[p] < patching[p]

ReasonInv == make \in {"failing", "failed"} =>
    fails > 0 \/ (kills > 0 /\ \E t \in Targets : t[2] = "patched" /\ visit[t] = "failed")

(* A stamp that make would not renew is the result of the steps before it. *)
FreshInv ==
    \A t \in Targets : t[1] \notin Override /\ stamp[t] = "ok"
        /\ (\A v \in Prereqs(t) : stamp[v] = "ok" /\ fresh[v]) => fresh[t]

Safe == jobs = 1 \/ CleanList(request) = <<>>
CurrentInv == make # "idle" /\ Safe =>
    \A t \in Targets : visit[t] = "done" /\ t[1] \notin Override => fresh[t]

(* What was done in this run, and the stamps that were to be removed.      *)
Removed(r) ==
    ({"rsynced", "installed", "built"} \cup InstallSteps(r.pkg)
     \cup (IF r.verb = "reconfigure" THEN {"configured"} ELSE {})) \cap Steps(r.pkg)
Rebuilding == request.verb \in {"rebuild", "reconfigure"}
DoneInRun == \A t \in ran : visit[t] = "done" /\ fresh[t]
RemovedFirst == make \notin {"idle", "killed"} /\ Rebuilding =>
    \A s \in Removed(request) :
        \/ s \in Elements(cleaning)
        \/ stamp[<<request.pkg, s>>] = "none"
        \/ <<request.pkg, s>> \in ran
DoneAgain == make # "idle" /\ Rebuilding /\ jobs = 1 =>
    \A s \in Removed(request) :
        visit[<<request.pkg, s>>] = "done" => <<request.pkg, s>> \in ran
RanInv == DoneInRun /\ RemovedFirst /\ DoneAgain

-----------------------------------------------------------------------------
(***************************************************************************)
(* The rules.                                                              *)
(***************************************************************************)

LEMMA StepTypes == \A p \in Pkgs : InstallSteps(p) \subseteq Steps(p) /\ Steps(p) \subseteq AllSteps
  BY DEF Steps, SourceSteps, InstallSteps, AllSteps

LEMMA TargetOf == \A p \in Pkgs : \A s \in Steps(p) : <<p, s>> \in Targets
  BY StepTypes DEF Targets

LEMMA OfTarget ==
  \A t \in Targets : t[1] \in Pkgs /\ t[2] \in Steps(t[1]) /\ t = <<t[1], t[2]>>
  BY DEF Targets

LEMMA PrereqsTyped ==
  ASSUME NEW t \in Targets, NEW v \in Prereqs(t)
  PROVE  v \in Targets /\ v[1] = t[1] /\ Rank(v[2]) < Rank(t[2])
<1> PICK p \in Pkgs, s \in AllSteps : s \in Steps(p) /\ t = <<p, s>>
  BY OfTarget, StepTypes
<1>1. PICK r \in AllSteps : v = <<p, r>> /\ r \in Steps(p) /\ Rank(r) < Rank(s)
  BY DEF Prereqs, Steps, SourceSteps, InstallSteps, Rank, AllSteps
<1> QED
  BY <1>1, TargetOf

LEMMA BeforeTyped == \A t \in Targets : Before(t) \subseteq Targets
<1> SUFFICES ASSUME NEW p \in Pkgs, NEW s \in Steps(p) PROVE OrderOnly(<<p, s>>) \subseteq Targets
  BY OfTarget, PrereqsTyped DEF Before
<1>1. \A q \in Pkgs : <<q, "installed">> \in Targets
                     /\ <<q, IF q \in Override THEN "rsynced" ELSE "patched">> \in Targets
  BY TargetOf DEF Steps, SourceSteps
<1> QED
  BY <1>1, DepsAssumption, TargetOf DEF OrderOnly, Installed, Steps

(* What comes after u comes directly after it, or after something that     *)
(* does.                                                                   *)
Between(t, u, prior) ==
    u \in prior \/ \E v \in prior : v \in After(u) /\ Rank(v[2]) < Rank(t[2])

LEMMA Ranks ==
    /\ Rank("downloaded") = 1 /\ Rank("rsynced") = 1 /\ Rank("extracted") = 2
    /\ Rank("patched") = 3 /\ Rank("configured") = 4 /\ Rank("built") = 5
    /\ Rank("host_installed") = 6 /\ Rank("staging_installed") = 6
    /\ Rank("images_installed") = 6 /\ Rank("target_installed") = 7
    /\ Rank("installed") = 8
    /\ \A s \in AllSteps : Rank(s) \in 1 .. 8
  BY DEF Rank, AllSteps

LEMMA InstallTypes ==
  ASSUME NEW p \in Pkgs
  PROVE  InstallSteps(p) \subseteq {"host_installed", "staging_installed",
                                    "images_installed", "target_installed"}
  BY DEF InstallSteps

LEMMA AfterIsPrereqs ==
  ASSUME NEW u \in Targets, NEW t \in After(u),
         t[1] \notin Override \/ t[2] # "configured"
  PROVE  Between(t, u, Prereqs(t))
<1> PICK p \in Pkgs, a \in AllSteps, b \in AllSteps :
        a \in Steps(p) /\ b \in Steps(p) /\ u = <<p, a>> /\ t = <<p, b>>
  BY OfTarget, StepTypes DEF After
<1>1. Rank(a) < Rank(b) /\ (a \in {"host_installed", "images_installed"} => b = "installed")
  BY DEF After
<1>2. ASSUME NEW c \in Steps(p), <<p, c>> \in Prereqs(t), a = c \/ Rank(a) < Rank(c),
             a \notin {"host_installed", "images_installed"} \/ a = c, Rank(c) < Rank(b)
      PROVE  Between(t, u, Prereqs(t))
  BY <1>2, TargetOf DEF After, Between
<1>3. CASE b \in {"downloaded", "rsynced"}
  BY <1>1, <1>3, Ranks
<1>4. CASE b = "extracted"
  <2>1. a = "downloaded" /\ <<p, a>> \in Prereqs(t)
    BY <1>1, <1>4, Ranks, InstallTypes DEF AllSteps, Prereqs, Steps, SourceSteps
  <2> QED
    BY <1>1, <1>2, <2>1
<1>5. CASE b = "patched"
  <2>1. a \in {"downloaded", "extracted"} /\ "extracted" \in Steps(p)
    BY <1>1, <1>5, Ranks, InstallTypes DEF AllSteps, Steps, SourceSteps
  <2>2. <<p, "extracted">> \in Prereqs(t)
    BY <1>5 DEF Prereqs
  <2> QED
    BY <1>2, <1>5, <2>1, <2>2, Ranks
<1>6. CASE b = "configured"
  <2>1. a \in {"downloaded", "extracted", "patched"} /\ "patched" \in Steps(p)
    BY <1>1, <1>6, Ranks, InstallTypes DEF AllSteps, Steps, SourceSteps
  <2>2. <<p, "patched">> \in Prereqs(t)
    BY <1>6 DEF Prereqs, SourceSteps
  <2> QED
    BY <1>2, <1>6, <2>1, <2>2, Ranks
<1>7. CASE b = "built"
  <2>1. Rank(a) <= 4 /\ (Rank(a) = 4 => a = "configured") /\ "configured" \in Steps(p)
        /\ a \notin {"host_installed", "images_installed"}
    BY <1>1, <1>7, Ranks DEF AllSteps, Steps
  <2>2. <<p, "configured">> \in Prereqs(t)
    BY <1>7 DEF Prereqs
  <2>3. Rank(a) < Rank("configured") \/ a = "configured"
    BY <2>1, Ranks
  <2> QED
    BY <1>2, <1>7, <2>1, <2>2, <2>3, Ranks
<1>8. CASE b \in {"host_installed", "staging_installed", "images_installed"}
  <2>1. Rank(a) <= 5 /\ (Rank(a) = 5 => a = "built") /\ "built" \in Steps(p)
        /\ a \notin {"host_installed", "images_installed"}
    BY <1>1, <1>8, Ranks DEF AllSteps, Steps
  <2>2. <<p, "built">> \in Prereqs(t)
    BY <1>8 DEF Prereqs
  <2>3. Rank(a) < Rank("built") \/ a = "built"
    BY <2>1, Ranks
  <2> QED
    BY <1>2, <1>8, <2>1, <2>2, <2>3, Ranks
<1>9. CASE b = "target_installed"
  <2>1. CASE a = "staging_installed"
    <3>1. a \in InstallSteps(p)
      BY <2>1 DEF Steps, SourceSteps
    <3> QED
      BY <1>1, <1>2, <1>9, <2>1, <3>1 DEF Prereqs
  <2>2. CASE a # "staging_installed"
    <3>1. Rank(a) <= 5 /\ (Rank(a) = 5 => a = "built") /\ "built" \in Steps(p)
          /\ a \notin {"host_installed", "images_installed"}
      BY <1>1, <1>9, <2>2, Ranks DEF AllSteps, Steps
    <3>2. <<p, "built">> \in Prereqs(t)
      BY <1>9 DEF Prereqs
    <3>3. Rank(a) < Rank("built") \/ a = "built"
      BY <3>1, Ranks
    <3> QED
      BY <1>2, <1>9, <3>1, <3>2, <3>3, Ranks
  <2> QED
    BY <2>1, <2>2
<1>10. CASE b = "installed"
  <2>1. \A c \in InstallSteps(p) :
          <<p, c>> \in Prereqs(t) /\ c \in Steps(p) /\ Rank(c) \in {6, 7}
    BY <1>10, InstallTypes, Ranks DEF Prereqs, Steps
  <2>2. CASE a \in InstallSteps(p)
    BY <1>1, <1>2, <2>1, <2>2
  <2>3. CASE a \notin InstallSteps(p)
    <3>1. PICK c \in InstallSteps(p) : TRUE
      BY InstallAssumption
    <3>2. a \in {"downloaded", "rsynced", "extracted", "patched", "configured", "built"}
      <4>1. a # "installed"
        BY <1>1, <1>10, Ranks
      <4> QED
        BY <2>3, <4>1 DEF Steps, SourceSteps
    <3>3. Rank(a) <= 5
      BY <3>2, Ranks
    <3>4. Rank(c) \in {6, 7}
      BY <2>1, <3>1
    <3>5. Rank(a) < Rank(c) /\ Rank(c) < Rank(b)
      BY <1>10, <3>3, <3>4, Ranks
    <3>6. a \notin {"host_installed", "images_installed"}
      BY <3>2
    <3>7. <<p, c>> \in Prereqs(t) /\ c \in Steps(p)
      BY <2>1, <3>1
    <3> QED
      BY <1>2, <3>5, <3>6, <3>7
  <2> QED
    BY <2>2, <2>3
<1> QED
  BY <1>3, <1>4, <1>5, <1>6, <1>7, <1>8, <1>9, <1>10 DEF AllSteps

LEMMA AfterIsBefore ==
  ASSUME NEW u \in Targets, NEW t \in After(u)
  PROVE  Between(t, u, Before(t))
<1>1. CASE t[1] \notin Override \/ t[2] # "configured"
  BY <1>1, AfterIsPrereqs DEF Between, Before
<1>2. CASE t[1] \in Override /\ t[2] = "configured"
  <2> PICK p \in Override, a \in AllSteps :
        p \in Pkgs /\ a \in Steps(p) /\ u = <<p, a>> /\ t = <<p, "configured">>
    BY <1>2, OfTarget, StepTypes DEF After
  <2>1. Rank(a) < Rank("configured")
    BY DEF After
  <2>2. a = "rsynced"
    BY <2>1, Ranks, InstallTypes DEF AllSteps, Steps, SourceSteps
  <2> QED
    BY <2>2 DEF Between, Before, OrderOnly, SourceSteps
<1> QED
  BY <1>1, <1>2

(* make is past all the steps of a package before one that it is past.     *)
LEMMA EarlierDone ==
  ASSUME NEW u \in Targets, NEW t \in After(u), visit[t] = "done",
         \A w \in Targets : visit[w] = "done" => \A v \in Before(w) : visit[v] = "done"
  PROVE  visit[u] = "done"
<1> DEFINE P(k) == \A w \in Targets : Rank(w[2]) <= k /\ visit[w] = "done"
                     => \A x \in Targets : w \in After(x) => visit[x] = "done"
<1>1. P(0)
  BY OfTarget, StepTypes, Ranks
<1>2. ASSUME NEW k \in Nat, P(k) PROVE P(k + 1)
  <2> SUFFICES ASSUME NEW w \in Targets, Rank(w[2]) <= k + 1, visit[w] = "done",
                      NEW x \in Targets, w \in After(x), x \notin Before(w)
               PROVE  visit[x] = "done"
    OBVIOUS
  <2>1. PICK v \in Before(w) : v \in After(x) /\ Rank(v[2]) < Rank(w[2])
    BY AfterIsBefore DEF Between
  <2>2. v \in Targets /\ visit[v] = "done"
    BY BeforeTyped
  <2>3. Rank(v[2]) <= k
    BY <2>1, <2>2, OfTarget, StepTypes, Ranks
  <2> QED
    BY <1>2, <2>1, <2>2, <2>3
<1> HIDE DEF P
<1>3. P(1) /\ P(2) /\ P(3) /\ P(4) /\ P(5) /\ P(6) /\ P(7) /\ P(8)
  BY <1>1, <1>2
<1>4. t \in Targets /\ Rank(t[2]) <= 8
  BY OfTarget, StepTypes, Ranks DEF After
<1> QED
  BY <1>3, <1>4 DEF P

-----------------------------------------------------------------------------
(***************************************************************************)
(* The stamps that a request removes.                                      *)
(***************************************************************************)

LEMMA ReinstallTyped ==
  ASSUME NEW p \in Pkgs
  PROVE  Reinstall(p) \in Seq(Removable)
<1>1. \A s \in Removable : Present(p, s) \in Seq(Removable)
  BY DEF Present
<1>2. "rsynced" \in Removable /\ "staging_installed" \in Removable
      /\ "target_installed" \in Removable /\ "images_installed" \in Removable
      /\ "host_installed" \in Removable /\ <<"installed">> \in Seq(Removable)
  BY DEF Removable, AllSteps
<1>3. \A s, t \in Seq(Removable) : s \o t \in Seq(Removable)
  OBVIOUS
<1> QED
  BY <1>1, <1>2, <1>3 DEF Reinstall

LEMMA CleanListTyped ==
  ASSUME NEW r \in Requests
  PROVE  CleanList(r) \in Seq(Removable)
<1>1. CASE r.verb \in {"reinstall", "rebuild", "reconfigure"}
  <2>1. r.pkg \in Pkgs
    BY <1>1 DEF Requests
  <2>2. <<"built">> \in Seq(Removable) /\ <<"built", "configured">> \in Seq(Removable)
    BY DEF Removable, AllSteps
  <2> QED
    BY <1>1, <2>1, <2>2, ReinstallTyped DEF CleanList
<1>2. CASE r.verb \notin {"reinstall", "rebuild", "reconfigure"}
  BY <1>2 DEF CleanList
<1> QED
  BY <1>1, <1>2

LEMMA ElementsOfTwo ==
  ASSUME NEW S, NEW s \in Seq(S), NEW t \in Seq(S)
  PROVE  s \o t \in Seq(S) /\ Elements(s) \cup Elements(t) \subseteq Elements(s \o t)
<1>1. ASSUME NEW i \in DOMAIN s PROVE i \in DOMAIN (s \o t) /\ (s \o t)[i] = s[i]
  OBVIOUS
<1>2. ASSUME NEW i \in DOMAIN t
      PROVE  Len(s) + i \in DOMAIN (s \o t) /\ (s \o t)[Len(s) + i] = t[i]
  OBVIOUS
<1>3. s \o t \in Seq(S)
  OBVIOUS
<1> QED
  BY <1>1, <1>2, <1>3 DEF Elements

LEMMA ElementsOfTail ==
  ASSUME NEW S, NEW s \in Seq(S), s # <<>>
  PROVE  Elements(s) \subseteq {Head(s)} \cup Elements(Tail(s))
<1>1. ASSUME NEW i \in 1 .. Len(s), i # 1 PROVE s[i] \in Elements(Tail(s))
  <2>1. i - 1 \in DOMAIN Tail(s) /\ Tail(s)[i - 1] = s[i]
    BY <1>1
  <2> QED
    BY <2>1 DEF Elements
<1> QED
  <2>1. DOMAIN s = 1 .. Len(s) /\ s[1] = Head(s)
    OBVIOUS
  <2> QED
    BY <1>1, <2>1 DEF Elements

LEMMA ReinstallRemoves ==
  ASSUME NEW p \in Pkgs
  PROVE  ({"rsynced", "installed"} \cup InstallSteps(p)) \cap Steps(p)
             \subseteq Elements(Reinstall(p))
<1> DEFINE A == Present(p, "rsynced")   B == Present(p, "staging_installed")
           C == Present(p, "target_installed")   D == Present(p, "images_installed")
           E == Present(p, "host_installed")   I == <<"installed">>
<1>1. \A s \in Steps(p) : s \in Elements(Present(p, s))
  BY DEF Present, Elements
<1>2. "installed" \in Elements(I)
  BY DEF Elements
<1>3. \A s \in AllSteps : <<s>> \in Seq(AllSteps) /\ Present(p, s) \in Seq(AllSteps)
  BY DEF Present
<1>4. A \in Seq(AllSteps) /\ B \in Seq(AllSteps) /\ C \in Seq(AllSteps)
      /\ D \in Seq(AllSteps) /\ E \in Seq(AllSteps) /\ I \in Seq(AllSteps)
  BY <1>3 DEF AllSteps
<1> DEFINE L1 == A \o I   L2 == L1 \o B   L3 == L2 \o C   L4 == L3 \o D   L5 == L4 \o E
<1>5. Reinstall(p) = L5
  BY DEF Reinstall
<1>6. L1 \in Seq(AllSteps) /\ Elements(A) \cup Elements(I) \subseteq Elements(L1)
  BY <1>4, ElementsOfTwo
<1> HIDE DEF L1
<1>7. L2 \in Seq(AllSteps) /\ Elements(L1) \cup Elements(B) \subseteq Elements(L2)
  BY <1>4, <1>6, ElementsOfTwo
<1> HIDE DEF L2
<1>8. L3 \in Seq(AllSteps) /\ Elements(L2) \cup Elements(C) \subseteq Elements(L3)
  BY <1>4, <1>7, ElementsOfTwo
<1> HIDE DEF L3
<1>9. L4 \in Seq(AllSteps) /\ Elements(L3) \cup Elements(D) \subseteq Elements(L4)
  BY <1>4, <1>8, ElementsOfTwo
<1> HIDE DEF L4
<1>10. Elements(L4) \cup Elements(E) \subseteq Elements(L5)
  BY <1>4, <1>9, ElementsOfTwo
<1>11. Elements(A) \cup Elements(I) \cup Elements(B) \cup Elements(C) \cup Elements(D)
          \cup Elements(E) \subseteq Elements(Reinstall(p))
  BY <1>5, <1>6, <1>7, <1>8, <1>9, <1>10
<1> QED
  BY <1>1, <1>2, <1>11, InstallTypes

LEMMA RemovedListed ==
  ASSUME NEW r \in Requests, r.verb \in {"rebuild", "reconfigure"}
  PROVE  Removed(r) \subseteq Elements(CleanList(r))
<1> r.pkg \in Pkgs
  BY DEF Requests
<1> DEFINE last == IF r.verb = "rebuild" THEN <<"built">> ELSE <<"built", "configured">>
<1>1. CleanList(r) = Reinstall(r.pkg) \o last
  BY DEF CleanList
<1>2. Elements(Reinstall(r.pkg)) \cup Elements(last) \subseteq Elements(CleanList(r))
  <2>1. <<"built">> \in Seq(Removable) /\ <<"built", "configured">> \in Seq(Removable)
    BY DEF Removable, AllSteps
  <2> QED
    BY <1>1, <2>1, ReinstallTyped, ElementsOfTwo
<1>3. "built" \in Elements(last) /\ (r.verb = "reconfigure" => "configured" \in Elements(last))
  <2>1. 1 \in DOMAIN last /\ last[1] = "built"
    OBVIOUS
  <2>2. r.verb = "reconfigure" => 2 \in DOMAIN last /\ last[2] = "configured"
    OBVIOUS
  <2> QED
    BY <2>1, <2>2 DEF Elements
<1> QED
  BY <1>2, <1>3, ReinstallRemoves DEF Removed

-----------------------------------------------------------------------------
(***************************************************************************)
(* Types.                                                                  *)
(***************************************************************************)

LEMMA TypeStep ==
  ASSUME TypeOK, [Next]_vars
  PROVE  TypeOK'
<1> USE DEF TypeOK, Resting, VisitStates, bounds, patchvars
<1>1. ASSUME NEW r \in Requests, Make(r) PROVE TypeOK'
  BY <1>1, CleanListTyped DEF Make
<1>2. ASSUME NEW p \in Pkgs, Dirclean(p) PROVE TypeOK'
  BY <1>2 DEF Dirclean
<1>3. CASE Clean
  BY <1>3 DEF Clean
<1>4. ASSUME NEW t \in Targets, Skip(t) \/ Fail(t) PROVE TypeOK'
  BY <1>4 DEF Skip, Fail, Failing
<1>5. ASSUME NEW t \in Targets, Begin(t) PROVE TypeOK'
  <2>1. fresh' \in [Targets -> BOOLEAN]
    BY <1>5 DEF Begin
  <2> QED
    BY <1>5, <2>1 DEF Begin
<1>6. ASSUME NEW t \in Targets, Finish(t) PROVE TypeOK'
  BY <1>6 DEF Finish
<1>7. ASSUME NEW p \in Pkgs, DuplicatePatch(p) \/ ListPatch(p) \/ ApplyPatch(p)
      PROVE  TypeOK'
  BY <1>7 DEF DuplicatePatch, Failing, ListPatch, ApplyPatch
<1>8. CASE Succeed \/ GiveUp
  BY <1>8 DEF Succeed, GiveUp
<1>9. CASE Kill
  BY <1>9 DEF Kill
<1>10. CASE UNCHANGED vars
  BY <1>10 DEF vars
<1> QED
  BY <1>1, <1>2, <1>3, <1>4, <1>5, <1>6, <1>7, <1>8, <1>9, <1>10 DEF Next, Step

LEMMA CountersStep ==
  ASSUME CountersOK, [Next]_vars
  PROVE  CountersOK' /\ fails' >= fails /\ kills' >= kills
<1> USE DEF CountersOK, bounds
<1>1. ASSUME NEW r \in Requests, Make(r)
      PROVE  runs' = runs + 1 /\ UNCHANGED <<fails, kills>>
  BY <1>1 DEF Make
<1>2. ASSUME NEW p \in Pkgs, Dirclean(p)
      PROVE  runs' = runs + 1 /\ UNCHANGED <<fails, kills>>
  BY <1>2 DEF Dirclean
<1>3. ASSUME NEW t \in Targets, Fail(t)
      PROVE  fails' = fails + 1 /\ UNCHANGED <<runs, kills>>
  BY <1>3 DEF Fail
<1>4. CASE Kill
  BY <1>4 DEF Kill
<1>5. ASSUME NEW t \in Targets, Skip(t) \/ Begin(t) \/ Finish(t)
      PROVE  UNCHANGED <<runs, fails, kills>>
  BY <1>5 DEF Skip, Begin, Finish
<1>6. ASSUME NEW p \in Pkgs, DuplicatePatch(p) \/ ListPatch(p) \/ ApplyPatch(p)
      PROVE  UNCHANGED <<runs, fails, kills>>
  BY <1>6 DEF DuplicatePatch, ListPatch, ApplyPatch
<1>7. CASE Clean \/ Succeed \/ GiveUp
  BY <1>7 DEF Clean, Succeed, GiveUp
<1>8. CASE UNCHANGED vars
  BY <1>8 DEF vars
<1> QED
  BY <1>1, <1>2, <1>3, <1>4, <1>5, <1>6, <1>7, <1>8 DEF Next, Step

(* The steps that have to do with the sources.                             *)
LEMMA PatchesUndisturbed ==
  ASSUME [Next]_vars
  PROVE  \/ UNCHANGED patchvars
         \/ \E p \in Pkgs : Dirclean(p) \/ ListPatch(p) \/ ApplyPatch(p)
         \/ \E t \in Targets : Begin(t)
<1>1. ASSUME NEW r \in Requests, Make(r) PROVE UNCHANGED patchvars
  BY <1>1 DEF Make
<1>2. ASSUME NEW t \in Targets, Skip(t) \/ Fail(t) \/ Finish(t) PROVE UNCHANGED patchvars
  BY <1>2 DEF Skip, Fail, Finish
<1>3. ASSUME NEW p \in Pkgs, DuplicatePatch(p) PROVE UNCHANGED patchvars
  BY <1>3 DEF DuplicatePatch
<1>4. CASE Clean \/ Succeed \/ GiveUp \/ Kill
  BY <1>4 DEF Clean, Succeed, GiveUp, Kill
<1>5. CASE UNCHANGED vars
  BY <1>5 DEF vars, patchvars
<1> QED
  BY <1>1, <1>2, <1>3, <1>4, <1>5 DEF Next, Step

LEMMA PatchTypeStep ==
  ASSUME PatchTypeOK, [Next]_vars
  PROVE  PatchTypeOK'
<1> USE DEF PatchTypeOK, patchvars
<1>1. ASSUME NEW p \in Pkgs, Dirclean(p) PROVE PatchTypeOK'
  BY <1>1 DEF Dirclean
<1>2. ASSUME NEW t \in Targets, Begin(t) PROVE PatchTypeOK'
  <2>1. series' \in [Pkgs -> Seq(Nat)]
    <3>1. series' = series \/ series' = [series EXCEPT ![t[1]] = <<>>]
      BY <1>2 DEF Begin
    <3>2. series \in [Pkgs -> Seq(Nat)] /\ <<>> \in Seq(Nat)
      OBVIOUS
    <3> HIDE DEF PatchTypeOK
    <3> QED
      BY <3>1, <3>2
  <2>2. patching' \in [Pkgs -> Nat \ {0}]
    <3>1. patching' = patching \/ patching' = [patching EXCEPT ![t[1]] = 1]
      BY <1>2 DEF Begin
    <3>2. patching \in [Pkgs -> Nat \ {0}] /\ 1 \in Nat \ {0}
      OBVIOUS
    <3> HIDE DEF PatchTypeOK
    <3> QED
      BY <3>1, <3>2
  <2>3. applying' \in [Pkgs -> BOOLEAN] /\ listed' = listed
    BY <1>2 DEF Begin
  <2> QED
    BY <2>1, <2>2, <2>3
<1>3. ASSUME NEW p \in Pkgs, ListPatch(p) PROVE PatchTypeOK'
  BY <1>3 DEF ListPatch
<1>4. ASSUME NEW p \in Pkgs, ApplyPatch(p) PROVE PatchTypeOK'
  BY <1>4 DEF ApplyPatch
<1>5. CASE UNCHANGED patchvars
  BY <1>5
<1> QED
  BY <1>1, <1>2, <1>3, <1>4, <1>5, PatchesUndisturbed

LEMMA AloneMeansNone ==
  ASSUME TypeOK, FreeJob, jobs = 1
  PROVE  cleaning = <<>>
<1>1. IsFiniteSet(AllSteps)
  <2>1. \A a : IsFiniteSet({a})
    BY FS_Singleton
  <2>2. ASSUME NEW a, NEW b, NEW c PROVE IsFiniteSet({a, b, c})
    <3>1. IsFiniteSet({a} \cup {b})
      BY <2>1, FS_Union
    <3>2. IsFiniteSet(({a} \cup {b}) \cup {c})
      BY <2>1, <3>1, FS_Union
    <3>3. {a, b, c} = ({a} \cup {b}) \cup {c}
      OBVIOUS
    <3> QED
      BY <3>2, <3>3
  <2> DEFINE A == {"downloaded", "rsynced", "extracted"}
             B == {"patched", "configured", "built"}
             C == {"host_installed", "staging_installed", "images_installed"}
             D == {"target_installed", "installed", "installed"}
  <2>3. IsFiniteSet(A) /\ IsFiniteSet(B) /\ IsFiniteSet(C) /\ IsFiniteSet(D)
    BY <2>2
  <2>4. AllSteps = (A \cup B) \cup (C \cup D)
    BY DEF AllSteps
  <2> HIDE DEF A, B, C, D
  <2>5. IsFiniteSet(A \cup B) /\ IsFiniteSet(C \cup D)
    BY <2>3, FS_Union
  <2> QED
    BY <2>4, <2>5, FS_Union
<1>2. IsFiniteSet(Targets)
  BY <1>1, PkgsAssumption, FS_Product, FS_Subset DEF Targets
<1>3. Cardinality(Running) \in Nat
  BY <1>2, FS_Subset, FS_CardinalityType DEF Running
<1>4. ASSUME cleaning # <<>> PROVE FALSE
  <2>1. Cardinality(Running) + 1 < 1
    BY <1>4 DEF FreeJob
  <2> QED
    BY <1>3, <2>1
<1> QED
  BY <1>4

-----------------------------------------------------------------------------
(***************************************************************************)
(* What make has come to.                                                  *)
(***************************************************************************)

LEMMA VisitStep ==
  ASSUME TypeOK, VisitInv, [Next]_vars
  PROVE  VisitInv'
<1> USE DEF TypeOK, VisitInv, Begun, VisitStates, Resting, bounds, patchvars
<1>1. ASSUME NEW r \in Requests, Make(r) PROVE VisitInv'
  <2>1. \A t \in Targets : visit'[t] \in {"none", "todo"}
                          /\ (visit'[t] # "none" <=> t \in Needed[r])
    BY <1>1 DEF Make
  <2>2. make' = "running" /\ request' = r /\ cleaning' = CleanList(r)
    BY <1>1 DEF Make
  <2>3. make' \notin Resting /\ make' # "idle" /\ make' # "done"
    BY <2>2
  <2>4. \A t \in Targets : ~Begun(t)'
    BY <2>1
  <2>5. \A t \in Targets : visit'[t] # "none" <=> t \in Needed[request']
    BY <2>1, <2>2
  <2> QED
    BY <2>1, <2>2, <2>3, <2>4, <2>5
<1>2. ASSUME NEW p \in Pkgs, Dirclean(p) PROVE VisitInv'
  BY <1>2 DEF Dirclean
<1>3. CASE Clean
  <2>1. make \in {"running", "failing"} /\ cleaning # <<>>
        /\ UNCHANGED <<make, request, visit, jobs>>
    BY <1>3 DEF Clean
  <2> QED
    BY <2>1
<1>4. ASSUME NEW t \in Targets, Considered(t), NEW next \in {"done", "running"},
             visit' = [visit EXCEPT ![t] = next], UNCHANGED <<make, request, cleaning, jobs>>
      PROVE  VisitInv'
  <2>1. make = "running" /\ visit[t] = "todo" /\ \A u \in Before(t) : visit[u] = "done"
    BY <1>4 DEF Considered
  <2>2. jobs = 1 => cleaning = <<>>
    BY <1>4, AloneMeansNone DEF Considered
  <2>3. \A u \in Targets : visit[u] = "done" => visit'[u] = "done"
    BY <1>4, <2>1
  <2>4. \A u \in Targets : Begun(u)' => \A v \in Before(u) : visit'[v] = "done"
    BY <1>4, <2>1, <2>3, BeforeTyped
  <2> QED
    BY <1>4, <2>1, <2>2, <2>4
<1>5. ASSUME NEW t \in Targets, visit[t] = "running", NEW next \in {"done", "failed"},
             visit' = [visit EXCEPT ![t] = next], UNCHANGED <<request, cleaning, jobs>>,
             make' \in {make, "failing"}
      PROVE  VisitInv'
  <2>1. make \notin Resting /\ make' \notin Resting
    BY <1>5
  <2>2. \A u \in Targets : visit[u] = "done" => visit'[u] = "done"
    BY <1>5
  <2>3. \A u \in Targets : Begun(u)' => \A v \in Before(u) : visit'[v] = "done"
    BY <1>5, <2>2, BeforeTyped
  <2> QED
    BY <1>5, <2>1, <2>3
<1>6. ASSUME NEW t \in Targets, Skip(t) \/ Begin(t) PROVE VisitInv'
  BY <1>4, <1>6 DEF Skip, Begin
<1>7. ASSUME NEW t \in Targets, Fail(t) \/ Finish(t) PROVE VisitInv'
  BY <1>5, <1>7 DEF Fail, Failing, Finish
<1>8. ASSUME NEW p \in Pkgs, DuplicatePatch(p) PROVE VisitInv'
  <2>1. <<p, "patched">> \in Targets
    BY <1>8, TargetOf DEF DuplicatePatch, AtPatch, Steps, SourceSteps
  <2> QED
    BY <1>5, <1>8, <2>1 DEF DuplicatePatch, AtPatch, Failing
<1>9. ASSUME NEW p \in Pkgs, ListPatch(p) \/ ApplyPatch(p) PROVE VisitInv'
  BY <1>9 DEF ListPatch, ApplyPatch
<1>10. CASE Succeed
  BY <1>10 DEF Succeed
<1>11. CASE GiveUp
  BY <1>11 DEF GiveUp, Running
<1>12. CASE Kill
  <2>1. \A t \in Targets : visit'[t] = IF visit[t] = "running" THEN "failed" ELSE visit[t]
    BY <1>12 DEF Kill
  <2>2. \A u \in Targets : Begun(u)' => \A v \in Before(u) : visit'[v] = "done"
    BY <2>1, BeforeTyped
  <2>3. make' = "killed" /\ make # "idle" /\ cleaning' = <<>> /\ request' = request
    BY <1>12 DEF Kill
  <2> QED
    BY <2>1, <2>2, <2>3
<1>13. CASE UNCHANGED vars
  BY <1>13 DEF vars
<1> QED
  BY <1>1, <1>2, <1>3, <1>6, <1>7, <1>8, <1>9, <1>10, <1>11, <1>12, <1>13 DEF Next, Step

(* A recipe only runs while make does.                                     *)
LEMMA RunningMake ==
  ASSUME VisitInv, NEW t \in Targets, visit[t] = "running"
  PROVE  make \notin Resting /\ make # "idle" /\ \A u \in Before(t) : visit[u] = "done"
  BY DEF VisitInv, Begun, Resting

-----------------------------------------------------------------------------
(***************************************************************************)
(* The stamps.                                                             *)
(***************************************************************************)

(* The steps that have to do with stamps.                                  *)
LEMMA StampsUndisturbed ==
  ASSUME [Next]_vars
  PROVE  \/ UNCHANGED stamp
         \/ Clean \/ \E p \in Pkgs : Dirclean(p)
         \/ \E t \in Targets : Finish(t)
<1>1. ASSUME NEW r \in Requests, Make(r) PROVE UNCHANGED stamp
  BY <1>1 DEF Make
<1>2. ASSUME NEW t \in Targets, Skip(t) \/ Begin(t) \/ Fail(t) PROVE UNCHANGED stamp
  BY <1>2 DEF Skip, Begin, Fail
<1>3. ASSUME NEW p \in Pkgs, DuplicatePatch(p) \/ ListPatch(p) \/ ApplyPatch(p)
      PROVE  UNCHANGED stamp
  BY <1>3 DEF DuplicatePatch, ListPatch, ApplyPatch
<1>4. CASE Succeed \/ GiveUp \/ Kill
  BY <1>4 DEF Succeed, GiveUp, Kill
<1>5. CASE UNCHANGED vars
  BY <1>5 DEF vars
<1> QED
  BY <1>1, <1>2, <1>3, <1>4, <1>5 DEF Next, Step

(* What a recipe, or the removal of a stamp, does to the stamps.           *)
LEMMA FinishStamps ==
  ASSUME TypeOK, NEW t \in Targets, Finish(t), NEW u \in Targets
  PROVE  /\ stamp'[t] = "ok"
         /\ u # t => stamp'[u] = stamp[u] \/ (t \in Prereqs(u) /\ stamp'[u] = "old" /\ stamp[u] = "ok")
         /\ u # t /\ stamp'[u] = "ok" => stamp[u] = "ok" /\ t \notin Prereqs(u)
  BY DEF Finish, TypeOK

LEMMA CleanStamps ==
  ASSUME TypeOK, VisitInv, Clean, NEW u \in Targets
  PROVE  /\ stamp'[u] = stamp[u] \/ stamp'[u] = "none"
         /\ stamp'[u] # stamp[u] =>
                u[1] = request.pkg /\ u[2] = Head(cleaning) /\ u[2] \in Removable
                /\ CleanList(request) # <<>>
<1>1. stamp'[u] = IF u = <<request.pkg, Head(cleaning)>> THEN "none" ELSE stamp[u]
  BY DEF Clean, TypeOK
<1>2. Head(cleaning) \in Removable /\ CleanList(request) # <<>>
  <2>1. cleaning # <<>> /\ cleaning \in Seq(Removable)
    BY DEF Clean, TypeOK
  <2> QED
    BY <2>1 DEF VisitInv
<1> QED
  BY <1>1, <1>2

LEMMA StampStep ==
  ASSUME TypeOK, VisitInv, StampInv, [Next]_vars
  PROVE  StampInv'
<1> USE DEF TypeOK, VisitStates, bounds, patchvars
<1>1. ASSUME NEW r \in Requests, Make(r) PROVE StampInv'
  BY <1>1 DEF Make, StampInv
<1>2. ASSUME NEW p \in Pkgs, Dirclean(p) PROVE StampInv'
  BY <1>2 DEF Dirclean, StampInv, VisitInv
<1>3. CASE Clean
  <2>1. UNCHANGED <<make, request, visit, jobs>> /\ cleaning # <<>>
        /\ make \in {"running", "failing"}
    BY <1>3 DEF Clean
  <2>2. ASSUME NEW t \in Targets, visit[t] = "running" PROVE stamp'[t] # "ok"
    BY <1>3, <2>2, CleanStamps DEF StampInv
  <2>3. ASSUME NEW t \in Targets, visit[t] = "done" PROVE stamp'[t] = "ok" \/ MayVanish(t)'
    <3>1. jobs # 1
      BY <2>1, <2>3 DEF VisitInv
    <3>2. stamp[t] = "ok" \/ MayVanish(t)
      BY <2>1, <2>3 DEF StampInv
    <3>3. MayVanish(t) => MayVanish(t)'
      BY <2>1 DEF MayVanish
    <3>4. stamp'[t] # stamp[t] => MayVanish(t)
      BY <1>3, <3>1, CleanStamps DEF MayVanish
    <3> QED
      BY <3>2, <3>3, <3>4
  <2> QED
    BY <2>1, <2>2, <2>3 DEF StampInv
<1>4. ASSUME NEW t \in Targets, Skip(t) \/ Begin(t) PROVE StampInv'
  <2>1. UNCHANGED <<make, request, stamp, jobs>> /\ make = "running"
    BY <1>4 DEF Skip, Begin, Considered
  <2>2. visit' = [visit EXCEPT ![t] = IF stamp[t] = "ok" THEN "done" ELSE "running"]
    BY <1>4 DEF Skip, Begin
  <2>3. \A u \in Targets : MayVanish(u)' <=> MayVanish(u)
    BY <2>1 DEF MayVanish
  <2> QED
    BY <2>1, <2>2, <2>3 DEF StampInv
<1>5. ASSUME NEW t \in Targets, Finish(t) PROVE StampInv'
  <2>1. UNCHANGED <<make, request, jobs>> /\ visit[t] = "running"
        /\ visit' = [visit EXCEPT ![t] = "done"]
    BY <1>5 DEF Finish
  <2>2. \A u \in Targets : MayVanish(u)' <=> MayVanish(u)
    BY <2>1 DEF MayVanish
  <2>3. ASSUME NEW u \in Targets, u # t, visit[u] = "running" PROVE stamp'[u] # "ok"
    BY <1>5, <2>3, FinishStamps DEF StampInv
  <2>4. ASSUME NEW u \in Targets, u # t, visit[u] = "done", stamp[u] = "ok"
        PROVE  stamp'[u] = "ok"
    <3>1. t \notin Prereqs(u)
      BY <2>1, <2>4 DEF VisitInv, Begun, Before
    <3> QED
      BY <1>5, <2>4, <3>1, FinishStamps
  <2>5. stamp'[t] = "ok"
    BY <1>5, FinishStamps
  <2>6. make # "idle"
    BY <2>1, RunningMake
  <2> QED
    BY <2>1, <2>2, <2>3, <2>4, <2>5, <2>6 DEF StampInv
<1>6. ASSUME UNCHANGED <<stamp, jobs, request>>, make = "idle" => make' = "idle",
             \A t \in Targets : visit'[t] \in {"running", "done"} => visit'[t] = visit[t]
      PROVE  StampInv'
  BY <1>6 DEF StampInv, MayVanish
<1>7. ASSUME NEW t \in Targets, Fail(t) PROVE StampInv'
  <2>1. make # "idle"
    BY <1>7, RunningMake DEF Fail
  <2> QED
    BY <1>6, <1>7, <2>1 DEF Fail, Failing
<1>8. ASSUME NEW p \in Pkgs, DuplicatePatch(p) PROVE StampInv'
  <2>1. <<p, "patched">> \in Targets
    BY <1>8, TargetOf DEF DuplicatePatch, AtPatch, Steps, SourceSteps
  <2>2. make # "idle"
    BY <1>8, <2>1, RunningMake DEF DuplicatePatch, AtPatch
  <2> QED
    BY <1>6, <1>8, <2>2 DEF DuplicatePatch, Failing
<1>9. ASSUME NEW p \in Pkgs, ListPatch(p) \/ ApplyPatch(p) PROVE StampInv'
  BY <1>6, <1>9 DEF ListPatch, ApplyPatch
<1>10. CASE Succeed \/ GiveUp
  BY <1>6, <1>10 DEF Succeed, GiveUp
<1>11. CASE Kill
  <2>1. \A t \in Targets : visit'[t] \in {"running", "done"} => visit'[t] = visit[t]
    BY <1>11 DEF Kill
  <2>2. UNCHANGED <<stamp, jobs, request>> /\ make # "idle"
    BY <1>11 DEF Kill, Resting
  <2> QED
    BY <1>6, <2>1, <2>2
<1>12. CASE UNCHANGED vars
  BY <1>6, <1>12 DEF vars
<1> QED
  BY <1>1, <1>2, <1>3, <1>4, <1>5, <1>7, <1>8, <1>9, <1>10, <1>11, <1>12 DEF Next, Step

-----------------------------------------------------------------------------
(***************************************************************************)
(* The sources and their patches.                                          *)
(***************************************************************************)

LEMMA SourceTargets ==
  ASSUME NEW p \in Pkgs \ Override
  PROVE  /\ SourceSteps(p) = {"downloaded", "extracted", "patched"}
         /\ <<p, "downloaded">> \in Targets /\ <<p, "extracted">> \in Targets
         /\ <<p, "patched">> \in Targets
         /\ Prereqs(<<p, "downloaded">>) = {}
         /\ Prereqs(<<p, "extracted">>) = {<<p, "downloaded">>}
         /\ Prereqs(<<p, "patched">>) = {<<p, "extracted">>}
<1>1. SourceSteps(p) = {"downloaded", "extracted", "patched"}
  BY DEF SourceSteps
<1>2. \A s \in SourceSteps(p) : <<p, s>> \in Targets
  BY TargetOf DEF Steps
<1>3. \A a : {<<p, s>> : s \in {a}} = {<<p, a>>}
  OBVIOUS
<1> QED
  BY <1>1, <1>2, <1>3 DEF Prereqs

LEMMA SourceStep ==
  ASSUME TypeOK, VisitInv, StampInv, SourceInv, [Next]_vars
  PROVE  SourceInv'
<1> SUFFICES ASSUME NEW p \in Pkgs \ Override
             PROVE  /\ stamp'[<<p, "patched">>] # "none" => stamp'[<<p, "extracted">>] = "ok"
                    /\ stamp'[<<p, "extracted">>] # "none" => stamp'[<<p, "downloaded">>] = "ok"
                    /\ \A s \in SourceSteps(p) : stamp'[<<p, s>>] # "old"
  BY DEF SourceInv
<1> DEFINE D == <<p, "downloaded">>   E == <<p, "extracted">>   P == <<p, "patched">>
<1>1. /\ stamp[P] # "none" => stamp[E] = "ok"
      /\ stamp[E] # "none" => stamp[D] = "ok"
      /\ stamp[D] # "old" /\ stamp[E] # "old" /\ stamp[P] # "old"
  BY SourceTargets DEF SourceInv
<1>2. D \in Targets /\ E \in Targets /\ P \in Targets /\ D # E /\ D # P /\ E # P
      /\ SourceSteps(p) = {"downloaded", "extracted", "patched"}
      /\ Prereqs(D) = {} /\ Prereqs(E) = {D} /\ Prereqs(P) = {E}
  BY SourceTargets
<1>3. D[1] = p /\ D[2] = "downloaded" /\ E[2] = "extracted" /\ P[2] = "patched"
      /\ E[1] = p /\ P[1] = p
  OBVIOUS
<1>4. stamp[D] \in {"none", "ok", "old"} /\ stamp[E] \in {"none", "ok", "old"}
      /\ stamp[P] \in {"none", "ok", "old"}
  BY <1>2 DEF TypeOK
<1> HIDE DEF D, E, P
<1> SUFFICES /\ stamp'[P] # "none" => stamp'[E] = "ok"
             /\ stamp'[E] # "none" => stamp'[D] = "ok"
             /\ stamp'[D] # "old" /\ stamp'[E] # "old" /\ stamp'[P] # "old"
  BY <1>2 DEF D, E, P
<1>5. CASE UNCHANGED stamp
  BY <1>1, <1>5
<1>6. CASE Clean
  <2>1. stamp'[D] = stamp[D] /\ stamp'[E] = stamp[E] /\ stamp'[P] = stamp[P]
    BY <1>2, <1>3, <1>6, CleanStamps DEF Removable
  <2> QED
    BY <1>1, <2>1
<1>7. ASSUME NEW q \in Pkgs, Dirclean(q) PROVE
             /\ stamp'[P] # "none" => stamp'[E] = "ok"
             /\ stamp'[E] # "none" => stamp'[D] = "ok"
             /\ stamp'[D] # "old" /\ stamp'[E] # "old" /\ stamp'[P] # "old"
  <2>1. \A t \in {D, E, P} : stamp'[t] = IF p = q THEN "none" ELSE stamp[t]
    BY <1>2, <1>3, <1>7 DEF Dirclean
  <2> QED
    BY <1>1, <2>1
<1>8. ASSUME NEW t \in Targets, Finish(t) PROVE
             /\ stamp'[P] # "none" => stamp'[E] = "ok"
             /\ stamp'[E] # "none" => stamp'[D] = "ok"
             /\ stamp'[D] # "old" /\ stamp'[E] # "old" /\ stamp'[P] # "old"
  <2>1. visit[t] = "running" /\ stamp[t] # "ok" /\ make # "idle"
        /\ \A u \in Before(t) : visit[u] = "done"
    BY <1>8, RunningMake DEF Finish, StampInv
  <2>2. ASSUME NEW u \in {D, E} PROVE visit[u] = "done" => stamp[u] = "ok"
    BY <1>2, <1>3, <2>1 DEF StampInv, MayVanish, Removable
  <2>3. \A u \in {D, E, P} : /\ u = t => stamp'[u] = "ok"
                             /\ u # t /\ t \notin Prereqs(u) => stamp'[u] = stamp[u]
                             /\ u # t => stamp'[u] = stamp[u] \/ stamp[u] = "ok"
    BY <1>2, <1>8, FinishStamps
  <2>4. CASE t = D
    <3>1. stamp[E] = "none" /\ stamp[P] = "none"
      BY <1>1, <2>1, <2>4
    <3> QED
      BY <1>2, <2>3, <2>4, <3>1
  <2>5. CASE t = E
    <3>1. visit[D] = "done" /\ stamp[P] = "none"
      BY <1>1, <1>2, <2>1, <2>5 DEF Before
    <3> QED
      BY <1>2, <2>2, <2>3, <2>5, <3>1
  <2>6. CASE t = P
    <3>1. visit[E] = "done"
      BY <1>2, <2>1, <2>6 DEF Before
    <3> QED
      BY <1>1, <1>2, <2>2, <2>3, <2>6, <3>1
  <2>7. CASE t \notin {D, E, P}
    BY <1>1, <1>2, <2>3, <2>7
  <2> QED
    BY <2>4, <2>5, <2>6, <2>7
<1> QED
  BY <1>5, <1>6, <1>7, <1>8, StampsUndisturbed

(* Only Begin starts a recipe.                                             *)
LEMMA NewlyRunning ==
  ASSUME TypeOK, [Next]_vars, NEW t \in Targets, visit'[t] = "running", visit[t] # "running"
  PROVE  Begin(t)
<1> USE DEF TypeOK, bounds, patchvars
<1>1. ASSUME NEW r \in Requests, Make(r) PROVE FALSE
  BY <1>1 DEF Make
<1>2. ASSUME NEW p \in Pkgs, Dirclean(p) \/ ListPatch(p) \/ ApplyPatch(p) PROVE FALSE
  BY <1>2 DEF Dirclean, ListPatch, ApplyPatch
<1>3. ASSUME NEW u \in Targets, Skip(u) \/ Fail(u) \/ Finish(u) PROVE FALSE
  BY <1>3 DEF Skip, Fail, Failing, Finish
<1>4. ASSUME NEW u \in Targets, Begin(u), u # t PROVE FALSE
  BY <1>4 DEF Begin
<1>5. ASSUME NEW p \in Pkgs, DuplicatePatch(p) PROVE FALSE
  BY <1>5 DEF DuplicatePatch, Failing
<1>6. CASE Clean \/ Succeed \/ GiveUp \/ Kill
  BY <1>6 DEF Clean, Succeed, GiveUp, Kill
<1>7. CASE UNCHANGED vars
  BY <1>7 DEF vars
<1> QED
  BY <1>1, <1>2, <1>3, <1>4, <1>5, <1>6, <1>7 DEF Next, Step

(* How a recipe ends.                                                      *)
LEMMA RunningEnds ==
  ASSUME TypeOK, VisitInv, [Next]_vars,
         NEW t \in Targets, visit[t] = "running", visit'[t] # "running"
  PROVE  Finish(t) \/ Fail(t) \/ Kill \/ (t[2] = "patched" /\ DuplicatePatch(t[1]))
<1> USE DEF TypeOK, bounds, patchvars
<1>1. ASSUME NEW r \in Requests, Make(r) PROVE FALSE
  BY <1>1, RunningMake DEF Make
<1>2. ASSUME NEW p \in Pkgs, Dirclean(p) \/ ListPatch(p) \/ ApplyPatch(p) PROVE FALSE
  BY <1>2 DEF Dirclean, ListPatch, ApplyPatch
<1>3. ASSUME NEW u \in Targets, Skip(u) \/ Begin(u) PROVE FALSE
  BY <1>3 DEF Skip, Begin, Considered
<1>4. ASSUME NEW u \in Targets, Finish(u) \/ Fail(u), u # t PROVE FALSE
  BY <1>4 DEF Finish, Fail, Failing
<1>5. ASSUME NEW p \in Pkgs, DuplicatePatch(p), t # <<p, "patched">> PROVE FALSE
  BY <1>5 DEF DuplicatePatch, Failing
<1>6. CASE Clean \/ Succeed \/ GiveUp
  BY <1>6 DEF Clean, Succeed, GiveUp
<1>7. CASE UNCHANGED vars
  BY <1>7 DEF vars
<1> QED
  BY <1>1, <1>2, <1>3, <1>4, <1>5, <1>6, <1>7 DEF Next, Step

(* What a step does to the patches of p, if anything.                      *)
LEMMA PatchesTouched ==
  ASSUME TypeOK, PatchTypeOK, [Next]_vars, NEW p \in Pkgs \ Override,
         ~Dirclean(p), ~ListPatch(p), ~ApplyPatch(p),
         ~Begin(<<p, "extracted">>), ~Begin(<<p, "patched">>)
  PROVE  /\ series'[p] = series[p] /\ listed'[p] = listed[p]
         /\ patching'[p] = patching[p] /\ applying'[p] = applying[p]
         /\ Patching(p)' => Patching(p)
<1> USE DEF PatchTypeOK, patchvars
<1> DEFINE Same == /\ series'[p] = series[p] /\ listed'[p] = listed[p]
                   /\ patching'[p] = patching[p] /\ applying'[p] = applying[p]
<1>1. ASSUME NEW q \in Pkgs, q # p, Dirclean(q) \/ ListPatch(q) \/ ApplyPatch(q)
      PROVE  Same
  BY <1>1 DEF Dirclean, ListPatch, ApplyPatch
<1>2. ASSUME NEW t \in Targets, Begin(t), t # <<p, "extracted">>, t # <<p, "patched">>
      PROVE  Same
  <2>1. t[1] # p \/ (t[2] # "extracted" /\ t[2] # "patched")
    BY <1>2, OfTarget
  <2>2. series' = series \/ (t[2] = "extracted" /\ series' = [series EXCEPT ![t[1]] = <<>>])
    BY <1>2 DEF Begin
  <2>3. \/ UNCHANGED <<patching, applying>>
        \/ /\ t[2] = "patched" /\ patching' = [patching EXCEPT ![t[1]] = 1]
           /\ applying' = [applying EXCEPT ![t[1]] = FALSE]
    BY <1>2 DEF Begin
  <2>4. listed' = listed
    BY <1>2 DEF Begin
  <2> QED
    BY <2>1, <2>2, <2>3, <2>4
<1>3. ASSUME UNCHANGED patchvars PROVE Same
  BY <1>3
<1>4. Same
  BY <1>1, <1>2, <1>3, PatchesUndisturbed
<1>5. Patching(p)' => Patching(p)
  BY NewlyRunning, SourceTargets DEF Patching
<1> QED
  BY <1>4, <1>5

(* The stamp of the patches appears when their recipe is done.             *)
LEMMA PatchedAppears ==
  ASSUME TypeOK, VisitInv, [Next]_vars, NEW p \in Pkgs \ Override, ~Finish(<<p, "patched">>)
  PROVE  /\ stamp'[<<p, "patched">>] # "none" => stamp[<<p, "patched">>] # "none"
         /\ stamp'[<<p, "patched">>] = "none" =>
                stamp[<<p, "patched">>] = "none" \/ Dirclean(p)
<1> DEFINE P == <<p, "patched">>
<1>1. P \in Targets /\ P[1] = p /\ P[2] = "patched"
  BY SourceTargets
<1> HIDE DEF P
<1>2. ASSUME NEW t \in Targets, Finish(t), t # P
      PROVE  stamp'[P] # "none" <=> stamp[P] # "none"
  BY <1>1, <1>2, FinishStamps
<1>3. ASSUME NEW q \in Pkgs, Dirclean(q)
      PROVE  stamp'[P] = IF p = q THEN "none" ELSE stamp[P]
  BY <1>1, <1>3 DEF Dirclean
<1>4. ASSUME Clean PROVE stamp'[P] = stamp[P]
  BY <1>1, <1>4, CleanStamps DEF Removable
<1> QED
  BY <1>2, <1>3, <1>4, StampsUndisturbed DEF P

LEMMA PatchStep ==
  ASSUME TypeOK, PatchTypeOK, VisitInv, StampInv, SourceInv, PatchInv, [Next]_vars
  PROVE  PatchInv'
<1> SUFFICES ASSUME NEW p \in Pkgs \ Override PROVE PatchesOf(p)'
  BY DEF PatchInv
<1> DEFINE P == <<p, "patched">>
<1>1. PatchesOf(p) /\ P \in Targets /\ <<p, "extracted">> \in Targets
  BY SourceTargets DEF PatchInv
<1>2. /\ series[p] \in Seq(Nat) /\ listed[p] \in Nat /\ patching[p] \in Nat \ {0}
      /\ applying[p] \in BOOLEAN /\ Patches[p] \in Nat /\ Len(series[p]) \in Nat
  BY NumbersAssumption DEF PatchTypeOK
<1>3. Patching(p) => stamp[P] = "none"
  BY <1>1, SourceTargets DEF StampInv, SourceInv, Patching, TypeOK
<1>4. CASE Dirclean(p)
  <2>1. series'[p] = <<>> /\ listed'[p] = 0 /\ ~Patching(p)' /\ stamp'[P] = "none"
    BY <1>1, <1>4 DEF Dirclean, PatchTypeOK, VisitInv, Patching
  <2> QED
    BY <1>2, <2>1 DEF PatchesOf
<1>5. CASE ListPatch(p)
  <2>1. Patching(p) /\ patching[p] <= Patches[p] /\ ~applying[p] /\ listed[p] < patching[p]
    BY <1>5 DEF ListPatch, AtPatch, Patching
  <2>2. listed'[p] = patching[p] /\ applying'[p] /\ series' = series /\ patching' = patching
        /\ visit' = visit /\ stamp' = stamp
    BY <1>5 DEF ListPatch, PatchTypeOK
  <2>3. Len(series[p]) = patching[p] - 1
    BY <1>1, <2>1 DEF PatchesOf
  <2> QED
    BY <1>1, <1>2, <2>1, <2>2, <2>3 DEF PatchesOf, Patching
<1>6. CASE ApplyPatch(p)
  <2>1. Patching(p) /\ patching[p] <= Patches[p] /\ applying[p]
    BY <1>6 DEF ApplyPatch, AtPatch, Patching
  <2>2. /\ series'[p] = Append(series[p], patching[p]) /\ patching'[p] = patching[p] + 1
        /\ ~applying'[p] /\ listed' = listed /\ visit' = visit /\ stamp' = stamp
    BY <1>6 DEF ApplyPatch, PatchTypeOK
  <2>3. listed[p] = patching[p] /\ Len(series[p]) = patching[p] - 1
        /\ \A i \in 1 .. Len(series[p]) : series[p][i] = i
    BY <1>1, <2>1 DEF PatchesOf
  <2>4. Len(series'[p]) = patching[p]
    BY <1>2, <2>2, <2>3
  <2>5. ASSUME NEW i \in 1 .. patching[p] PROVE series'[p][i] = i
    BY <1>2, <2>2, <2>3
  <2>6. stamp'[P] = "none"
    BY <1>3, <2>1, <2>2
  <2> QED
    BY <1>1, <1>2, <2>1, <2>2, <2>3, <2>4, <2>5, <2>6 DEF PatchesOf, Patching
<1>7. CASE Begin(<<p, "extracted">>)
  <2>1. series'[p] = <<>> /\ UNCHANGED <<listed, stamp>>
    BY <1>7 DEF Begin, PatchTypeOK
  <2>2. visit[<<p, "extracted">>] = "todo" /\ stamp[<<p, "extracted">>] # "ok"
    BY <1>7 DEF Begin, Considered
  <2>3. stamp[P] = "none"
    BY <2>2 DEF SourceInv
  <2>4. ~Patching(p)
    BY <1>1, <2>2, SourceTargets DEF VisitInv, Begun, Before, Patching
  <2>5. ~Patching(p)'
    <3>1. visit' = [visit EXCEPT ![<<p, "extracted">>] = "running"]
      BY <1>7 DEF Begin
    <3> QED
      BY <1>1, <2>4, <3>1 DEF Patching, TypeOK
  <2> QED
    BY <1>1, <1>2, <2>1, <2>3, <2>5 DEF PatchesOf
<1>8. CASE Begin(P)
  <2>1. /\ UNCHANGED <<series, listed, stamp>>
        /\ patching' = [patching EXCEPT ![p] = 1] /\ applying' = [applying EXCEPT ![p] = FALSE]
    BY <1>8 DEF Begin
  <2>2. patching'[p] = 1 /\ ~applying'[p]
    BY <2>1 DEF PatchTypeOK
  <2> QED
    BY <1>1, <1>2, <2>1, <2>2 DEF PatchesOf
<1>9. CASE Finish(P)
  <2>1. Patching(p) /\ patching[p] > Patches[p] /\ UNCHANGED <<series, listed, patching, applying>>
    BY <1>9 DEF Finish, Patching, patchvars
  <2>2. ~Patching(p)'
    BY <1>1, <1>9 DEF Finish, TypeOK, Patching
  <2>3. ~applying[p] /\ listed[p] < patching[p] /\ patching[p] = Patches[p] + 1
    BY <1>1, <1>2, <2>1 DEF PatchesOf
  <2>4. Len(series[p]) = Patches[p]
    BY <1>1, <1>2, <2>1, <2>3 DEF PatchesOf
  <2> QED
    BY <1>1, <2>1, <2>2, <2>4 DEF PatchesOf
<1>10. CASE ~Dirclean(p) /\ ~ListPatch(p) /\ ~ApplyPatch(p) /\ ~Begin(<<p, "extracted">>)
            /\ ~Begin(P) /\ ~Finish(P)
  <2>1. /\ series'[p] = series[p] /\ listed'[p] = listed[p]
        /\ patching'[p] = patching[p] /\ applying'[p] = applying[p]
        /\ Patching(p)' => Patching(p)
    BY <1>10, PatchesTouched
  <2>2. stamp'[P] # "none" => stamp[P] # "none"
    BY <1>10, PatchedAppears
  <2> QED
    BY <1>1, <2>1, <2>2 DEF PatchesOf
<1> QED
  BY <1>4, <1>5, <1>6, <1>7, <1>8, <1>9, <1>10

LEMMA CalmStep ==
  ASSUME TypeOK, PatchTypeOK, CountersOK, VisitInv, StampInv, SourceInv, PatchInv, CalmInv,
         [Next]_vars
  PROVE  CalmInv'
<1> SUFFICES ASSUME Calm', NEW p \in Pkgs \ Override
             PROVE  /\ ~Patching(p)' /\ stamp'[<<p, "patched">>] = "none" => listed'[p] = 0
                    /\ Patching(p)' /\ ~applying'[p] => listed'[p] < patching'[p]
  BY DEF CalmInv
<1> DEFINE P == <<p, "patched">>
           Goal == /\ ~Patching(p)' /\ stamp'[P] = "none" => listed'[p] = 0
                   /\ Patching(p)' /\ ~applying'[p] => listed'[p] < patching'[p]
<1> SUFFICES Goal
  OBVIOUS
<1>1. Calm
  BY CountersStep DEF Calm, CountersOK
<1>2. /\ ~Patching(p) /\ stamp[P] = "none" => listed[p] = 0
      /\ Patching(p) /\ ~applying[p] => listed[p] < patching[p]
  BY <1>1 DEF CalmInv
<1>3. P \in Targets /\ listed[p] \in Nat /\ patching[p] \in Nat
  BY SourceTargets DEF PatchTypeOK
<1>4. CASE Dirclean(p)
  <2>1. listed'[p] = 0 /\ ~Patching(p)'
    BY <1>3, <1>4 DEF Dirclean, PatchTypeOK, VisitInv, Patching
  <2> QED
    BY <2>1
<1>5. CASE ListPatch(p)
  <2>1. Patching(p)' /\ applying'[p]
    BY <1>5 DEF ListPatch, AtPatch, Patching, PatchTypeOK
  <2> QED
    BY <2>1
<1>6. CASE ApplyPatch(p)
  <2>1. Patching(p) /\ Patching(p)' /\ applying[p]
    BY <1>6 DEF ApplyPatch, AtPatch, Patching
  <2>2. listed'[p] = listed[p] /\ patching'[p] = patching[p] + 1
    BY <1>6 DEF ApplyPatch, PatchTypeOK
  <2>3. listed[p] = patching[p]
    BY <2>1 DEF PatchInv, PatchesOf
  <2> QED
    BY <1>3, <2>1, <2>2, <2>3
<1>7. CASE Begin(<<p, "extracted">>)
  <2>1. UNCHANGED <<listed, stamp, patching, applying>> /\ ~Patching(p)
    BY <1>3, <1>7, SourceTargets
       DEF Begin, Considered, VisitInv, Begun, Before, Patching
  <2>2. ~Patching(p)'
    <3>1. visit' = [visit EXCEPT ![<<p, "extracted">>] = "running"]
      BY <1>7 DEF Begin
    <3> QED
      BY <1>3, <2>1, <3>1 DEF Patching, TypeOK
  <2> QED
    BY <1>2, <2>1, <2>2
<1>8. CASE Begin(P)
  <2>1. UNCHANGED <<listed, stamp>> /\ patching'[p] = 1
    <3>1. patching' = [patching EXCEPT ![p] = 1] /\ UNCHANGED <<listed, stamp>>
      BY <1>8 DEF Begin
    <3> QED
      BY <3>1 DEF PatchTypeOK
  <2>2. stamp[P] = "none" /\ ~Patching(p) /\ Patching(p)'
    <3>1. visit[P] = "todo" /\ stamp[P] # "ok" /\ visit'[P] = "running"
      BY <1>3, <1>8 DEF Begin, Considered, TypeOK
    <3> QED
      BY <1>3, <3>1, SourceTargets DEF SourceInv, TypeOK, Patching
  <2> QED
    BY <1>2, <2>1, <2>2
<1>9. CASE Finish(P)
  <2>1. stamp'[P] = "ok" /\ ~Patching(p)'
    BY <1>3, <1>9, FinishStamps DEF Finish, TypeOK, Patching
  <2> QED
    BY <2>1
<1>10. CASE ~Dirclean(p) /\ ~ListPatch(p) /\ ~ApplyPatch(p) /\ ~Begin(<<p, "extracted">>)
            /\ ~Begin(P) /\ ~Finish(P)
  <2>1. /\ listed'[p] = listed[p] /\ patching'[p] = patching[p] /\ applying'[p] = applying[p]
        /\ Patching(p)' => Patching(p)
    BY <1>10, PatchesTouched
  <2>2. stamp'[P] = "none" => stamp[P] = "none"
    BY <1>10, PatchedAppears
  <2>3. Patching(p) => Patching(p)'
    <3>1. ASSUME Patching(p), ~Patching(p)' PROVE FALSE
      <4>1. Fail(P) \/ Kill \/ DuplicatePatch(p)
        BY <1>3, <1>10, <3>1, RunningEnds DEF Patching
      <4>2. ~DuplicatePatch(p)
        BY <1>2, <1>3, <3>1 DEF DuplicatePatch, Patching
      <4>3. fails' = fails + 1 \/ kills' = kills + 1
        BY <4>1, <4>2 DEF Fail, Kill
      <4> QED
        BY <4>3 DEF CountersOK, Calm
    <3> QED
      BY <3>1
  <2> QED
    BY <1>2, <2>1, <2>2, <2>3
<1> QED
  BY <1>4, <1>5, <1>6, <1>7, <1>8, <1>9, <1>10

LEMMA ReasonStep ==
  ASSUME TypeOK, PatchTypeOK, CountersOK, VisitInv, CalmInv, ReasonInv, [Next]_vars
  PROVE  ReasonInv'
<1> DEFINE Stuck == \E t \in Targets : t[2] = "patched" /\ visit[t] = "failed"
<1> SUFFICES ASSUME make' \in {"failing", "failed"}
             PROVE  fails' > 0 \/ (kills' > 0 /\ Stuck')
  BY DEF ReasonInv
<1>1. fails' \in Nat /\ fails' >= fails /\ kills' >= kills /\ fails \in Nat /\ kills \in Nat
      /\ kills' \in Nat
  BY CountersStep DEF CountersOK
<1>2. ASSUME NEW t \in Targets, Fail(t) PROVE fails' > 0
  <2>1. fails' = fails + 1
    BY <1>2 DEF Fail
  <2> QED
    BY <1>1, <2>1
<1>3. ASSUME NEW p \in Pkgs, DuplicatePatch(p) PROVE fails' > 0 \/ (kills' > 0 /\ Stuck')
  <2>1. p \notin Override /\ <<p, "patched">> \in Targets
    BY <1>3, SourceTargets DEF DuplicatePatch, AtPatch
  <2>2. visit'[<<p, "patched">>] = "failed" /\ UNCHANGED <<fails, kills>>
    BY <1>3, <2>1 DEF DuplicatePatch, Failing, TypeOK, bounds
  <2>3. Patching(p) /\ ~applying[p] /\ listed[p] >= patching[p]
    BY <1>3 DEF DuplicatePatch, AtPatch, Patching
  <2>4. ~Calm
    <3>1. ASSUME Calm PROVE listed[p] < patching[p]
      BY <2>1, <2>3, <3>1 DEF CalmInv
    <3> QED
      BY <2>1, <2>3, <3>1 DEF PatchTypeOK
  <2>5. Stuck'
    BY <2>1, <2>2
  <2> QED
    BY <1>1, <2>2, <2>4, <2>5 DEF Calm
<1>4. ASSUME make \in {"failing", "failed"}, \A t \in Targets : visit[t] = "failed" => visit'[t] = "failed"
      PROVE  fails' > 0 \/ (kills' > 0 /\ Stuck')
  BY <1>1, <1>4 DEF ReasonInv
<1> USE DEF TypeOK, bounds, patchvars
<1>5. ASSUME NEW t \in Targets, Finish(t) PROVE fails' > 0 \/ (kills' > 0 /\ Stuck')
  BY <1>4, <1>5, RunningMake DEF Finish, Resting
<1>6. ASSUME NEW p \in Pkgs, ListPatch(p) \/ ApplyPatch(p)
      PROVE  fails' > 0 \/ (kills' > 0 /\ Stuck')
  BY <1>4, <1>6 DEF ListPatch, ApplyPatch
<1>7. CASE Clean \/ GiveUp
  BY <1>4, <1>7 DEF Clean, GiveUp
<1>8. CASE UNCHANGED vars
  BY <1>4, <1>8 DEF vars
<1>9. ASSUME NEW t \in Targets, Skip(t) \/ Begin(t) PROVE FALSE
  BY <1>9 DEF Skip, Begin, Considered
<1>10. ASSUME \/ \E r \in Requests : Make(r)
              \/ \E p \in Pkgs : Dirclean(p)
              \/ Succeed \/ Kill
       PROVE  FALSE
  BY <1>10 DEF Make, Dirclean, Succeed, Kill
<1> QED
  BY <1>2, <1>3, <1>5, <1>6, <1>7, <1>8, <1>9, <1>10 DEF Next, Step

-----------------------------------------------------------------------------
(***************************************************************************)
(* Nothing is out of date.                                                 *)
(***************************************************************************)

(* The steps that have to do with how fresh a result is.                   *)
LEMMA FreshUndisturbed ==
  ASSUME [Next]_vars
  PROVE  \/ UNCHANGED <<fresh, ran>>
         \/ \E r \in Requests : Make(r)
         \/ \E t \in Targets : Begin(t) \/ Finish(t)
<1>1. ASSUME NEW t \in Targets, Skip(t) \/ Fail(t) PROVE UNCHANGED <<fresh, ran>>
  BY <1>1 DEF Skip, Fail
<1>2. ASSUME NEW p \in Pkgs, Dirclean(p) \/ DuplicatePatch(p) \/ ListPatch(p) \/ ApplyPatch(p)
      PROVE  UNCHANGED <<fresh, ran>>
  BY <1>2 DEF Dirclean, DuplicatePatch, ListPatch, ApplyPatch
<1>3. CASE Clean \/ Succeed \/ GiveUp \/ Kill
  BY <1>3 DEF Clean, Succeed, GiveUp, Kill
<1>4. CASE UNCHANGED vars
  BY <1>4 DEF vars
<1> QED
  BY <1>1, <1>2, <1>3, <1>4 DEF Next, Step

LEMMA BeginFresh ==
  ASSUME TypeOK, NEW t \in Targets, Begin(t), NEW u \in Targets
  PROVE  fresh'[u] <=> fresh[u] /\ u # t /\ u \notin After(t)
<1>1. fresh' = [w \in Targets |-> fresh[w] /\ w \notin {t} \cup After(t)]
  BY DEF Begin
<1>2. fresh'[u] = (fresh[u] /\ u \notin {t} \cup After(t))
  BY <1>1
<1> QED
  BY <1>2

LEMMA FreshStep ==
  ASSUME TypeOK, FreshInv, [Next]_vars
  PROVE  FreshInv'
<1> SUFFICES ASSUME NEW t \in Targets, t[1] \notin Override, stamp'[t] = "ok",
                    \A v \in Prereqs(t) : stamp'[v] = "ok" /\ fresh'[v]
             PROVE  fresh'[t]
  BY DEF FreshInv
<1>1. \A v \in Prereqs(t) : v \in Targets
  BY PrereqsTyped
<1>2. ASSUME \A v \in Prereqs(t) \cup {t} : stamp'[v] = "ok" => stamp[v] = "ok",
             \A v \in Prereqs(t) : fresh'[v] => fresh[v]
      PROVE  fresh[t]
  BY <1>2 DEF FreshInv
<1>3. CASE UNCHANGED fresh /\ ~ \E u \in Targets : Finish(u)
  <2>1. \A v \in Targets : stamp'[v] = "ok" => stamp[v] = "ok"
    <3>1. ASSUME NEW p \in Pkgs, Dirclean(p)
          PROVE  \A v \in Targets : stamp'[v] = "ok" => stamp[v] = "ok"
      BY <3>1 DEF Dirclean
    <3>2. CASE Clean
      BY <3>2 DEF Clean
    <3> QED
      BY <1>3, <3>1, <3>2, StampsUndisturbed
  <2> QED
    BY <1>1, <1>2, <1>3, <2>1
<1>4. ASSUME NEW u \in Targets, Begin(u) PROVE fresh'[t]
  <2>1. stamp' = stamp /\ stamp[u] # "ok"
    BY <1>4 DEF Begin
  <2>2. fresh[t]
    BY <1>1, <1>2, <1>4, <2>1, BeginFresh
  <2>3. t # u
    BY <2>1
  <2>4. t \notin After(u)
    <3>1. ASSUME t \in After(u) PROVE FALSE
      <4>1. PICK v \in Prereqs(t) : v = u \/ v \in After(u)
        BY <3>1, AfterIsPrereqs DEF Between
      <4> QED
        BY <1>1, <1>4, <4>1, BeginFresh
    <3> QED
      BY <3>1
  <2> QED
    BY <1>4, <2>2, <2>3, <2>4, BeginFresh
<1>5. ASSUME NEW u \in Targets, Finish(u) PROVE fresh'[t]
  <2>1. fresh' = [fresh EXCEPT ![u] = TRUE]
    BY <1>5 DEF Finish
  <2>2. CASE t = u
    BY <2>1, <2>2 DEF TypeOK
  <2>3. CASE t # u
    <3>1. stamp[t] = "ok" /\ u \notin Prereqs(t)
      BY <1>5, <2>3, FinishStamps
    <3>2. \A v \in Prereqs(t) : v # u /\ stamp[v] = "ok" /\ (fresh'[v] => fresh[v])
      BY <1>1, <1>5, <2>1, <3>1, FinishStamps DEF TypeOK
    <3>3. fresh[t]
      BY <1>2, <3>1, <3>2
    <3> QED
      BY <2>1, <2>3, <3>3 DEF TypeOK
  <2> QED
    BY <2>2, <2>3
<1>6. ASSUME NEW r \in Requests, Make(r) PROVE UNCHANGED fresh /\ UNCHANGED stamp
  BY <1>6 DEF Make
<1>7. CASE UNCHANGED fresh /\ UNCHANGED stamp
  BY <1>2, <1>7
<1> QED
  BY <1>3, <1>4, <1>5, <1>6, <1>7, FreshUndisturbed

LEMMA CurrentStep ==
  ASSUME TypeOK, VisitInv, StampInv, FreshInv, CurrentInv, [Next]_vars
  PROVE  CurrentInv'
<1> SUFFICES ASSUME make' # "idle", Safe', NEW t \in Targets, visit'[t] = "done",
                    t[1] \notin Override
             PROVE  fresh'[t]
  BY DEF CurrentInv
<1> USE DEF TypeOK, bounds, patchvars
<1>1. ASSUME make # "idle", UNCHANGED <<jobs, request, fresh>>, visit[t] = "done"
      PROVE  fresh'[t]
  BY <1>1 DEF CurrentInv, Safe
<1>2. ASSUME NEW r \in Requests, Make(r) PROVE FALSE
  BY <1>2 DEF Make
<1>3. ASSUME NEW p \in Pkgs, Dirclean(p) PROVE FALSE
  BY <1>3 DEF Dirclean
<1>4. CASE Clean \/ Succeed \/ GiveUp
  BY <1>1, <1>4 DEF Clean, Succeed, GiveUp
<1>5. ASSUME NEW u \in Targets, Skip(u) PROVE fresh'[t]
  <2>1. /\ make = "running" /\ UNCHANGED <<jobs, request, fresh>> /\ stamp[u] = "ok"
        /\ visit' = [visit EXCEPT ![u] = "done"]
        /\ \A v \in Before(u) : visit[v] = "done"
    BY <1>5 DEF Skip, Considered
  <2>2. CASE t # u
    BY <1>1, <2>1, <2>2
  <2>3. CASE t = u
    <3>1. Safe
      BY <2>1 DEF Safe
    <3>2. ASSUME NEW v \in Prereqs(t) PROVE stamp[v] = "ok" /\ fresh[v]
      <4>1. v \in Targets /\ v[1] = t[1] /\ visit[v] = "done"
        BY <2>1, <2>3, PrereqsTyped DEF Before
      <4>2. fresh[v]
        BY <2>1, <3>1, <4>1 DEF CurrentInv
      <4>3. stamp[v] = "ok"
        BY <2>1, <3>1, <4>1 DEF StampInv, MayVanish, Safe
      <4> QED
        BY <4>2, <4>3
    <3> QED
      BY <2>1, <2>3, <3>2 DEF FreshInv
  <2> QED
    BY <2>2, <2>3
<1>6. ASSUME NEW u \in Targets, Begin(u) PROVE fresh'[t]
  <2>1. /\ make = "running" /\ UNCHANGED <<jobs, request>> /\ visit[u] = "todo"
        /\ visit' = [visit EXCEPT ![u] = "running"]
    BY <1>6 DEF Begin, Considered
  <2>2. t # u /\ visit[t] = "done"
    BY <2>1
  <2>3. fresh[t]
    BY <2>1, <2>2 DEF CurrentInv, Safe
  <2>4. t \notin After(u)
    BY <2>1, <2>2, EarlierDone DEF VisitInv, Begun
  <2> QED
    BY <1>6, <2>2, <2>3, <2>4, BeginFresh
<1>7. ASSUME NEW u \in Targets, Finish(u) PROVE fresh'[t]
  <2>1. /\ UNCHANGED <<jobs, request>> /\ make # "idle"
        /\ visit' = [visit EXCEPT ![u] = "done"] /\ fresh' = [fresh EXCEPT ![u] = TRUE]
    BY <1>7, RunningMake DEF Finish
  <2>2. t # u => fresh[t]
    BY <2>1 DEF CurrentInv, Safe
  <2> QED
    BY <2>1, <2>2
<1>8. ASSUME NEW u \in Targets, Fail(u) PROVE fresh'[t]
  <2>1. UNCHANGED <<jobs, request, fresh>> /\ make # "idle" /\ visit[t] = "done"
    BY <1>8, RunningMake DEF Fail, Failing
  <2> QED
    BY <1>1, <2>1
<1>9. ASSUME NEW p \in Pkgs, DuplicatePatch(p) PROVE fresh'[t]
  <2>1. <<p, "patched">> \in Targets
    BY <1>9, SourceTargets DEF DuplicatePatch, AtPatch
  <2>2. UNCHANGED <<jobs, request, fresh>> /\ make # "idle" /\ visit[t] = "done"
    BY <1>9, <2>1, RunningMake DEF DuplicatePatch, AtPatch, Failing
  <2> QED
    BY <1>1, <2>2
<1>10. ASSUME NEW p \in Pkgs, ListPatch(p) \/ ApplyPatch(p) PROVE fresh'[t]
  BY <1>1, <1>10 DEF ListPatch, ApplyPatch
<1>11. CASE Kill
  <2>1. UNCHANGED <<jobs, request, fresh>> /\ make # "idle" /\ visit[t] = "done"
    BY <1>11 DEF Kill, Resting
  <2> QED
    BY <1>1, <2>1
<1>12. CASE UNCHANGED vars
  BY <1>1, <1>12 DEF vars
<1> QED
  BY <1>2, <1>3, <1>4, <1>5, <1>6, <1>7, <1>8, <1>9, <1>10, <1>11, <1>12 DEF Next, Step

-----------------------------------------------------------------------------
(***************************************************************************)
(* What is rebuilt.                                                        *)
(***************************************************************************)

LEMMA DoneInRunStep ==
  ASSUME TypeOK, VisitInv, DoneInRun, [Next]_vars
  PROVE  DoneInRun'
<1> USE DEF TypeOK, bounds, patchvars
<1>1. ASSUME UNCHANGED <<ran, fresh>>, \A t \in Targets : visit[t] = "done" => visit'[t] = "done"
      PROVE  DoneInRun'
  BY <1>1 DEF DoneInRun
<1>2. ASSUME NEW r \in Requests, Make(r) PROVE DoneInRun'
  BY <1>2 DEF Make, DoneInRun
<1>3. ASSUME NEW p \in Pkgs, Dirclean(p) \/ ListPatch(p) \/ ApplyPatch(p) PROVE DoneInRun'
  BY <1>1, <1>3 DEF Dirclean, ListPatch, ApplyPatch
<1>4. CASE Clean \/ Succeed \/ GiveUp
  BY <1>1, <1>4 DEF Clean, Succeed, GiveUp
<1>5. ASSUME NEW u \in Targets, Skip(u) \/ Fail(u) PROVE DoneInRun'
  BY <1>1, <1>5 DEF Skip, Considered, Fail, Failing
<1>6. ASSUME NEW u \in Targets, Begin(u) PROVE DoneInRun'
  <2>1. UNCHANGED ran /\ visit[u] = "todo" /\ visit' = [visit EXCEPT ![u] = "running"]
    BY <1>6 DEF Begin, Considered
  <2>2. ASSUME NEW t \in ran PROVE visit'[t] = "done" /\ fresh'[t]
    <3>1. t \in Targets /\ visit[t] = "done" /\ fresh[t]
      BY DEF DoneInRun
    <3>2. t # u /\ visit'[t] = "done"
      BY <2>1, <3>1
    <3>3. t \notin After(u)
      BY <2>1, <3>1, EarlierDone DEF VisitInv, Begun
    <3> QED
      BY <1>6, <3>1, <3>2, <3>3, BeginFresh
  <2> QED
    BY <2>1, <2>2 DEF DoneInRun
<1>7. ASSUME NEW u \in Targets, Finish(u) PROVE DoneInRun'
  BY <1>7 DEF Finish, DoneInRun
<1>8. ASSUME NEW p \in Pkgs, DuplicatePatch(p) PROVE DoneInRun'
  BY <1>1, <1>8 DEF DuplicatePatch, AtPatch, Failing
<1>9. CASE Kill
  <2>1. \A t \in Targets : visit[t] = "done" => visit'[t] = "done"
    BY <1>9 DEF Kill
  <2> QED
    BY <1>1, <1>9, <2>1 DEF Kill
<1>10. CASE UNCHANGED vars
  BY <1>1, <1>10 DEF vars
<1> QED
  BY <1>2, <1>3, <1>4, <1>5, <1>6, <1>7, <1>8, <1>9, <1>10 DEF Next, Step

LEMMA RemovedTargets ==
  ASSUME NEW r \in Requests, r.verb \in {"rebuild", "reconfigure"}, NEW s \in Removed(r)
  PROVE  r.pkg \in Pkgs /\ <<r.pkg, s>> \in Targets
<1>1. r.pkg \in Pkgs
  BY DEF Requests
<1> QED
  BY <1>1, TargetOf DEF Removed

LEMMA RemovedFirstStep ==
  ASSUME TypeOK, VisitInv, RemovedFirst, [Next]_vars
  PROVE  RemovedFirst'
<1> DEFINE Dealt(s) == \/ s \in Elements(cleaning)
                      \/ stamp[<<request.pkg, s>>] = "none"
                      \/ <<request.pkg, s>> \in ran
<1> SUFFICES ASSUME make' \notin {"idle", "killed"}, Rebuilding', NEW s \in Removed(request')
             PROVE  Dealt(s)'
  BY DEF RemovedFirst
<1> USE DEF TypeOK, bounds, patchvars
<1>1. ASSUME NEW r \in Requests, Make(r) PROVE Dealt(s)'
  <2>1. request' = r /\ cleaning' = CleanList(r)
    BY <1>1 DEF Make
  <2>2. s \in Elements(CleanList(r))
    BY <2>1, RemovedListed DEF Rebuilding
  <2> QED
    BY <2>1, <2>2 DEF Elements
<1>2. ASSUME UNCHANGED request, make \notin {"idle", "killed"}
      PROVE  Dealt(s) /\ <<request.pkg, s>> \in Targets
  BY <1>2, RemovedTargets DEF RemovedFirst, Rebuilding
<1>3. ASSUME UNCHANGED <<request, cleaning, stamp>>, make \notin {"idle", "killed"},
             ran \subseteq ran'
      PROVE  Dealt(s)'
  BY <1>2, <1>3 DEF Elements
<1>4. ASSUME NEW p \in Pkgs, Dirclean(p) PROVE FALSE
  BY <1>4 DEF Dirclean
<1>5. CASE Clean
  <2>1. UNCHANGED <<request, ran>> /\ make \notin {"idle", "killed"}
        /\ cleaning # <<>> /\ cleaning' = Tail(cleaning)
        /\ \A t \in Targets : stamp'[t] = IF t = <<request.pkg, Head(cleaning)>> THEN "none"
                                         ELSE stamp[t]
    BY <1>5 DEF Clean
  <2>2. Dealt(s) /\ <<request.pkg, s>> \in Targets
    BY <1>2, <2>1
  <2>3. s \in Elements(cleaning) => s = Head(cleaning) \/ s \in Elements(cleaning')
    BY <2>1, ElementsOfTail
  <2>4. s \in Elements(cleaning') => s \in Elements(cleaning)'
    BY DEF Elements
  <2> QED
    BY <2>1, <2>2, <2>3, <2>4
<1>6. ASSUME NEW u \in Targets, Skip(u) \/ Begin(u) PROVE Dealt(s)'
  BY <1>3, <1>6 DEF Skip, Begin, Considered
<1>7. ASSUME NEW u \in Targets, Fail(u) PROVE Dealt(s)'
  <2>1. make \notin {"idle", "killed"}
    BY <1>7, RunningMake DEF Fail, Resting
  <2> QED
    BY <1>3, <1>7, <2>1 DEF Fail
<1>8. ASSUME NEW u \in Targets, Finish(u) PROVE Dealt(s)'
  <2>1. make \notin {"idle", "killed"} /\ UNCHANGED <<request, cleaning>>
        /\ ran' = ran \cup {u}
    BY <1>8, RunningMake DEF Finish, Resting
  <2>2. Dealt(s) /\ <<request.pkg, s>> \in Targets
    BY <1>2, <2>1
  <2>3. <<request.pkg, s>> # u /\ stamp[<<request.pkg, s>>] = "none"
           => stamp'[<<request.pkg, s>>] = "none"
    BY <1>8, <2>2, FinishStamps
  <2> QED
    BY <2>1, <2>2, <2>3 DEF Elements
<1>9. ASSUME NEW p \in Pkgs, DuplicatePatch(p) PROVE Dealt(s)'
  <2>1. <<p, "patched">> \in Targets
    BY <1>9, SourceTargets DEF DuplicatePatch, AtPatch
  <2>2. make \notin {"idle", "killed"}
    BY <1>9, <2>1, RunningMake DEF DuplicatePatch, AtPatch, Resting
  <2> QED
    BY <1>3, <1>9, <2>2 DEF DuplicatePatch
<1>10. ASSUME NEW p \in Pkgs, ListPatch(p) \/ ApplyPatch(p) PROVE Dealt(s)'
  BY <1>3, <1>10 DEF ListPatch, ApplyPatch
<1>11. CASE Succeed \/ GiveUp
  BY <1>3, <1>11 DEF Succeed, GiveUp
<1>12. ASSUME Kill PROVE FALSE
  BY <1>12 DEF Kill
<1>13. CASE UNCHANGED vars
  BY <1>3, <1>13 DEF vars
<1> QED
  BY <1>1, <1>4, <1>5, <1>6, <1>7, <1>8, <1>9, <1>10, <1>11, <1>12, <1>13 DEF Next, Step

LEMMA DoneAgainStep ==
  ASSUME TypeOK, VisitInv, RemovedFirst, DoneAgain, [Next]_vars
  PROVE  DoneAgain'
<1> SUFFICES ASSUME make' # "idle", Rebuilding', jobs' = 1, NEW s \in Removed(request'),
                    visit'[<<request'.pkg, s>>] = "done"
             PROVE  <<request'.pkg, s>> \in ran'
  BY DEF DoneAgain
<1> DEFINE t == <<request'.pkg, s>>
<1>1. request' \in Requests /\ t \in Targets
  BY TypeStep, RemovedTargets DEF TypeOK, Rebuilding
<1> HIDE DEF t
<1> SUFFICES t \in ran'
  BY DEF t
<1> visit'[t] = "done"
  BY DEF t
<1> USE DEF TypeOK, bounds, patchvars
<1>2. ASSUME NEW r \in Requests, Make(r) PROVE FALSE
  BY <1>1, <1>2 DEF Make
<1>3. ASSUME UNCHANGED <<request, jobs>>, make # "idle", ran \subseteq ran', visit[t] = "done"
      PROVE  t \in ran'
  BY <1>3 DEF DoneAgain, Rebuilding, t
<1>4. ASSUME NEW p \in Pkgs, Dirclean(p) PROVE FALSE
  BY <1>4 DEF Dirclean
<1>5. CASE Clean \/ Succeed \/ GiveUp
  BY <1>3, <1>5 DEF Clean, Succeed, GiveUp
<1>6. ASSUME NEW u \in Targets, Skip(u) PROVE t \in ran'
  <2>1. /\ make = "running" /\ UNCHANGED <<jobs, request, ran>> /\ stamp[u] = "ok"
        /\ visit' = [visit EXCEPT ![u] = "done"] /\ FreeJob
    BY <1>6 DEF Skip, Considered
  <2>2. CASE t # u
    BY <1>1, <1>3, <2>1, <2>2
  <2>3. CASE t = u
    <3>1. cleaning = <<>>
      BY <2>1, AloneMeansNone
    <3>2. Elements(cleaning) = {}
      BY <3>1 DEF Elements
    <3>3. stamp[t] # "none"
      BY <2>1, <2>3
    <3> QED
      BY <2>1, <3>2, <3>3 DEF RemovedFirst, Rebuilding, t
  <2> QED
    BY <2>2, <2>3
<1>7. ASSUME NEW u \in Targets, Begin(u) PROVE t \in ran'
  BY <1>1, <1>3, <1>7 DEF Begin, Considered
<1>8. ASSUME NEW u \in Targets, Fail(u) PROVE t \in ran'
  BY <1>1, <1>3, <1>8, RunningMake DEF Fail, Failing
<1>9. ASSUME NEW u \in Targets, Finish(u) PROVE t \in ran'
  <2>1. /\ UNCHANGED <<jobs, request>> /\ make # "idle"
        /\ visit' = [visit EXCEPT ![u] = "done"] /\ ran' = ran \cup {u}
    BY <1>9, RunningMake DEF Finish
  <2> QED
    BY <1>1, <1>3, <2>1
<1>10. ASSUME NEW p \in Pkgs, DuplicatePatch(p) PROVE t \in ran'
  <2>1. <<p, "patched">> \in Targets
    BY <1>10, SourceTargets DEF DuplicatePatch, AtPatch
  <2>2. make # "idle" /\ UNCHANGED <<request, jobs, ran>>
    BY <1>10, <2>1, RunningMake DEF DuplicatePatch, AtPatch
  <2>3. visit[t] = "done"
    BY <1>1, <1>10 DEF DuplicatePatch, Failing
  <2> QED
    BY <1>3, <2>2, <2>3
<1>11. ASSUME NEW p \in Pkgs, ListPatch(p) \/ ApplyPatch(p) PROVE t \in ran'
  BY <1>3, <1>11 DEF ListPatch, ApplyPatch
<1>12. CASE Kill
  <2>1. visit[t] = "done"
    BY <1>1, <1>12 DEF Kill
  <2>2. make # "idle" /\ UNCHANGED <<request, jobs, ran>>
    BY <1>12 DEF Kill, Resting
  <2> QED
    BY <1>3, <2>1, <2>2
<1>13. CASE UNCHANGED vars
  BY <1>3, <1>13 DEF vars
<1> QED
  BY <1>2, <1>4, <1>5, <1>6, <1>7, <1>8, <1>9, <1>10, <1>11, <1>12, <1>13 DEF Next, Step

-----------------------------------------------------------------------------
(***************************************************************************)
(* The inductive invariant.                                                *)
(***************************************************************************)
IInv ==
    /\ TypeOK /\ PatchTypeOK /\ CountersOK
    /\ VisitInv /\ StampInv /\ SourceInv
    /\ PatchInv /\ CalmInv /\ ReasonInv
    /\ FreshInv /\ CurrentInv /\ RanInv

LEMMA Initially == Init => IInv
<1> SUFFICES ASSUME Init PROVE IInv
  OBVIOUS
<1> USE DEF Init
<1>1. TypeOK
  BY DEF TypeOK, Resting, VisitStates
<1>2. PatchTypeOK /\ CountersOK
  BY DEF PatchTypeOK, CountersOK
<1>3. \A t \in Targets : visit[t] = "none" /\ stamp[t] = "none"
  OBVIOUS
<1>4. VisitInv /\ StampInv /\ FreshInv /\ CurrentInv /\ ReasonInv
  BY <1>3 DEF VisitInv, Begun, StampInv, FreshInv, CurrentInv, ReasonInv
<1>5. RanInv
  BY DEF RanInv, DoneInRun, RemovedFirst, DoneAgain
<1>6. SourceInv
  BY <1>3, SourceTargets DEF SourceInv
<1>7. PatchInv /\ CalmInv
  <2> SUFFICES ASSUME NEW p \in Pkgs \ Override
               PROVE  PatchesOf(p) /\ listed[p] = 0 /\ ~Patching(p)
    BY DEF PatchInv, CalmInv
  <2>1. series[p] = <<>> /\ listed[p] = 0 /\ ~Patching(p) /\ stamp[<<p, "patched">>] = "none"
    BY <1>3, SourceTargets DEF Patching
  <2>2. Patches[p] \in Nat
    BY NumbersAssumption
  <2> QED
    BY <2>1, <2>2 DEF PatchesOf
<1> QED
  BY <1>1, <1>2, <1>4, <1>5, <1>6, <1>7 DEF IInv

LEMMA Preserved == IInv /\ [Next]_vars => IInv'
<1> SUFFICES ASSUME IInv, [Next]_vars PROVE IInv'
  OBVIOUS
<1>1. TypeOK' /\ PatchTypeOK' /\ CountersOK'
  BY TypeStep, PatchTypeStep, CountersStep DEF IInv
<1>2. VisitInv' /\ StampInv' /\ SourceInv'
  BY VisitStep, StampStep, SourceStep DEF IInv
<1>3. PatchInv' /\ CalmInv' /\ ReasonInv'
  BY PatchStep, CalmStep, ReasonStep DEF IInv
<1>4. FreshInv' /\ CurrentInv'
  BY FreshStep, CurrentStep DEF IInv
<1>5. RanInv'
  BY DoneInRunStep, RemovedFirstStep, DoneAgainStep DEF IInv, RanInv
<1> QED
  BY <1>1, <1>2, <1>3, <1>4, <1>5 DEF IInv

(* What the invariants below follow from: how far make has come, which     *)
(* stamps are there and of what, and which patches are applied, after any  *)
(* number of runs that succeed, fail or are killed.                        *)
THEOREM Inductive == Spec => []IInv
  BY Initially, Preserved, PTL DEF Spec

(* apply-patches.sh and the rule of .stamp_patched: sources that count as  *)
(* patched have every patch applied once, in order.                        *)
THEOREM PatchesOnce == Spec => []PatchedOnce
<1>1. IInv => PatchedOnce
  <2> SUFFICES ASSUME IInv, NEW p \in Pkgs \ Override, stamp[<<p, "patched">>] # "none"
               PROVE  series[p] = [i \in 1 .. Patches[p] |-> i]
    BY DEF PatchedOnce
  <2>1. series[p] \in Seq(Nat) /\ Patches[p] \in Nat
    BY NumbersAssumption DEF IInv, PatchTypeOK
  <2>2. Len(series[p]) = Patches[p] /\ \A i \in 1 .. Len(series[p]) : series[p][i] = i
    BY DEF IInv, PatchInv, PatchesOf
  <2> QED
    BY <2>1, <2>2
<1> QED
  BY <1>1, Inductive, PTL

(* The last line of the build: all that was asked for is there and up to   *)
(* date when make succeeds, and make only fails for a reason.              *)
THEOREM EndsWell == Spec => []EndsAsItShould
<1>1. IInv => SuccessMeansCurrent
  <2> SUFFICES ASSUME IInv, make = "done", Safe, NEW t \in Needed[request]
               PROVE  stamp[t] = "ok" /\ (t[1] \in Override \/ fresh[t])
    BY DEF SuccessMeansCurrent, Safe
  <2>1. t \in Targets
    BY NeededAssumption DEF IInv, TypeOK
  <2>2. visit[t] = "done"
    BY <2>1 DEF IInv, VisitInv
  <2> QED
    BY <2>1, <2>2 DEF IInv, StampInv, MayVanish, CurrentInv, Safe
<1>2. IInv => FailsForAReason
  BY DEF IInv, ReasonInv, FailsForAReason
<1> QED
  BY <1>1, <1>2, Inductive, PTL DEF EndsAsItShould

(* make is past every step of a package that is installed.                 *)
LEMMA AllDone ==
  ASSUME VisitInv, NEW p \in Pkgs, visit[<<p, "installed">>] = "done", NEW s \in Steps(p)
  PROVE  visit[<<p, s>>] = "done"
<1>1. <<p, s>> \in Targets /\ <<p, "installed">> \in Targets /\ s \in AllSteps
  BY TargetOf, StepTypes DEF Steps
<1>2. CASE s # "installed"
  <2>1. Rank(s) < Rank("installed")
    BY <1>1, <1>2 DEF Rank, AllSteps
  <2>2. <<p, "installed">> \in After(<<p, s>>)
    BY <1>1, <2>1 DEF After
  <2> QED
    BY <1>1, <2>2, EarlierDone DEF VisitInv, Begun
<1> QED
  BY <1>2

(* rebuilding-packages.txt: <pkg>-rebuild and <pkg>-reconfigure restart    *)
(* what they say, with one job.                                            *)
THEOREM RestartsAlone == Spec => []RebuildRestartsAlone
<1>1. IInv => RebuildRestartsAlone
  <2> DEFINE p == request.pkg
  <2> SUFFICES ASSUME IInv, jobs = 1, make = "done", request.verb \in {"rebuild", "reconfigure"}
               PROVE  /\ \A s \in {"built", "installed"} \cup InstallSteps(p) : <<p, s>> \in ran
                      /\ request.verb = "reconfigure" => <<p, "configured">> \in ran
                      /\ p \in Override => <<p, "rsynced">> \in ran /\ fresh[<<p, "built">>]
    BY DEF RebuildRestartsAlone, RebuildRestarts
  <2>1. request \in Requests /\ p \in Pkgs
    BY DEF IInv, TypeOK, Requests
  <2>2. <<p, "installed">> \in Needed[request] /\ <<p, "installed">> \in Targets
    BY <2>1, NeededAssumption, TargetOf DEF Goals, Installed, Steps
  <2>3. visit[<<p, "installed">>] = "done"
    BY <2>2 DEF IInv, VisitInv
  <2>4. \A s \in Removed(request) : <<p, s>> \in ran
    <3>1. \A s \in Removed(request) : s \in Steps(p)
      BY DEF Removed
    <3> QED
      BY <2>1, <2>3, <3>1, AllDone DEF IInv, RanInv, DoneAgain, Rebuilding
  <2>5. {"built", "installed"} \cup InstallSteps(p) \subseteq Removed(request)
    BY <2>1, StepTypes DEF Removed, Steps
  <2>6. request.verb = "reconfigure" => "configured" \in Removed(request)
    BY DEF Removed, Steps
  <2>7. p \in Override => "rsynced" \in Removed(request)
    BY DEF Removed, Steps, SourceSteps
  <2>8. fresh[<<p, "built">>]
    BY <2>4, <2>5 DEF IInv, RanInv, DoneInRun
  <2> QED
    BY <2>4, <2>5, <2>6, <2>7, <2>8
<1> QED
  BY <1>1, Inductive, PTL

-----------------------------------------------------------------------------
(***************************************************************************)
(* Dependencies.                                                           *)
(***************************************************************************)

(* Once a goal is done, all that it needs is.                              *)
LEMMA GoalLast ==
  ASSUME NEW depth \in [Targets -> Nat], Layered(depth), VisitInv, request \in Requests,
         \A t \in Goals(request) : visit[t] = "done", NEW c \in Needed[request]
  PROVE  visit[c] = "done"
<1> DEFINE S == {t \in Needed[request] : visit[t] # "done"}
          D == {depth[t] : t \in S}
          R == OpToRel(<, Nat)
<1>1. Needed[request] \subseteq Targets
  BY NeededAssumption
<1>2. ASSUME S # {} PROVE FALSE
  <2>1. D \subseteq Nat /\ D # {}
    BY <1>1, <1>2
  <2>2. IsWellFoundedOn(R, Nat)
    BY NatLessThanWellFounded
  <2> HIDE DEF D, R
  <2>3. PICK m \in D : \A n \in D : ~(<<n, m>> \in R)
    BY <2>1, <2>2, WFMin
  <2>4. \A n \in D : ~(n < m)
    BY <2>1, <2>3 DEF R, OpToRel
  <2>5. PICK t \in S : depth[t] = m
    BY <2>3 DEF D
  <2>6. t \in Targets /\ t \in Needed[request] /\ t \notin Goals(request)
    BY <1>1
  <2>7. PICK u \in Needed[request] : t \in Before(u)
    BY <2>6, NeededAssumption
  <2>8. u \in S
    BY <1>1, <2>5, <2>7 DEF VisitInv, Begun
  <2>9. depth[u] < depth[t]
    BY <1>1, <2>7 DEF Layered
  <2> QED
    BY <2>4, <2>5, <2>8, <2>9 DEF D
<1> QED
  BY <1>2

LEMMA ReadyStep ==
  ASSUME NEW depth \in [Targets -> Nat], Layered(depth), IInv, Next,
         NEW p \in Pkgs, NEW d \in Deps[p],
         visit[<<p, "configured">>] = "todo", visit'[<<p, "configured">>] = "running",
         NEW s \in Steps(d)
  PROVE  stamp[<<d, s>>] = "ok" /\ visit[<<d, s>>] # "running"
<1> DEFINE c == <<p, "configured">>
<1>1. c \in Targets /\ d \in Pkgs
  BY TargetOf, DepsAssumption DEF Steps
<1>2. Begin(c)
  BY <1>1, NewlyRunning DEF IInv
<1>3. <<d, "installed">> \in Before(c)
  BY <1>1 DEF Before, OrderOnly, Installed
<1>4. make = "running" /\ visit[<<d, "installed">>] = "done"
  BY <1>2, <1>3 DEF Begin, Considered
<1>5. visit[<<d, s>>] = "done" /\ <<d, s>> \in Targets
  BY <1>1, <1>4, AllDone, TargetOf DEF IInv
<1>6. ~MayVanish(<<d, s>>)
  <2> SUFFICES ASSUME CleanList(request) # <<>>, d = request.pkg PROVE FALSE
    BY DEF MayVanish
  <2>1. request \in Requests /\ c \in Needed[request]
    BY <1>1, <1>4 DEF IInv, TypeOK, VisitInv
  <2>2. request.verb # "world"
    BY DEF CleanList
  <2>3. Goals(request) = {<<d, "installed">>}
    BY <2>2 DEF Goals, Installed
  <2>4. visit[c] = "done"
    BY <1>4, <2>1, <2>3, GoalLast DEF IInv
  <2> QED
    BY <2>4
<1> QED
  BY <1>4, <1>5, <1>6 DEF IInv, StampInv

(* FINAL_DEPENDENCIES are order-only prerequisites of .stamp_configured:   *)
(* what a package depends on is installed and no recipe of it runs when    *)
(* the package is configured, with any number of jobs.                     *)
THEOREM DependenciesReady ==
  ASSUME NEW depth \in [Targets -> Nat], Layered(depth)
  PROVE  Spec => DepsReady
<1> DEFINE Ready == \A p \in Pkgs : \A d \in Deps[p] :
                LET c == <<p, "configured">>
                IN  visit[c] = "todo" /\ visit'[c] = "running" =>
                        \A s \in Steps(d) : stamp[<<d, s>>] = "ok" /\ visit[<<d, s>>] # "running"
<1>1. IInv /\ [Next]_vars => [Ready]_vars
  BY ReadyStep
<1> QED
  BY <1>1, Inductive, PTL DEF Spec, DepsReady
=============================================================================
