------------------------------ MODULE Download ------------------------------
(***************************************************************************)
(* The download of a package's files into its directory in BR2_DL_DIR:     *)
(* the DOWNLOAD macro of package/pkg-download.mk, which runs                *)
(* support/download/dl-wrapper under an flock on that directory, and        *)
(* support/download/check-hash.  Several builds (make processes, possibly  *)
(* of different Buildroot trees) share the directory; each of them may be  *)
(* killed between any two steps, and run again.                            *)
(*                                                                         *)
(* Contents of files are abstract: a member of Contents is what a site may *)
(* deliver as a file, Short is a file of which only a part was written,    *)
(* and Mixed is one written onto something that was already there.         *)
(***************************************************************************)
EXTENDS Integers, Sequences

CONSTANTS
    Builds,     \* make processes that share the directory
    Files,      \* basenames of the files stored in it
    Temps,      \* the names mktemp can make up in it
    Contents,   \* complete file contents
    Short, Mixed, Empty, Absent, Fail, NoBuild, NoTemp, NoHashFile,
    Want,       \* Want[b]: the list $(PKG)_ALL_DOWNLOADS of build b
    HashFile,   \* HashFile[b]: NoHashFile or the lines of its .hash file
    NoCheck,    \* NoCheck[b]: BR_NO_CHECK_HASH_FOR
    Primary, PrimaryOnly, Backup, \* the sets of builds that set BR2_PRIMARY_SITE...
    Serves,     \* Serves[u]: what a download from site u may end with
    Legacy,     \* Legacy[f]: the file of that name in the global DL_DIR
    CanLink,    \* hard links from the global DL_DIR are possible
    DiskFull,   \* a write or a rename may fail
    MaxRuns,    \* bound: how often make is started for a build
    MaxKills    \* bound: how many runs are killed

Sites == {"primary/subdir", "primary", "upstream", "backup/subdir", "backup"}

HashLine == [type : {"sum", "none", "unknown"}, file : Files, known : Contents]

ASSUME FilesAssumption == Files # {} /\ Builds # {}
ASSUME ValuesAssumption ==
    /\ Contents \cap {Short, Mixed, Empty, Absent, Fail} = {}
    /\ Short # Mixed /\ Short # Empty /\ Short # Absent /\ Mixed # Empty
    /\ Mixed # Absent /\ Empty # Absent /\ Fail # Absent
    /\ NoBuild \notin Builds /\ NoTemp \notin Temps
ASSUME WantAssumption == Want \in [Builds -> Seq(Files) \ {<<>>}]
ASSUME HashAssumption ==
    \A b \in Builds :
        /\ HashFile[b] # NoHashFile => HashFile[b] \in Seq(HashLine)
        /\ NoCheck[b] \subseteq Files
ASSUME SitesAssumption == Serves \in [Sites -> SUBSET (Contents \cup {Fail})]
ASSUME LegacyAssumption == Legacy \in [Files -> Contents \cup {Absent}]
ASSUME FlagsAssumption ==
    /\ CanLink \in BOOLEAN /\ DiskFull \in BOOLEAN
    /\ MaxRuns \in Nat /\ MaxKills \in Nat

(***************************************************************************)
(* check-hash: the first line for the file that it does not satisfy decides *)
(* the exit code.  A hash of type "none" is always satisfied.               *)
(***************************************************************************)
Satisfied(line, c) == line.type = "none" \/ (line.type = "sum" /\ line.known = c)

CheckOneHash(line, c) ==
    IF Satisfied(line, c) THEN 0 ELSE IF line.type = "unknown" THEN 4 ELSE 2

CheckHash(b, f, c) ==
    LET lines    == HashFile[b]
        relevant == {i \in DOMAIN lines : lines[i].file = f}
        refused  == {i \in relevant : ~Satisfied(lines[i], c)}
        first    == CHOOSE i \in refused : \A j \in refused : i <= j
    IN  IF lines = NoHashFile THEN 0
        ELSE IF relevant = {} THEN (IF f \in NoCheck[b] THEN 0 ELSE 3)
        ELSE IF refused = {} THEN 0
        ELSE CheckOneHash(lines[first], c)

(***************************************************************************)
(* The candidate URIs, in the order in which dl-wrapper tries them.         *)
(***************************************************************************)
DOWNLOAD_URIS(b) ==
    (IF b \in Primary THEN <<"primary/subdir", "primary">> ELSE <<>>)
    \o (IF b \in PrimaryOnly THEN <<>>
        ELSE <<"upstream">> \o
             IF b \in Backup THEN <<"backup/subdir", "backup">> ELSE <<>>)

VARIABLES
    out,    \* out[f]: the file under its final name
    tmp,    \* tmp[t]: the temporary file of that name, next to the final ones
    lock,   \* the holder of the flock on $(PKG)_DL_DIR/.lock
    pc,     \* pc[b]: where the build stands
    at,     \* at[b]: position in Want[b] of the file being downloaded
    uri,    \* uri[b]: position in DOWNLOAD_URIS(b)
    got,    \* got[b]: contents of ${tmpd}/output
    mine,   \* mine[b]: ${tmp_output}
    rc,     \* rc[b]: what dl-wrapper is going to return
    used,   \* used[b]: what the extraction of the package read
    runs, kills

vars == <<out, tmp, lock, pc, at, uri, got, mine, rc, used, runs, kills>>
dir  == <<out, tmp>>
locals == <<uri, got, mine, rc>>

file(b) == Want[b][at[b]]

(* The program points of dl-wrapper, in which the build holds the lock. *)
Inside == {"legacy", "copy", "existing", "remove", "fetch", "verify",
           "mktemp", "save", "cat", "mv", "return"}
Outside == {"idle", "want", "failed", "downloaded", "extracted"}

Goto(b, p) == pc' = [pc EXCEPT ![b] = p]

MutExit(b, code) == \* the wrapper leaves a process behind that keeps the lock
    /\ lock' = lock
    /\ Goto(b, IF code = 0 THEN "want" ELSE "failed")
    /\ at' = [at EXCEPT ![b] = IF code = 0 THEN @ + 1 ELSE @]
    /\ got' = [got EXCEPT ![b] = Absent]
    /\ mine' = [mine EXCEPT ![b] = NoTemp]

(* The wrapper exits, which releases the lock; make goes on to the next    *)
(* file, or gives up.                                                      *)
Exit(b, code) ==
    /\ lock' = NoBuild
    /\ Goto(b, IF code = 0 THEN "want" ELSE "failed")
    /\ at' = [at EXCEPT ![b] = IF code = 0 THEN @ + 1 ELSE @]
    /\ got' = [got EXCEPT ![b] = Absent]
    /\ mine' = [mine EXCEPT ![b] = NoTemp]

Init ==
    /\ out = [f \in Files |-> Absent]
    /\ tmp = [t \in Temps |-> Absent]
    /\ lock = NoBuild
    /\ pc = [b \in Builds |-> "idle"]
    /\ at = [b \in Builds |-> 1]
    /\ uri = [b \in Builds |-> 1]
    /\ got = [b \in Builds |-> Absent]
    /\ mine = [b \in Builds |-> NoTemp]
    /\ rc = [b \in Builds |-> 1]
    /\ used = [b \in Builds |-> Absent]
    /\ runs = [b \in Builds |-> 0]
    /\ kills = 0

(* .stamp_downloaded exists. *)
Stamped(b) == at[b] > Len(Want[b]) /\ pc[b] # "want"

(* The user runs make, which starts the recipe of .stamp_downloaded, or    *)
(* goes straight to the extraction when that stamp exists.                 *)
Make(b) ==
    /\ pc[b] \in {"idle", "failed"}
    /\ runs[b] < MaxRuns
    /\ runs' = [runs EXCEPT ![b] = @ + 1]
    /\ at' = [at EXCEPT ![b] = IF Stamped(b) THEN @ ELSE 1]
    /\ Goto(b, IF Stamped(b) THEN "downloaded" ELSE "want")
    /\ UNCHANGED <<dir, lock, locals, used, kills>>

MutAcquire(b) == \* the flock is forgotten
    /\ pc[b] = "want" /\ at[b] <= Len(Want[b])
    /\ lock' = b
    /\ Goto(b, "legacy")
    /\ UNCHANGED <<dir, at, locals, used, runs, kills>>

(* flock: one wrapper at a time works in the directory. *)
Acquire(b) ==
    /\ pc[b] = "want" /\ at[b] <= Len(Want[b])
    /\ lock = NoBuild
    /\ lock' = b
    /\ Goto(b, "legacy")
    /\ UNCHANGED <<dir, at, locals, used, runs, kills>>

(* Legacy handling: a file that is only in the global directory is linked,  *)
(* or else copied; when neither works the wrapper falls through.           *)
InLegacyOnly(b) == out[file(b)] = Absent /\ Legacy[file(b)] # Absent

LegacyLink(b) ==
    /\ pc[b] = "legacy" /\ InLegacyOnly(b)
    /\ CanLink
    /\ out' = [out EXCEPT ![file(b)] = Legacy[file(b)]]
    /\ Goto(b, "existing")
    /\ UNCHANGED <<tmp, lock, at, locals, used, runs, kills>>

LegacyCopyBegin(b) ==
    /\ pc[b] = "legacy" /\ InLegacyOnly(b)
    /\ ~CanLink
    /\ out' = [out EXCEPT ![file(b)] = Short]
    /\ Goto(b, "copy")
    /\ UNCHANGED <<tmp, lock, at, locals, used, runs, kills>>

LegacyCopyEnd(b) ==
    /\ pc[b] = "copy"
    /\ out' = [out EXCEPT ![file(b)] = Legacy[file(b)]]
    /\ Goto(b, "existing")
    /\ UNCHANGED <<tmp, lock, at, locals, used, runs, kills>>

(* cp fails: either before it created the file, or leaving part of it. *)
LegacyCopyFail(b) ==
    /\ DiskFull
    /\ \/ pc[b] = "legacy" /\ InLegacyOnly(b) /\ ~CanLink
       \/ pc[b] = "copy"
    /\ Goto(b, "existing")
    /\ UNCHANGED <<dir, lock, at, locals, used, runs, kills>>

NoLegacy(b) ==
    /\ pc[b] = "legacy" /\ ~InLegacyOnly(b)
    /\ Goto(b, "existing")
    /\ UNCHANGED <<dir, lock, at, locals, used, runs, kills>>

(* The file may already be there: good, refuted, or not to be touched. *)
StartFetching(b) ==
    /\ uri' = [uri EXCEPT ![b] = 1]
    /\ rc' = [rc EXCEPT ![b] = 1]
    /\ Goto(b, "fetch")

NotThere(b) ==
    /\ pc[b] = "existing" /\ out[file(b)] = Absent
    /\ StartFetching(b)
    /\ UNCHANGED <<dir, lock, at, got, mine, used, runs, kills>>

MutCheckExisting(b) == \* any failure of check-hash removes the file
    /\ pc[b] = "existing" /\ out[file(b)] # Absent
    /\ LET code == CheckHash(b, file(b), out[file(b)])
       IN  \/ code # 0 /\ Goto(b, "remove") /\ UNCHANGED <<lock, at, got, mine>>
           \/ code = 0 /\ Exit(b, code)
    /\ UNCHANGED <<dir, uri, rc, used, runs, kills>>

CheckExisting(b) ==
    /\ pc[b] = "existing" /\ out[file(b)] # Absent
    /\ LET code == CheckHash(b, file(b), out[file(b)])
       IN  \/ code = 2 /\ Goto(b, "remove") /\ UNCHANGED <<lock, at, got, mine>>
           \/ code # 2 /\ Exit(b, code)
    /\ UNCHANGED <<dir, uri, rc, used, runs, kills>>

MutRemove(b) == \* the new download is to replace the old file
    /\ pc[b] = "remove"
    /\ StartFetching(b)
    /\ UNCHANGED <<dir, lock, at, got, mine, used, runs, kills>>

Remove(b) ==
    /\ pc[b] = "remove"
    /\ out' = [out EXCEPT ![file(b)] = Absent]
    /\ StartFetching(b)
    /\ UNCHANGED <<tmp, lock, at, got, mine, used, runs, kills>>

(* A backend runs in a fresh ${tmpd}; when it fails ${tmpd} is removed and  *)
(* the next URI is tried.                                                  *)
Fetch(b) ==
    /\ pc[b] = "fetch" /\ uri[b] <= Len(DOWNLOAD_URIS(b))
    /\ \E c \in Serves[DOWNLOAD_URIS(b)[uri[b]]] :
          \/ /\ c = Fail
             /\ uri' = [uri EXCEPT ![b] = @ + 1]
             /\ UNCHANGED <<got, pc>>
          \/ /\ c # Fail
             /\ got' = [got EXCEPT ![b] = c]
             /\ Goto(b, "verify")
             /\ UNCHANGED uri
    /\ UNCHANGED <<dir, lock, at, mine, rc, used, runs, kills>>

AbortMission(b) ==
    /\ pc[b] = "fetch" /\ uri[b] > Len(DOWNLOAD_URIS(b))
    /\ Exit(b, 1)
    /\ UNCHANGED <<dir, uri, rc, used, runs, kills>>

MutVerifyBlind(b) == \* a mismatch is reported but not acted upon
    /\ pc[b] = "verify"
    /\ rc' = [rc EXCEPT ![b] = IF CheckHash(b, file(b), got[b]) = 3 THEN 1 ELSE 0]
    /\ Goto(b, "mktemp")
    /\ UNCHANGED <<dir, lock, at, uri, got, mine, used, runs, kills>>

MutVerifyStops(b) == \* a mismatch ends the loop over the URIs
    /\ pc[b] = "verify"
    /\ LET code == CheckHash(b, file(b), got[b])
       IN  \/ /\ code \in {0, 3}
              /\ rc' = [rc EXCEPT ![b] = IF code = 0 THEN 0 ELSE 1]
              /\ Goto(b, "mktemp")
              /\ UNCHANGED <<uri, got>>
           \/ /\ code \notin {0, 3}
              /\ uri' = [uri EXCEPT ![b] = Len(DOWNLOAD_URIS(b)) + 1]
              /\ got' = [got EXCEPT ![b] = Absent]
              /\ Goto(b, "fetch")
              /\ UNCHANGED rc
    /\ UNCHANGED <<dir, lock, at, mine, used, runs, kills>>

(* A download without a hash in an existing hash file is an error, but the  *)
(* file is saved all the same.                                             *)
Verify(b) ==
    /\ pc[b] = "verify"
    /\ LET code == CheckHash(b, file(b), got[b])
       IN  \/ /\ code \in {0, 3}
              /\ rc' = [rc EXCEPT ![b] = IF code = 0 THEN 0 ELSE 1]
              /\ Goto(b, "mktemp")
              /\ UNCHANGED <<uri, got>>
           \/ /\ code \notin {0, 3}
              /\ uri' = [uri EXCEPT ![b] = @ + 1]
              /\ got' = [got EXCEPT ![b] = Absent]
              /\ Goto(b, "fetch")
              /\ UNCHANGED rc
    /\ UNCHANGED <<dir, lock, at, mine, used, runs, kills>>

MutMkTemp(b) == \* a fixed or reused name
    /\ pc[b] = "mktemp"
    /\ \E t \in Temps :
          /\ tmp' = [tmp EXCEPT ![t] = IF @ = Absent THEN Empty ELSE @]
          /\ mine' = [mine EXCEPT ![b] = t]
    /\ Goto(b, "save")
    /\ UNCHANGED <<out, lock, at, uri, got, rc, used, runs, kills>>

(* tmp_output is created empty, under a name nobody has. *)
MkTemp(b) ==
    /\ pc[b] = "mktemp"
    /\ \E t \in Temps :
          /\ tmp[t] = Absent
          /\ tmp' = [tmp EXCEPT ![t] = Empty]
          /\ mine' = [mine EXCEPT ![b] = t]
    /\ Goto(b, "save")
    /\ UNCHANGED <<out, lock, at, uri, got, rc, used, runs, kills>>

(* cat >> tmp_output, in two steps: a part of the file, then the rest. *)
CatBegin(b) ==
    /\ pc[b] = "save"
    /\ tmp' = [tmp EXCEPT ![mine[b]] = IF @ = Empty THEN Short ELSE Mixed]
    /\ Goto(b, "cat")
    /\ UNCHANGED <<out, lock, at, locals, used, runs, kills>>

CatEnd(b) ==
    /\ pc[b] = "cat"
    /\ tmp' = [tmp EXCEPT ![mine[b]] = IF @ = Short THEN got[b] ELSE Mixed]
    /\ got' = [got EXCEPT ![b] = Absent]
    /\ Goto(b, "mv")
    /\ UNCHANGED <<out, lock, at, uri, mine, rc, used, runs, kills>>

(* mktemp fails, and set -e ends the wrapper. *)
MkTempFails(b) ==
    /\ DiskFull
    /\ \/ pc[b] = "fetch" /\ uri[b] <= Len(DOWNLOAD_URIS(b))
       \/ pc[b] = "mktemp"
    /\ Exit(b, 1)
    /\ UNCHANGED <<dir, uri, rc, used, runs, kills>>

(* cat or mv fails: tmp_output is removed. *)
SaveFails(b) ==
    /\ DiskFull
    /\ pc[b] \in {"save", "cat", "mv"}
    /\ tmp' = [tmp EXCEPT ![mine[b]] = Absent]
    /\ Exit(b, 1)
    /\ UNCHANGED <<out, uri, rc, used, runs, kills>>

(* mv -f, a rename within one file system. *)
Move(b) ==
    /\ pc[b] = "mv"
    /\ out' = [out EXCEPT ![file(b)] = tmp[mine[b]]]
    /\ tmp' = [tmp EXCEPT ![mine[b]] = Absent]
    /\ mine' = [mine EXCEPT ![b] = NoTemp]
    /\ Goto(b, "return")
    /\ UNCHANGED <<lock, at, uri, got, rc, used, runs, kills>>

Return(b) ==
    /\ pc[b] = "return"
    /\ Exit(b, rc[b])
    /\ UNCHANGED <<dir, uri, rc, used, runs, kills>>

(* All files of the package are there: touch .stamp_downloaded. *)
Stamp(b) ==
    /\ pc[b] = "want" /\ at[b] > Len(Want[b])
    /\ Goto(b, "downloaded")
    /\ UNCHANGED <<dir, lock, at, locals, used, runs, kills>>

(* The extraction opens the package's main archive, without any lock, and  *)
(* checks nothing again.                                                   *)
Extract(b) ==
    /\ pc[b] = "downloaded"
    /\ \/ /\ out[Want[b][1]] # Absent
          /\ used' = [used EXCEPT ![b] = out[Want[b][1]]]
          /\ Goto(b, "extracted")
       \/ /\ out[Want[b][1]] = Absent
          /\ Goto(b, "failed")
          /\ UNCHANGED used
    /\ UNCHANGED <<dir, lock, at, locals, runs, kills>>

(* make and all it started is killed (or the machine stops): the kernel    *)
(* drops the lock, temporary files stay behind.                            *)
Kill(b) ==
    /\ kills < MaxKills
    /\ pc[b] \in Inside \cup {"want"}
    /\ kills' = kills + 1
    /\ lock' = IF lock = b THEN NoBuild ELSE lock
    /\ got' = [got EXCEPT ![b] = Absent]
    /\ mine' = [mine EXCEPT ![b] = NoTemp]
    /\ at' = [at EXCEPT ![b] = 1]
    /\ Goto(b, "idle")
    /\ UNCHANGED <<dir, uri, rc, used, runs>>

Wrapper(b) ==
    \/ LegacyLink(b) \/ LegacyCopyBegin(b) \/ LegacyCopyEnd(b)
    \/ LegacyCopyFail(b) \/ NoLegacy(b)
    \/ NotThere(b) \/ CheckExisting(b) \/ Remove(b)
    \/ Fetch(b) \/ AbortMission(b) \/ Verify(b)
    \/ MkTemp(b) \/ MkTempFails(b) \/ CatBegin(b) \/ CatEnd(b) \/ SaveFails(b)
    \/ Move(b) \/ Return(b)

Build(b) == Acquire(b) \/ Wrapper(b) \/ Stamp(b) \/ Extract(b)

Next == \E b \in Builds : Make(b) \/ Build(b) \/ Kill(b)

Spec == Init /\ [][Next]_vars

(* A build that make has started goes on: a process the scheduler runs, a   *)
(* backend that ends one way or the other, an flock that is granted.       *)
FairSpec == Spec /\ \A b \in Builds : WF_vars(Build(b))

-----------------------------------------------------------------------------

TypeOK ==
    /\ out \in [Files -> Contents \cup {Short, Mixed, Empty, Absent}]
    /\ tmp \in [Temps -> Contents \cup {Short, Mixed, Empty, Absent}]
    /\ lock \in Builds \cup {NoBuild}
    /\ pc \in [Builds -> Inside \cup Outside]
    /\ at \in [Builds -> Nat \ {0}]
    /\ \A b \in Builds : at[b] <= Len(Want[b]) + 1
    /\ uri \in [Builds -> Nat \ {0}]
    /\ got \in [Builds -> Contents \cup {Absent}]
    /\ mine \in [Builds -> Temps \cup {NoTemp}]
    /\ rc \in [Builds -> {0, 1}]
    /\ used \in [Builds -> Contents \cup {Short, Mixed, Empty, Absent}]
    /\ runs \in [Builds -> 0 .. MaxRuns]
    /\ kills \in 0 .. MaxKills

(* The files a build has been told are downloaded: those of the list that  *)
(* come before the one it is at, until the run fails or is killed.         *)
Held(b) ==
    IF pc[b] \in {"idle", "failed"} /\ ~Stamped(b) THEN {}
    ELSE {Want[b][i] : i \in 1 .. at[b] - 1}

(* The hash files of the builds do not contradict each other: what one     *)
(* accepts none of them refutes.                                           *)
CompatibleHashes ==
    \A b, c \in Builds : \A f \in Files :
        \A x \in Contents \cup {Short, Mixed, Empty} :
            CheckHash(b, f, x) = 0 => CheckHash(c, f, x) # 2

(* Between the end of dl-wrapper and the extraction nothing protects the   *)
(* file, and still it stays there and passes the build's hash file:        *)
(* dl-wrapper lines 65-81 of no other build withdraw it or save over it.   *)
HeldVerified ==
    \A b \in Builds : \A f \in Held(b) :
        out[f] # Absent /\ CheckHash(b, f, out[f]) = 0

(* What the extraction reads satisfies the hash file (.stamp_extracted).   *)
ExtractedVerified ==
    \A b \in Builds :
        pc[b] = "extracted" => CheckHash(b, Want[b][1], used[b]) = 0

(* A file under its final name is never one that was written in part, or   *)
(* onto a leftover: tmp_output and mv, dl-wrapper lines 166-208.           *)
OnlyWholeFiles == \A f \in Files : out[f] \in Contents \cup {Absent}

(* dl-wrapper lines 74-76: a file no hash refutes is neither removed nor   *)
(* replaced by what a later location serves.                               *)
Unrefuted(f) ==
    out[f] # Absent /\ \A b \in Builds : CheckHash(b, f, out[f]) # 2
KeepUnrefuted ==
    [][\A f \in Files : Unrefuted(f) => out'[f] = out[f]]_vars

(* The comment of dl-wrapper at line 56: when the legacy file can neither  *)
(* be linked nor copied the wrapper falls back to a download, so that what *)
(* a build holds was never a copy broken off half-way.                     *)
NoTornCopyAccepted == \A b \in Builds : \A f \in Held(b) : out[f] # Short

(* A run of make that is not killed ends: the files are downloaded and     *)
(* extracted, or it fails.  Nobody waits for the flock for ever.           *)
RunsEnd ==
    \A b \in Builds :
        pc[b] \in Inside \cup {"want"}
            ~> pc[b] \in {"idle", "failed", "downloaded", "extracted"}

(* A site that always serves the right file is enough, whatever the sites  *)
(* before it in the list serve: dl-wrapper lines 132-149 go on to the next *)
(* URI.                                                                    *)
Reliable(b, f) ==
    \E i \in 1 .. Len(DOWNLOAD_URIS(b)) :
        /\ \A c \in Serves[DOWNLOAD_URIS(b)[i]] : c # Fail /\ CheckHash(b, f, c) = 0
        /\ \A j \in 1 .. i - 1 : \A c \in Serves[DOWNLOAD_URIS(b)[j]] :
               c = Fail \/ CheckHash(b, f, c) # 3
GoodSiteSuffices ==
    \A b \in Builds :
        (\A i \in DOMAIN Want[b] : Reliable(b, Want[b][i]))
            => (pc[b] = "want" ~> pc[b] \in {"idle", "downloaded", "extracted"})

(* The directory behaves as SharedDownloads says. *)
Shared == INSTANCE SharedDownloads
            WITH out <- out, held <- [b \in Builds |-> Held(b)],
                 Check <- CheckHash
ImplementsShared == Shared!Spec
=============================================================================
