-------------------------- MODULE DownloadRefinement --------------------------
(***************************************************************************)
(* Download implements SharedDownloads when legacy files can be linked:    *)
(* whatever the wrappers, the users and the kills do, in the directory     *)
(* whole files show up one at a time, only refuted ones go, and builds are *)
(* told what is true when they are told it.                                *)
(***************************************************************************)
EXTENDS DownloadProofs

held == [b \in Builds |-> Held(b)]

(* What a build holds changes only when its wrapper exits, or its run ends. *)
HeldChange(b) ==
    \/ Held(b)' = Held(b)
    \/ Held(b)' = {}
    \/ /\ file(b) \in Files /\ out[file(b)] # Absent
       /\ CheckHash(b, file(b), out[file(b)]) = 0
       /\ Held(b)' = Held(b) \cup {file(b)}

(* What a build at work holds depends on its position alone. *)
LEMMA HeldAtWork ==
    ASSUME NEW b \in Builds, pc[b] \notin {"idle", "failed"}
    PROVE  Held(b) = {Want[b][i] : i \in 1 .. at[b] - 1}
  BY DEF Held

LEMMA SameHeld ==
    ASSUME LockInv, NEW b \in Builds, at'[b] = at[b],
           pc'[b] = pc[b] \/ {pc[b], pc'[b]} \cap {"idle", "failed"} = {}
    PROVE  Held(b)' = Held(b)
  BY DEF Held, Stamped

(* The wrapper exits with an error: the run of make has failed. *)
LEMMA HeldOnError ==
    ASSUME LockInv, NEW b \in Builds, pc[b] \in Inside, NEW code, code # 0, Exit(b, code)
    PROVE  Held(b)' = {}
  <1>1. pc'[b] = "failed" /\ at'[b] = at[b]
    BY DEF Exit, Goto, LockInv, TypeOK
  <1>2. at[b] <= Len(Want[b]) /\ at[b] \in Nat /\ Len(Want[b]) \in Nat
    <2>1. Want[b] \in Seq(Files)
      BY WantAssumption
    <2>2. at[b] <= Len(Want[b])
      BY FileType
    <2>3. at[b] \in Nat
      BY DEF LockInv, TypeOK
    <2> QED  BY <2>1, <2>2, <2>3
  <1>3. ~(at'[b] > Len(Want[b]))
    BY <1>1, <1>2
  <1> QED  BY <1>1, <1>3 DEF Held, Stamped

(* The wrapper exits with 0: make goes on to the next file. *)
LEMMA HeldOnSuccess ==
    ASSUME LockInv, NEW b \in Builds, pc[b] \in Inside, Exit(b, 0),
           out[file(b)] # Absent, CheckHash(b, file(b), out[file(b)]) = 0
    PROVE  HeldChange(b)
  <1>1. pc'[b] = "want" /\ at'[b] = at[b] + 1
    BY DEF Exit, Goto, LockInv, TypeOK
  <1>2. at[b] \in Nat \ {0} /\ file(b) = Want[b][at[b]] /\ file(b) \in Files
    BY FileType DEF LockInv, TypeOK, file
  <1>3. Held(b) = {Want[b][i] : i \in 1 .. at[b] - 1}
    BY HeldAtWork DEF Inside
  <1>4. Held(b)' = {Want[b][i] : i \in 1 .. at[b]}
    BY <1>1, <1>2 DEF Held
  <1>5. 1 .. at[b] = 1 .. at[b] - 1 \cup {at[b]}
    BY <1>2
  <1>6. Held(b)' = Held(b) \cup {file(b)}
    BY <1>2, <1>3, <1>4, <1>5
  <1> QED  BY <1>2, <1>6 DEF HeldChange

LEMMA HeldChanges ==
    ASSUME LockInv, WriteInv, NEW b \in Builds, Make(b) \/ Build(b) \/ Kill(b)
    PROVE  HeldChange(b)
  <1> USE DEF LockInv, TypeOK
  <1>1. CASE Make(b)
    <2>1. CASE Stamped(b)
      BY <1>1, <2>1 DEF Make, Goto, Held, HeldChange
    <2>2. CASE ~Stamped(b)
      <3>1. at'[b] = 1 /\ pc'[b] = "want"
        BY <1>1, <2>2 DEF Make, Goto
      <3> QED  BY <3>1 DEF Held, HeldChange
    <2> QED  BY <2>1, <2>2
  <1>2. CASE Kill(b)
    <2>1. at'[b] = 1 /\ pc'[b] = "idle"
      BY <1>2 DEF Kill, Goto
    <2> QED  BY <2>1 DEF Held, HeldChange
  <1>3. CASE Stamp(b)
    BY <1>3, SameHeld DEF Stamp, Goto, HeldChange
  <1>4. CASE Extract(b)
    <2>1. at'[b] = at[b] /\ pc[b] = "downloaded" /\ pc'[b] \in {"extracted", "failed"}
      BY <1>4 DEF Extract, Goto
    <2> QED  BY <2>1 DEF Held, HeldChange
  <1>5. CASE \E p \in Inside : at' = at /\ pc[b] \notin {"idle", "failed"} /\ Goto(b, p)
    <2>1. at'[b] = at[b] /\ pc'[b] \notin {"idle", "failed"}
      BY <1>5 DEF Goto, Inside
    <2> QED  BY <1>5, <2>1, SameHeld DEF HeldChange
  <1>6. CASE Acquire(b) \/ LegacyLink(b) \/ LegacyCopyBegin(b) \/ LegacyCopyEnd(b)
             \/ LegacyCopyFail(b) \/ NoLegacy(b)
    BY <1>5, <1>6 DEF Acquire, LegacyLink, LegacyCopyBegin, LegacyCopyEnd,
           LegacyCopyFail, NoLegacy, Inside
  <1>7. CASE NotThere(b) \/ Remove(b) \/ Verify(b)
    BY <1>5, <1>7 DEF NotThere, Remove, StartFetching, Verify, Inside
  <1>8. CASE Fetch(b)
    <2>1. at' = at /\ pc[b] = "fetch" /\ (pc' = pc \/ Goto(b, "verify"))
      BY <1>8 DEF Fetch
    <2>2. CASE pc' = pc
      BY <2>1, <2>2, SameHeld DEF HeldChange
    <2> QED  BY <1>5, <2>1, <2>2 DEF Inside
  <1>9. CASE MkTemp(b) \/ CatBegin(b) \/ CatEnd(b) \/ Move(b)
    BY <1>5, <1>9 DEF MkTemp, CatBegin, CatEnd, Move, Inside
  <1>10. CASE AbortMission(b) \/ MkTempFails(b) \/ SaveFails(b)
    <2>1. Exit(b, 1) /\ pc[b] \in Inside
      BY <1>10 DEF AbortMission, MkTempFails, SaveFails, Inside
    <2> QED  BY <2>1, HeldOnError DEF HeldChange
  <1>11. CASE CheckExisting(b)
    <2> DEFINE code == CheckHash(b, file(b), out[file(b)])
    <2>1. pc[b] \in Inside /\ out[file(b)] # Absent
      BY <1>11 DEF CheckExisting, Inside
    <2>2. CASE code = 2
      BY <1>5, <1>11, <2>2 DEF CheckExisting, Inside
    <2>3. CASE code # 2 /\ code # 0
      BY <1>11, <2>1, <2>3, HeldOnError DEF CheckExisting, HeldChange
    <2>4. CASE code = 0
      BY <1>11, <2>1, <2>4, HeldOnSuccess DEF CheckExisting
    <2> QED  BY <2>2, <2>3, <2>4
  <1>12. CASE Return(b)
    <2>1. pc[b] = "return" /\ pc[b] \in Inside /\ Exit(b, rc[b])
      BY <1>12 DEF Return, Inside
    <2>2. CASE rc[b] = 0
      <3>1. out[file(b)] # Absent /\ CheckHash(b, file(b), out[file(b)]) = 0
        BY <2>1, <2>2 DEF WriteInv, Writing, NameFree, Accepted
      <3> QED  BY <2>1, <2>2, <3>1, HeldOnSuccess
    <2>3. CASE rc[b] # 0
      BY <2>1, <2>3, HeldOnError DEF HeldChange
    <2> QED  BY <2>2, <2>3
  <1> QED
    BY <1>1, <1>2, <1>3, <1>4, <1>6, <1>7, <1>8, <1>9, <1>10, <1>11, <1>12
       DEF Build, Wrapper

-----------------------------------------------------------------------------
(***************************************************************************)
(* Every step of Download is one of SharedDownloads, or a stutter.         *)
(***************************************************************************)

LEMMA OtherHeld ==
    ASSUME LockInv, NEW b \in Builds, NEW c \in Builds, c # b,
           Make(b) \/ Build(b) \/ Kill(b)
    PROVE  Held(c)' = Held(c)
  <1>1. pc'[c] = pc[c] /\ at'[c] = at[c]
    BY Bystander
  <1> QED  BY <1>1, SameHeld

(* The steps that change the directory publish a file or retract one.      *)
LEMMA DirectoryStep ==
    ASSUME CanLink, NoCopy, LockInv, WriteInv, [Next]_vars, out' # out
    PROVE  Shared!Next
  <1> USE DEF LockInv, TypeOK
  <1>1. PICK b \in Builds : LegacyLink(b) \/ LegacyCopyBegin(b) \/ LegacyCopyEnd(b)
                            \/ Remove(b) \/ Move(b)
    BY DEF Next, Build, Wrapper, vars, dir, Make, Acquire,
           LegacyCopyFail, NoLegacy, NotThere, CheckExisting, Fetch, AbortMission, MkTempFails,
           Verify, MkTemp, CatBegin, CatEnd, SaveFails, Return, Stamp, Extract, Kill
  <1> DEFINE f == file(b)
  <1>2. pc[b] \in Inside /\ pc'[b] \in Inside /\ at' = at /\ out' = [out EXCEPT ![f] = out'[f]]
    <2>1. pc[b] \in Inside /\ at' = at /\ \E p \in Inside : Goto(b, p)
      BY <1>1 DEF LegacyLink, LegacyCopyBegin, LegacyCopyEnd, Remove, Move, StartFetching, Inside
    <2>2. \E x : out' = [out EXCEPT ![f] = x]
      BY <1>1 DEF LegacyLink, LegacyCopyBegin, LegacyCopyEnd, Remove, Move
    <2>3. f \in Files
      BY <2>1, FileType
    <2> QED  BY <2>1, <2>2, <2>3 DEF Goto
  <1>3. f \in Files
    BY <1>2, FileType
  <1>4. held' = held
    <2>1. Held(b)' = Held(b)
      BY <1>2, SameHeld DEF Inside
    <2>2. Make(b) \/ Build(b) \/ Kill(b)
      BY <1>1 DEF Build, Wrapper
    <2>3. \A c \in Builds : Held(c)' = Held(c)
      BY <2>1, <2>2, OtherHeld
    <2> QED  BY <2>3 DEF held
  <1>5. \/ out[f] = Absent /\ out'[f] \in Contents
        \/ /\ \E c \in Builds : CheckHash(c, f, out[f]) = 2
           /\ out[f] # Absent /\ out'[f] = Absent
    <2>1. FileStep
      BY FileStepHolds
    <2>2. out'[f] # out[f]
      BY <1>2, <1>3
    <2> QED  BY <1>3, <2>1, <2>2 DEF FileStep
  <1>6. Shared!Publish(f) \/ Shared!Retract(f)
    BY <1>2, <1>4, <1>5 DEF Shared!Publish, Shared!Retract, held
  <1> QED  BY <1>3, <1>6 DEF Shared!Next

(* The others only tell a build something, or end a run.                   *)
LEMMA TellingStep ==
    ASSUME LockInv, WriteInv, Next, out' = out
    PROVE  Shared!Next \/ held' = held
  <1>1. PICK b \in Builds : Make(b) \/ Build(b) \/ Kill(b)
    BY DEF Next
  <1>2. held' = [held EXCEPT ![b] = Held(b)']
    BY <1>1, OtherHeld DEF held
  <1>3. CASE Held(b)' = Held(b)
    BY <1>2, <1>3 DEF held
  <1>4. CASE Held(b)' = {}
    BY <1>2, <1>4 DEF Shared!Next, Shared!Forget, held
  <1>5. CASE /\ file(b) \in Files /\ out[file(b)] # Absent
             /\ CheckHash(b, file(b), out[file(b)]) = 0
             /\ Held(b)' = Held(b) \cup {file(b)}
    <2>1. held' = [held EXCEPT ![b] = @ \cup {file(b)}]
      BY <1>2, <1>5 DEF held
    <2>2. Shared!Accept(b, file(b))
      BY <1>5, <2>1 DEF Shared!Accept, held
    <2> QED  BY <1>5, <2>2 DEF Shared!Next
  <1> QED  BY <1>1, <1>3, <1>4, <1>5, HeldChanges DEF HeldChange

(* The directory behaves as SharedDownloads promises to the builds that    *)
(* share it, for any number of builds, files, sites, runs and kills, when  *)
(* legacy files can be linked (a copy shows a part of a file first).       *)
THEOREM Implements == ASSUME CanLink PROVE Spec => ImplementsShared
  <1>1. Init => Shared!Init
    BY DEF Init, Shared!Init, Held, Stamped
  <1>2. Init => NoCopy
    BY DEF Init, NoCopy
  <1>3. LockInv /\ NoCopy /\ [Next]_vars => NoCopy'
    BY NoCopyStep
  <1>4. LockInv /\ WriteInv /\ NoCopy /\ [Next]_vars => [Shared!Next]_(Shared!vars)
    <2> SUFFICES ASSUME LockInv, WriteInv, NoCopy, [Next]_vars
                 PROVE  Shared!Next \/ (out' = out /\ held' = held)
      BY DEF Shared!vars, held
    <2>1. CASE UNCHANGED vars
      BY <2>1 DEF vars, dir, held, Held, Stamped
    <2>2. CASE Next /\ out' = out
      BY <2>2, TellingStep
    <2>3. CASE out' # out
      BY <2>3, DirectoryStep
    <2> QED  BY <2>1, <2>2, <2>3
  <1> QED  BY <1>1, <1>2, <1>3, <1>4, WriteCorrect, PTL DEF Spec, ImplementsShared, Shared!Spec
=============================================================================
