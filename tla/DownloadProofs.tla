--------------------------- MODULE DownloadProofs ---------------------------
(***************************************************************************)
(* Proofs about Download, for every set of builds, files and sites, every  *)
(* list of URIs and any number of kills and runs: types, and the files     *)
(* that builds share.  None is torn, none that no hash refutes is          *)
(* withdrawn, and what a build was told it has stays there and passes its  *)
(* hash file until the extraction reads it.                                *)
(***************************************************************************)
EXTENDS Download, TLAPS

USE FilesAssumption, ValuesAssumption, WantAssumption, FlagsAssumption

(***************************************************************************)
(* The lock.  A build is inside dl-wrapper just when it holds the flock,    *)
(* and then there is a file it is about and, while it saves that file, a   *)
(* temporary file of its own.                                              *)
(***************************************************************************)
Locked == \A b \in Builds : pc[b] \in Inside <=> lock = b
InList == \A b \in Builds : pc[b] \in Inside => at[b] <= Len(Want[b])
HasTemp == \A b \in Builds : pc[b] \in {"save", "cat", "mv"} => mine[b] \in Temps
LockInv == TypeOK /\ Locked /\ InList /\ HasTemp

Stored == Contents \cup {Short, Mixed, Empty, Absent}

(* The file a wrapper is about is one of Files. *)
LEMMA FileType ==
    ASSUME NEW b \in Builds, LockInv, pc[b] \in Inside
    PROVE  file(b) \in Files /\ at[b] <= Len(Want[b])
  BY DEF LockInv, InList, TypeOK, file

(* What a site delivers is a file, unless the download fails. *)
LEMMA ServesType ==
    ASSUME NEW b \in Builds, NEW i \in 1 .. Len(DOWNLOAD_URIS(b)),
           NEW c \in Serves[DOWNLOAD_URIS(b)[i]], c # Fail
    PROVE  c \in Contents
  <1>1. DOWNLOAD_URIS(b)[i] \in Sites
    BY DEF DOWNLOAD_URIS, Sites
  <1> QED  BY <1>1, SitesAssumption

(* A wrapper that exits gives the lock back, and nobody else had it. *)
LEMMA ExitStep ==
    ASSUME LockInv, NEW b \in Builds, pc[b] \in Inside, NEW code, Exit(b, code),
           out' = out, tmp' \in [Temps -> Stored],
           UNCHANGED <<uri, rc, used, runs, kills>>
    PROVE  LockInv'
  <1>1. at[b] <= Len(Want[b]) /\ Len(Want[b]) \in Nat
    BY FileType
  <1>2. TypeOK'
    <2>1. at' \in [Builds -> Nat \ {0}] /\ \A c \in Builds : at'[c] <= Len(Want[c]) + 1
      BY <1>1 DEF Exit, LockInv, TypeOK
    <2> QED  BY <2>1 DEF Exit, Goto, LockInv, TypeOK, Stored, Outside
  <1>3. Locked' /\ InList' /\ HasTemp'
    BY DEF Exit, Goto, LockInv, TypeOK, Locked, InList, HasTemp, Inside, Outside
  <1> QED  BY <1>2, <1>3 DEF LockInv

LEMMA LockInit == Init => LockInv
  BY DEF Init, LockInv, TypeOK, Locked, InList, HasTemp, Inside, Outside

LEMMA LockStep == LockInv /\ [Next]_vars => LockInv'
  <1> SUFFICES ASSUME LockInv, [Next]_vars PROVE LockInv'
    OBVIOUS
  <1>0. CASE UNCHANGED vars
    BY <1>0 DEF LockInv, vars, dir, locals, TypeOK, Locked, InList, HasTemp
  <1> SUFFICES ASSUME NEW b \in Builds, Make(b) \/ Build(b) \/ Kill(b) PROVE LockInv'
    BY <1>0 DEF Next
  <1>1. CASE Make(b)
    <2>1. at' \in [Builds -> Nat \ {0}] /\ \A c \in Builds : at'[c] <= Len(Want[c]) + 1
      BY <1>1 DEF Make, LockInv, TypeOK
    <2>2. runs' \in [Builds -> 0 .. MaxRuns]
      BY <1>1 DEF Make, LockInv, TypeOK
    <2>3. pc' \in [Builds -> Inside \cup Outside]
      BY <1>1 DEF Make, Goto, LockInv, TypeOK, Outside
    <2>4. TypeOK'
      BY <1>1, <2>1, <2>2, <2>3 DEF Make, LockInv, TypeOK, dir, locals
    <2>5. Locked' /\ InList' /\ HasTemp'
      BY <1>1 DEF Make, LockInv, TypeOK, Locked, InList, HasTemp, Goto, Inside, Outside, dir, locals, Stamped
    <2> QED  BY <2>4, <2>5 DEF LockInv
  <1>2. CASE Acquire(b)
    BY <1>2 DEF Acquire, LockInv, TypeOK, Locked, InList, HasTemp, Goto, Inside, Outside, dir, locals
  <1>3. CASE LegacyLink(b)
    BY <1>3, FileType, LegacyAssumption DEF LegacyLink, LockInv, TypeOK, Locked, InList, HasTemp, Goto, Inside, Outside, dir, locals, InLegacyOnly
  <1>4. CASE LegacyCopyBegin(b)
    BY <1>4, FileType, LegacyAssumption DEF LegacyCopyBegin, LockInv, TypeOK, Locked, InList, HasTemp, Goto, Inside, Outside, dir, locals, InLegacyOnly
  <1>5. CASE LegacyCopyEnd(b)
    BY <1>5, FileType, LegacyAssumption DEF LegacyCopyEnd, LockInv, TypeOK, Locked, InList, HasTemp, Goto, Inside, Outside, dir, locals, InLegacyOnly
  <1>6. CASE LegacyCopyFail(b)
    BY <1>6 DEF LegacyCopyFail, LockInv, TypeOK, Locked, InList, HasTemp, Goto, Inside, Outside, dir, locals
  <1>7. CASE NoLegacy(b)
    BY <1>7 DEF NoLegacy, LockInv, TypeOK, Locked, InList, HasTemp, Goto, Inside, Outside, dir, locals
  <1>8. CASE NotThere(b)
    BY <1>8 DEF NotThere, LockInv, TypeOK, Locked, InList, HasTemp, Goto, Inside, Outside, dir, locals, StartFetching
  <1>9. CASE CheckExisting(b)
    <2>1. pc[b] \in Inside
      BY <1>9 DEF CheckExisting, Inside
    <2>2. CASE Goto(b, "remove") /\ UNCHANGED <<lock, at, got, mine>>
      BY <1>9, <2>1, <2>2 DEF CheckExisting, LockInv, TypeOK, Locked, InList, HasTemp, Goto, Inside, Outside, dir, locals
    <2>3. CASE Exit(b, CheckHash(b, file(b), out[file(b)]))
      BY <1>9, <2>1, <2>3, ExitStep DEF CheckExisting, dir, LockInv, TypeOK, Stored
    <2> QED  BY <1>9, <2>2, <2>3 DEF CheckExisting
  <1>10. CASE Remove(b)
    <2>1. file(b) \in Files
      BY <1>10, FileType DEF Remove, Inside
    <2>2. out' \in [Files -> Stored] /\ uri' \in [Builds -> Nat \ {0}]
      BY <1>10, <2>1 DEF Remove, StartFetching, LockInv, TypeOK, Stored
    <2>3. pc' \in [Builds -> Inside \cup Outside] /\ rc' \in [Builds -> {0, 1}]
      BY <1>10 DEF Remove, StartFetching, Goto, LockInv, TypeOK, Inside
    <2>4. TypeOK'
      BY <1>10, <2>2, <2>3 DEF Remove, LockInv, TypeOK, Stored
    <2>5. Locked' /\ InList' /\ HasTemp'
      BY <1>10 DEF Remove, StartFetching, LockInv, TypeOK, Locked, InList, HasTemp, Goto, Inside, Outside, dir, locals
    <2> QED  BY <2>4, <2>5 DEF LockInv
  <1>11. CASE Fetch(b)
    <2>1. PICK c \in Serves[DOWNLOAD_URIS(b)[uri[b]]] :
             \/ c = Fail /\ uri' = [uri EXCEPT ![b] = @ + 1] /\ UNCHANGED <<got, pc>>
             \/ c # Fail /\ got' = [got EXCEPT ![b] = c] /\ Goto(b, "verify")
                /\ UNCHANGED uri
      BY <1>11 DEF Fetch
    <2>2. c # Fail => c \in Contents
      <3>1. uri[b] \in 1 .. Len(DOWNLOAD_URIS(b))
        BY <1>11 DEF Fetch, LockInv, TypeOK
      <3> QED  BY <2>1, <3>1, ServesType
    <2>3. TypeOK'
      <3>1. uri' \in [Builds -> Nat \ {0}]
        <4>1. uri[b] + 1 \in Nat \ {0}
          BY DEF LockInv, TypeOK
        <4> QED  BY <2>1, <4>1 DEF LockInv, TypeOK
      <3>2. got' \in [Builds -> Contents \cup {Absent}]
        BY <2>1, <2>2 DEF LockInv, TypeOK
      <3>3. pc' \in [Builds -> Inside \cup Outside]
        BY <2>1 DEF Goto, LockInv, TypeOK, Inside
      <3> QED  BY <1>11, <3>1, <3>2, <3>3 DEF Fetch, LockInv, TypeOK, dir
    <2>4. Locked' /\ InList' /\ HasTemp'
      BY <1>11, <2>1 DEF Fetch, LockInv, TypeOK, Locked, InList, HasTemp, Goto, Inside, Outside, dir, locals
    <2> QED  BY <2>3, <2>4 DEF LockInv
  <1>12. CASE AbortMission(b)
    <2>1. pc[b] \in Inside
      BY <1>12 DEF AbortMission, Inside
    <2> QED  BY <1>12, <2>1, ExitStep DEF AbortMission, dir, LockInv, TypeOK, Stored
  <1>13. CASE Verify(b)
    <2>1. pc' \in [Builds -> Inside \cup Outside]
      BY <1>13 DEF Verify, Goto, LockInv, TypeOK, Inside
    <2>2. rc' \in [Builds -> {0, 1}]
      BY <1>13 DEF Verify, LockInv, TypeOK
    <2>3. uri' \in [Builds -> Nat \ {0}] /\ got' \in [Builds -> Contents \cup {Absent}]
      <3>1. uri[b] + 1 \in Nat \ {0}
        BY DEF LockInv, TypeOK
      <3>2. uri' = uri \/ uri' = [uri EXCEPT ![b] = @ + 1]
        BY <1>13 DEF Verify
      <3>3. got' = got \/ got' = [got EXCEPT ![b] = Absent]
        BY <1>13 DEF Verify
      <3>4. uri' \in [Builds -> Nat \ {0}]
        BY <3>1, <3>2 DEF LockInv, TypeOK
      <3>5. got' \in [Builds -> Contents \cup {Absent}]
        BY <3>3 DEF LockInv, TypeOK
      <3> QED  BY <3>4, <3>5
    <2>4. TypeOK'
      BY <1>13, <2>1, <2>2, <2>3 DEF Verify, LockInv, TypeOK, dir
    <2>5. Locked' /\ InList' /\ HasTemp'
      BY <1>13 DEF Verify, LockInv, TypeOK, Locked, InList, HasTemp, Goto, Inside, Outside, dir, locals
    <2> QED  BY <2>4, <2>5 DEF LockInv
  <1>14. CASE MkTemp(b)
    BY <1>14 DEF MkTemp, LockInv, TypeOK, Locked, InList, HasTemp, Goto, Inside, Outside, dir, locals
  <1>15. CASE CatBegin(b)
    BY <1>15 DEF CatBegin, LockInv, TypeOK, Locked, InList, HasTemp, Goto, Inside, Outside, dir, locals
  <1>16. CASE CatEnd(b)
    BY <1>16 DEF CatEnd, LockInv, TypeOK, Locked, InList, HasTemp, Goto, Inside, Outside, dir, locals
  <1>17. CASE SaveFails(b)
    <2>1. pc[b] \in Inside
      BY <1>17 DEF SaveFails, Inside
    <2>2. tmp' \in [Temps -> Stored]
      BY <1>17 DEF SaveFails, LockInv, TypeOK, Stored
    <2> QED  BY <1>17, <2>1, ExitStep, <2>2 DEF SaveFails, dir, LockInv, TypeOK, Stored
  <1>18. CASE Move(b)
    <2>1. file(b) \in Files /\ mine[b] \in Temps
      BY <1>18, FileType DEF Move, LockInv, HasTemp, Inside
    <2>2. out' \in [Files -> Stored] /\ tmp' \in [Temps -> Stored]
      BY <1>18, <2>1 DEF Move, LockInv, TypeOK, Stored
    <2>3. pc' \in [Builds -> Inside \cup Outside]
      BY <1>18 DEF Move, Goto, LockInv, TypeOK, Inside
    <2>4. TypeOK'
      BY <1>18, <2>2, <2>3 DEF Move, LockInv, TypeOK, Stored
    <2>5. Locked' /\ InList' /\ HasTemp'
      BY <1>18 DEF Move, LockInv, TypeOK, Locked, InList, HasTemp, Goto, Inside, Outside, dir, locals
    <2> QED  BY <2>4, <2>5 DEF LockInv
  <1>19. CASE Return(b)
    <2>1. pc[b] \in Inside
      BY <1>19 DEF Return, Inside
    <2> QED  BY <1>19, <2>1, ExitStep DEF Return, dir, LockInv, TypeOK, Stored
  <1>20. CASE Stamp(b)
    BY <1>20 DEF Stamp, LockInv, TypeOK, Locked, InList, HasTemp, Goto, Inside, Outside, dir, locals
  <1>21. CASE Extract(b)
    <2>1. Want[b][1] \in Files
      <3>1. Want[b] \in Seq(Files) /\ Want[b] # <<>>
        OBVIOUS
      <3>2. Len(Want[b]) \in Nat /\ Len(Want[b]) # 0
        BY <3>1
      <3> QED  BY <3>1, <3>2
    <2>2. used' \in [Builds -> Stored] /\ pc' \in [Builds -> Inside \cup Outside]
      BY <1>21, <2>1 DEF Extract, Goto, LockInv, TypeOK, Stored, Outside
    <2>3. TypeOK'
      BY <1>21, <2>2 DEF Extract, LockInv, TypeOK, Stored, dir, locals
    <2>4. Locked' /\ InList' /\ HasTemp'
      BY <1>21 DEF Extract, LockInv, TypeOK, Locked, InList, HasTemp, Goto, Inside, Outside, dir, locals
    <2> QED  BY <2>3, <2>4 DEF LockInv
  <1>22. CASE Kill(b)
    <2>2. TypeOK'
      BY <1>22, FilesAssumption, SMTT(40) DEF Kill, LockInv, TypeOK, Goto, Inside, Outside, dir, locals
    <2>3. Locked' /\ InList' /\ HasTemp'
      BY <1>22 DEF Kill, LockInv, TypeOK, Locked, InList, HasTemp, Goto, Inside, Outside, dir, locals
    <2> QED  BY <2>2, <2>3 DEF LockInv
  <1>23. CASE MkTempFails(b)
    <2>1. pc[b] \in Inside
      BY <1>23 DEF MkTempFails, Inside
    <2> QED  BY <1>23, <2>1, ExitStep DEF MkTempFails, dir, LockInv, TypeOK, Stored
  <1> QED
    BY <1>1, <1>2, <1>3, <1>4, <1>5, <1>6, <1>7, <1>8, <1>9, <1>10, <1>11, <1>12,
       <1>13, <1>14, <1>15, <1>16, <1>17, <1>18, <1>19, <1>20, <1>21, <1>22, <1>23 DEF Build, Wrapper

(* The state variables of Download keep their types: at the end of a list  *)
(* of files the position is at most one past it, and a wrapper's exit code  *)
(* is 0 or 1 whatever check-hash returned.                                 *)
THEOREM TypeCorrect == Spec => []TypeOK
  <1>1. LockInv => TypeOK
    BY DEF LockInv
  <1> QED  BY <1>1, LockInit, LockStep, PTL DEF Spec

(***************************************************************************)
(* What the wrapper that holds the lock knows at each point: the final     *)
(* name is free from the first fetch to the mv, the file it fetched is a   *)
(* whole one, the temporary file holds just as much of it as was written,  *)
(* and the exit code is 0 only for a file that check-hash accepted.        *)
(***************************************************************************)
Busy == {"remove", "fetch", "verify", "mktemp", "save", "cat", "mv", "return"}

NameFree(b) ==
    /\ pc[b] = "remove" =>
           out[file(b)] # Absent /\ CheckHash(b, file(b), out[file(b)]) = 2
    /\ pc[b] \in {"fetch", "verify", "mktemp", "save", "cat", "mv"} =>
           out[file(b)] = Absent
    /\ pc[b] = "return" => out[file(b)] # Absent

Written(b) ==
    /\ pc[b] \in {"verify", "mktemp", "save", "cat"} => got[b] \in Contents
    /\ pc[b] = "save" => tmp[mine[b]] = Empty
    /\ pc[b] = "cat" => tmp[mine[b]] = Short
    /\ pc[b] = "mv" => tmp[mine[b]] \in Contents

Accepted(b) ==
    rc[b] = 0 =>
        /\ pc[b] \in {"mktemp", "save", "cat"} => CheckHash(b, file(b), got[b]) = 0
        /\ pc[b] = "mv" => CheckHash(b, file(b), tmp[mine[b]]) = 0
        /\ pc[b] = "return" => CheckHash(b, file(b), out[file(b)]) = 0

Writing(b) == NameFree(b) /\ Written(b) /\ Accepted(b)
WriteInv == \A b \in Builds : Writing(b)

(* A build that is nowhere in the middle of a download owes nothing. *)
LEMMA NotWriting ==
    ASSUME NEW b \in Builds, pc'[b] \notin Busy PROVE Writing(b)'
  BY DEF Busy, Writing, NameFree, Written, Accepted

(* Nothing changes for a build when its own state and the files stay. *)
LEMMA Undisturbed ==
    ASSUME NEW b \in Builds, Writing(b), out' = out, tmp' = tmp,
           pc'[b] = pc[b], at'[b] = at[b], got'[b] = got[b],
           mine'[b] = mine[b], rc'[b] = rc[b]
    PROVE  Writing(b)'
  BY DEF Writing, NameFree, Written, Accepted, file

(* dl-wrapper runs under the lock and moves no other build's counters. *)
LEMMA UnderLock ==
    ASSUME LockInv, NEW b \in Builds, NEW c \in Builds, c # b,
           Acquire(b) \/ Wrapper(b)
    PROVE  pc[c] \notin Inside /\ pc'[c] = pc[c] /\ at'[c] = at[c]
  <1>1. pc' = [pc EXCEPT ![b] = pc'[b]] /\ at' = [at EXCEPT ![b] = at'[b]]
    <2>1. CASE Acquire(b)
      BY <2>1 DEF Acquire, Goto, LockInv, TypeOK
    <2>2. CASE \E code : Exit(b, code)
      BY <2>2 DEF Exit, Goto, LockInv, TypeOK
    <2>3. CASE at' = at /\ (pc' = pc \/ \E p : Goto(b, p))
      BY <2>3 DEF Goto, LockInv, TypeOK
    <2>4. CASE LegacyLink(b) \/ LegacyCopyBegin(b) \/ LegacyCopyEnd(b)
               \/ LegacyCopyFail(b) \/ NoLegacy(b)
      BY <2>3, <2>4 DEF LegacyLink, LegacyCopyBegin, LegacyCopyEnd,
             LegacyCopyFail, NoLegacy
    <2>5. CASE NotThere(b) \/ Remove(b) \/ CheckExisting(b)
      BY <2>2, <2>3, <2>5 DEF NotThere, Remove, CheckExisting, StartFetching
    <2>6. CASE Fetch(b) \/ AbortMission(b) \/ MkTempFails(b) \/ Verify(b)
      BY <2>2, <2>3, <2>6 DEF Fetch, AbortMission, MkTempFails, Verify
    <2>7. CASE MkTemp(b) \/ CatBegin(b) \/ CatEnd(b) \/ SaveFails(b)
      BY <2>2, <2>3, <2>7 DEF MkTemp, CatBegin, CatEnd, SaveFails
    <2>8. CASE Move(b) \/ Return(b)
      BY <2>2, <2>3, <2>8 DEF Move, Return
    <2> QED  BY <2>1, <2>4, <2>5, <2>6, <2>7, <2>8 DEF Wrapper
  <1>2. lock = NoBuild \/ pc[b] \in Inside
    BY DEF Acquire, Wrapper, Inside, LegacyLink, LegacyCopyBegin, LegacyCopyEnd,
           LegacyCopyFail, NoLegacy, NotThere, CheckExisting, Remove, Fetch,
           AbortMission, MkTempFails, Verify, MkTemp, CatBegin, CatEnd, SaveFails, Move, Return
  <1>3. pc[c] \notin Inside
    BY <1>2 DEF LockInv, Locked
  <1> QED  BY <1>1, <1>3 DEF LockInv, TypeOK

(* A step of one build leaves the others where they are. *)
LEMMA Bystander ==
    ASSUME LockInv, NEW b \in Builds, NEW c \in Builds, c # b,
           Make(b) \/ Build(b) \/ Kill(b)
    PROVE  pc'[c] = pc[c] /\ at'[c] = at[c] /\ used'[c] = used[c]
  <1>1. CASE Acquire(b) \/ Wrapper(b)
    <2>1. used' = used
      BY <1>1 DEF Acquire, Wrapper, LegacyLink, LegacyCopyBegin, LegacyCopyEnd,
         LegacyCopyFail, NoLegacy, NotThere, CheckExisting, Remove, Fetch,
         AbortMission, MkTempFails, Verify, MkTemp, CatBegin, CatEnd, SaveFails, Move, Return
    <2> QED  BY <1>1, <2>1, UnderLock
  <1>2. CASE Make(b) \/ Stamp(b) \/ Extract(b) \/ Kill(b)
    BY <1>2 DEF Make, Stamp, Extract, Kill, Goto, LockInv, TypeOK
  <1> QED  BY <1>1, <1>2 DEF Build

(* Where dl-wrapper goes; only one step begins a copy. *)
LEMMA WrapperGoes ==
    ASSUME LockInv, NEW b \in Builds, Acquire(b) \/ Wrapper(b)
    PROVE  /\ pc'[b] \in Inside \cup {"want", "failed"}
           /\ pc'[b] = "copy" => LegacyCopyBegin(b)
  <1> USE DEF LockInv, TypeOK
  <1>1. CASE \E code : Exit(b, code)
    BY <1>1 DEF Exit, Goto
  <1>2. CASE \E p \in Inside \ {"copy"} : Goto(b, p)
    BY <1>2 DEF Goto
  <1>3. CASE Fetch(b)
    BY <1>3 DEF Fetch, Goto, Inside
  <1>4. CASE LegacyCopyBegin(b)
    BY <1>4 DEF LegacyCopyBegin, Goto, Inside
  <1>5. CASE Acquire(b) \/ LegacyLink(b) \/ LegacyCopyEnd(b) \/ LegacyCopyFail(b)
             \/ NoLegacy(b)
    BY <1>2, <1>5 DEF Acquire, LegacyLink, LegacyCopyEnd, LegacyCopyFail, NoLegacy, Inside
  <1>6. CASE NotThere(b) \/ CheckExisting(b) \/ Remove(b) \/ AbortMission(b) \/ MkTempFails(b) \/ Verify(b)
    BY <1>1, <1>2, <1>6 DEF NotThere, CheckExisting, Remove, StartFetching,
       AbortMission, MkTempFails, Verify, Inside
  <1>7. CASE MkTemp(b) \/ CatBegin(b) \/ CatEnd(b) \/ SaveFails(b) \/ Move(b) \/ Return(b)
    BY <1>1, <1>2, <1>7 DEF MkTemp, CatBegin, CatEnd, SaveFails, Move, Return, Inside
  <1> QED  BY <1>3, <1>4, <1>5, <1>6, <1>7 DEF Wrapper

LEMMA WriteInit == Init => WriteInv
  BY DEF Init, WriteInv, Writing, NameFree, Written, Accepted

LEMMA WriteStep == LockInv /\ WriteInv /\ [Next]_vars => WriteInv'
  <1> SUFFICES ASSUME LockInv, WriteInv, [Next]_vars, NEW c \in Builds
               PROVE  Writing(c)'
    BY DEF WriteInv
  <1> USE DEF LockInv
  <1>0. CASE UNCHANGED vars
    BY <1>0, Undisturbed DEF WriteInv, vars
  <1> SUFFICES ASSUME NEW b \in Builds, Make(b) \/ Build(b) \/ Kill(b)
               PROVE  Writing(c)'
    BY <1>0 DEF Next
  <1>1. CASE Make(b) \/ Stamp(b) \/ Extract(b) \/ Kill(b)
    <2>1. CASE c = b
      <3>1. pc'[b] \notin Busy
        BY <1>1 DEF Make, Stamp, Extract, Kill, Goto, TypeOK, Busy
      <3> QED  BY <2>1, <3>1, NotWriting
    <2>2. CASE c # b
      <3>1. pc'[c] = pc[c] /\ at'[c] = at[c]
        BY <1>1, <2>2 DEF Make, Stamp, Extract, Kill, Goto, TypeOK
      <3>2. out' = out /\ tmp' = tmp /\ rc' = rc
        BY <1>1 DEF Make, Stamp, Extract, Kill, dir, locals
      <3>3. got'[c] = got[c] /\ mine'[c] = mine[c]
        BY <1>1, <2>2 DEF Make, Stamp, Extract, Kill, locals, TypeOK
      <3> QED  BY <3>1, <3>2, <3>3, Undisturbed DEF WriteInv
    <2> QED  BY <2>1, <2>2
  <1>2. CASE c # b /\ (Acquire(b) \/ Wrapper(b))
    <2>1. pc'[c] \notin Inside
      BY <1>2, UnderLock
    <2>2. Busy \subseteq Inside
      BY DEF Busy, Inside
    <2> QED  BY <2>1, <2>2, NotWriting
  <1> SUFFICES ASSUME c = b, Acquire(b) \/ Wrapper(b) PROVE Writing(b)'
    BY <1>1, <1>2 DEF Build
  <1>3. CASE \E code : Exit(b, code)
    <2>1. pc'[b] \notin Busy
      BY <1>3 DEF Exit, Goto, TypeOK, Busy
    <2> QED  BY <2>1, NotWriting
  <1>4. CASE \E p : Goto(b, p) /\ p \notin Busy
    <2>1. pc'[b] \notin Busy
      BY <1>4 DEF Goto, TypeOK, Busy
    <2> QED  BY <2>1, NotWriting
  <1>5. CASE Acquire(b) \/ LegacyLink(b) \/ LegacyCopyBegin(b) \/ LegacyCopyEnd(b)
             \/ LegacyCopyFail(b) \/ NoLegacy(b)
    <2>1. Goto(b, "legacy") \/ Goto(b, "copy") \/ Goto(b, "existing")
      BY <1>5 DEF Acquire, LegacyLink, LegacyCopyBegin, LegacyCopyEnd, LegacyCopyFail, NoLegacy
    <2>2. {"legacy", "copy", "existing"} \cap Busy = {}
      BY DEF Busy
    <2> QED  BY <2>1, <2>2, <1>4
  <1>6. CASE AbortMission(b) \/ MkTempFails(b) \/ SaveFails(b) \/ Return(b)
    BY <1>3, <1>6 DEF AbortMission, MkTempFails, SaveFails, Return
  <1>7. CASE CheckExisting(b)
    <2>1. CASE CheckHash(b, file(b), out[file(b)]) = 2
      <3>1. pc'[b] = "remove" /\ out' = out /\ at' = at
        BY <1>7, <2>1 DEF CheckExisting, Goto, TypeOK, dir
      <3>2. out[file(b)] # Absent
        BY <1>7 DEF CheckExisting
      <3> QED
        BY <2>1, <3>1, <3>2 DEF Writing, NameFree, Written, Accepted, file
    <2>2. CASE CheckHash(b, file(b), out[file(b)]) # 2
      BY <1>3, <1>7, <2>2 DEF CheckExisting
    <2> QED  BY <2>1, <2>2
  <1>8. CASE NotThere(b) \/ Remove(b)
    <2>1. pc'[b] = "fetch" /\ at' = at
      BY <1>8 DEF NotThere, Remove, StartFetching, Goto, TypeOK
    <2>2. out'[file(b)] = Absent
      BY <1>8, FileType DEF NotThere, Remove, dir, TypeOK, Inside
    <2> QED  BY <2>1, <2>2 DEF Writing, NameFree, Written, Accepted, file
  <1>9. CASE Fetch(b)
    <2>1. out' = out /\ at' = at /\ out[file(b)] = Absent
      BY <1>9 DEF Fetch, dir, WriteInv, Writing, NameFree
    <2>2. uri[b] \in 1 .. Len(DOWNLOAD_URIS(b))
      BY <1>9 DEF Fetch, TypeOK
    <2>3. pc'[b] = "fetch" \/ (pc'[b] = "verify" /\ got'[b] \in Contents)
      BY <1>9, <2>2, ServesType DEF Fetch, Goto, TypeOK
    <2> QED  BY <2>1, <2>3 DEF Writing, NameFree, Written, Accepted, file
  <1>10. CASE Verify(b)
    <2>1. out' = out /\ at' = at /\ out[file(b)] = Absent /\ got[b] \in Contents
      BY <1>10 DEF Verify, dir, WriteInv, Writing, NameFree, Written
    <2>2. CASE CheckHash(b, file(b), got[b]) \in {0, 3}
      <3>1. /\ pc'[b] = "mktemp" /\ got' = got
            /\ rc'[b] = 0 => CheckHash(b, file(b), got[b]) = 0
        BY <1>10, <2>2 DEF Verify, Goto, TypeOK
      <3> QED  BY <2>1, <3>1 DEF Writing, NameFree, Written, Accepted, file
    <2>3. CASE CheckHash(b, file(b), got[b]) \notin {0, 3}
      <3>1. pc'[b] = "fetch"
        BY <1>10, <2>3 DEF Verify, Goto, TypeOK
      <3> QED  BY <2>1, <3>1 DEF Writing, NameFree, Written, Accepted, file
    <2> QED  BY <2>2, <2>3
  <1>11. CASE MkTemp(b)
    <2>1. /\ pc'[b] = "save" /\ out' = out /\ at' = at /\ got' = got /\ rc' = rc
          /\ tmp'[mine'[b]] = Empty
      BY <1>11 DEF MkTemp, Goto, TypeOK
    <2>2. pc[b] = "mktemp"
      BY <1>11 DEF MkTemp
    <2> QED
      BY <2>1, <2>2 DEF WriteInv, Writing, NameFree, Written, Accepted, file
  <1>12. CASE CatBegin(b)
    <2>1. mine[b] \in Temps /\ pc[b] = "save"
      BY <1>12 DEF CatBegin, HasTemp
    <2>2. /\ pc'[b] = "cat" /\ out' = out /\ at' = at /\ got' = got /\ rc' = rc
          /\ mine' = mine /\ tmp'[mine[b]] = Short
      BY <1>12, <2>1 DEF CatBegin, Goto, TypeOK, locals, WriteInv, Writing, Written
    <2> QED
      BY <2>1, <2>2 DEF WriteInv, Writing, NameFree, Written, Accepted, file
  <1>13. CASE CatEnd(b)
    <2>1. mine[b] \in Temps /\ pc[b] = "cat"
      BY <1>13 DEF CatEnd, HasTemp
    <2>2. /\ pc'[b] = "mv" /\ out' = out /\ at' = at /\ rc' = rc
          /\ mine' = mine /\ tmp'[mine[b]] = got[b]
      BY <1>13, <2>1 DEF CatEnd, Goto, TypeOK, WriteInv, Writing, Written
    <2> QED
      BY <2>1, <2>2 DEF WriteInv, Writing, NameFree, Written, Accepted, file
  <1>14. CASE Move(b)
    <2>1. file(b) \in Files /\ pc[b] = "mv"
      BY <1>14, FileType DEF Move, Inside
    <2>2. /\ pc'[b] = "return" /\ at' = at /\ rc' = rc
          /\ out'[file(b)] = tmp[mine[b]]
      BY <1>14, <2>1 DEF Move, Goto, TypeOK
    <2> QED
      BY <2>1, <2>2 DEF WriteInv, Writing, NameFree, Written, Accepted, file
  <1> QED
    BY <1>5, <1>6, <1>7, <1>8, <1>9, <1>10, <1>11, <1>12, <1>13, <1>14
       DEF Wrapper

THEOREM WriteCorrect == Spec => [](LockInv /\ WriteInv)
  <1>1. Init => LockInv /\ WriteInv
    BY LockInit, WriteInit
  <1>2. (LockInv /\ WriteInv) /\ [Next]_vars => (LockInv /\ WriteInv)'
    BY LockStep, WriteStep
  <1> QED  BY <1>1, <1>2, PTL DEF Spec

-----------------------------------------------------------------------------
(***************************************************************************)
(* The final names, when legacy files can be linked: the only steps that   *)
(* write under one put a whole file where there was none, and the only one *)
(* that takes a file away takes one that its hash refutes.                 *)
(***************************************************************************)
NoCopy == \A b \in Builds : pc[b] # "copy"

FileStep ==
    \A f \in Files :
        \/ out'[f] = out[f]
        \/ out[f] = Absent /\ out'[f] \in Contents \cup {Absent}
        \/ /\ \E b \in Builds : CheckHash(b, f, out[f]) = 2
           /\ out[f] # Absent /\ out'[f] = Absent

LEMMA NoCopyStep ==
    ASSUME CanLink, LockInv, NoCopy, [Next]_vars PROVE NoCopy'
  <1> SUFFICES ASSUME NEW c \in Builds PROVE pc'[c] # "copy"
    BY DEF NoCopy
  <1> USE DEF LockInv, TypeOK
  <1>0. CASE UNCHANGED vars
    BY <1>0 DEF vars, NoCopy
  <1> SUFFICES ASSUME NEW b \in Builds, Make(b) \/ Build(b) \/ Kill(b)
               PROVE  pc'[c] # "copy"
    BY <1>0 DEF Next
  <1>1. CASE c # b
    BY <1>1, Bystander DEF NoCopy
  <1>2. CASE c = b /\ (Make(b) \/ Stamp(b) \/ Extract(b) \/ Kill(b))
    BY <1>2 DEF Make, Stamp, Extract, Kill, Goto
  <1>3. CASE c = b /\ (Acquire(b) \/ Wrapper(b))
    BY <1>3, WrapperGoes DEF LegacyCopyBegin
  <1> QED  BY <1>1, <1>2, <1>3 DEF Build

LEMMA FileStepHolds ==
    ASSUME CanLink, NoCopy, LockInv, WriteInv, [Next]_vars PROVE FileStep
  <1> SUFFICES ASSUME NEW f \in Files, out'[f] # out[f]
               PROVE  \/ out[f] = Absent /\ out'[f] \in Contents \cup {Absent}
                      \/ /\ \E b \in Builds : CheckHash(b, f, out[f]) = 2
                         /\ out[f] # Absent /\ out'[f] = Absent
    BY DEF FileStep
  <1> USE DEF LockInv, TypeOK
  <1>1. PICK b \in Builds : LegacyLink(b) \/ LegacyCopyEnd(b) \/ Remove(b) \/ Move(b)
    BY DEF Next, Build, Wrapper, vars, dir, Make, Acquire, LegacyCopyBegin,
           LegacyCopyFail, NoLegacy, NotThere, CheckExisting, Fetch, AbortMission, MkTempFails,
           Verify, MkTemp, CatBegin, CatEnd, SaveFails, Return, Stamp, Extract, Kill
  <1>2. CASE LegacyLink(b)
    <2>1. file(b) = f
      BY <1>2 DEF LegacyLink
    <2> QED  BY <1>2, <2>1, LegacyAssumption DEF LegacyLink, InLegacyOnly
  <1>3. CASE LegacyCopyEnd(b)
    BY <1>3 DEF LegacyCopyEnd, NoCopy
  <1>4. CASE Remove(b)
    <2>1. file(b) = f
      BY <1>4 DEF Remove
    <2>2. out[f] # Absent /\ CheckHash(b, f, out[f]) = 2
      BY <1>4, <2>1 DEF Remove, WriteInv, Writing, NameFree
    <2> QED  BY <1>4, <2>1, <2>2 DEF Remove
  <1>5. CASE Move(b)
    <2>1. file(b) = f
      BY <1>5 DEF Move
    <2>2. out[f] = Absent /\ tmp[mine[b]] \in Contents
      BY <1>5, <2>1 DEF Move, WriteInv, Writing, NameFree, Written
    <2> QED  BY <1>5, <2>1, <2>2 DEF Move
  <1> QED  BY <1>1, <1>2, <1>3, <1>4, <1>5

(* A file under its final name is never one that was written in part, or   *)
(* onto a leftover, in any number of runs and kills, when legacy files are *)
(* linked: dl-wrapper lines 166-208.                                       *)
THEOREM WholeFiles == ASSUME CanLink PROVE Spec => []OnlyWholeFiles
  <1>1. Init => NoCopy /\ OnlyWholeFiles
    BY DEF Init, NoCopy, OnlyWholeFiles
  <1>2. LockInv /\ WriteInv /\ (NoCopy /\ OnlyWholeFiles) /\ [Next]_vars
            => (NoCopy /\ OnlyWholeFiles)'
    <2> SUFFICES ASSUME LockInv, WriteInv, NoCopy, OnlyWholeFiles, [Next]_vars
                 PROVE  NoCopy' /\ OnlyWholeFiles'
      OBVIOUS
    <2>1. NoCopy'
      BY NoCopyStep
    <2>2. FileStep
      BY FileStepHolds
    <2> QED  BY <2>1, <2>2 DEF FileStep, OnlyWholeFiles
  <1> QED  BY <1>1, <1>2, WriteCorrect, PTL DEF Spec

(* A file that no build's hash file refutes is neither removed nor         *)
(* replaced, when legacy files are linked: dl-wrapper lines 65-81.         *)
THEOREM UnrefutedStays == ASSUME CanLink PROVE Spec => KeepUnrefuted
  <1>1. Init => NoCopy
    BY DEF Init, NoCopy
  <1>2. LockInv /\ NoCopy /\ [Next]_vars => NoCopy'
    BY NoCopyStep
  <1>3. LockInv /\ WriteInv /\ NoCopy /\ [Next]_vars
            => [\A f \in Files : Unrefuted(f) => out'[f] = out[f]]_vars
    <2> SUFFICES ASSUME LockInv, WriteInv, NoCopy, [Next]_vars,
                        NEW f \in Files, Unrefuted(f)
                 PROVE  out'[f] = out[f]
      OBVIOUS
    <2>1. FileStep
      BY FileStepHolds
    <2> QED  BY <2>1 DEF FileStep, Unrefuted
  <1> QED  BY <1>1, <1>2, <1>3, WriteCorrect, PTL DEF Spec, KeepUnrefuted

-----------------------------------------------------------------------------
(***************************************************************************)
(* What builds hold, when their hash files agree.  A build is told it has   *)
(* a file when its wrapper exits with 0, and from then on no other wrapper  *)
(* finds the name free, refutes the file or copies over it.                *)
(***************************************************************************)
Copying == \A b, c \in Builds : pc[b] = "copy" => file(b) \notin Held(c)
Complete ==
    \A b \in Builds : pc[b] \in {"downloaded", "extracted"} => at[b] > Len(Want[b])
HeldInv == Copying /\ HeldVerified /\ Complete /\ ExtractedVerified

(* While the position stays, a build at work gets no new file. *)
LEMMA SamePosition ==
    ASSUME NEW c \in Builds, at'[c] = at[c],
           pc[c] \notin {"idle", "failed"} \/ pc'[c] = pc[c]
    PROVE  Held(c)' \subseteq Held(c)
  BY DEF Held, Stamped

(* Only an exit with 0 adds to what a build holds, the file it was about. *)
HeldGrows(c) ==
    /\ Held(c)' \subseteq Held(c) \cup {file(c)}
    /\ pc[c] \in Inside \ {"copy"} /\ out' = out
    /\ out[file(c)] # Absent /\ CheckHash(c, file(c), out[file(c)]) = 0

LEMMA HeldStep ==
    ASSUME LockInv, WriteInv, [Next]_vars, NEW c \in Builds
    PROVE  Held(c)' \subseteq Held(c) \/ HeldGrows(c)
  <1> USE DEF LockInv, TypeOK
  <1>0. CASE UNCHANGED vars
    BY <1>0, SamePosition DEF vars
  <1> SUFFICES ASSUME NEW b \in Builds, Make(b) \/ Build(b) \/ Kill(b)
               PROVE  Held(c)' \subseteq Held(c) \/ HeldGrows(c)
    BY <1>0 DEF Next
  <1>1. CASE c # b
    BY <1>1, Bystander, SamePosition
  <1> SUFFICES ASSUME c = b PROVE Held(b)' \subseteq Held(b) \/ HeldGrows(b)
    BY <1>1
  <1>2. CASE at' = at /\ pc[b] \notin {"idle", "failed"}
    BY <1>2, SamePosition
  <1>3. CASE at'[b] = 1
    BY <1>3 DEF Held
  <1>4. CASE Make(b)
    <2>1. CASE Stamped(b)
      BY <1>4, <2>1 DEF Make, Goto, Held
    <2>2. CASE ~Stamped(b)
      BY <1>3, <1>4, <2>2 DEF Make
    <2> QED  BY <2>1, <2>2
  <1>5. CASE Kill(b)
    BY <1>3, <1>5 DEF Kill
  <1>6. CASE Acquire(b) \/ Stamp(b) \/ Extract(b)
    BY <1>2, <1>6 DEF Acquire, Stamp, Extract
  <1>7. CASE LegacyLink(b) \/ LegacyCopyBegin(b) \/ LegacyCopyEnd(b)
             \/ LegacyCopyFail(b) \/ NoLegacy(b)
    BY <1>2, <1>7 DEF LegacyLink, LegacyCopyBegin, LegacyCopyEnd,
           LegacyCopyFail, NoLegacy
  <1>8. CASE NotThere(b) \/ Remove(b) \/ Fetch(b) \/ Verify(b)
    BY <1>2, <1>8 DEF NotThere, Remove, Fetch, Verify
  <1>9. CASE MkTemp(b) \/ CatBegin(b) \/ CatEnd(b) \/ Move(b)
    BY <1>2, <1>9 DEF MkTemp, CatBegin, CatEnd, Move
  <1>10. ASSUME NEW code, code # 0, Exit(b, code), pc[b] \in Inside
         PROVE  Held(b)' \subseteq Held(b)
    <2>1. at' = at
      BY <1>10 DEF Exit
    <2> QED  BY <1>10, <2>1, SamePosition DEF Inside
  <1>11. ASSUME Exit(b, 0), pc[b] \in Inside
         PROVE  Held(b)' \subseteq Held(b) \cup {file(b)}
    BY <1>11 DEF Exit, Goto, Held, file, Inside
  <1>12. CASE AbortMission(b) \/ MkTempFails(b) \/ SaveFails(b)
    <2>1. Exit(b, 1) /\ pc[b] \notin {"idle", "failed"}
      BY <1>12 DEF AbortMission, MkTempFails, SaveFails
    <2>2. at' = at
      BY <2>1 DEF Exit
    <2> QED  BY <1>2, <2>1, <2>2
  <1>13. CASE CheckExisting(b)
    <2> DEFINE code == CheckHash(b, file(b), out[file(b)])
    <2>1. pc[b] \in Inside \ {"copy"} /\ out' = out /\ out[file(b)] # Absent
      BY <1>13 DEF CheckExisting, Inside, dir
    <2>2. CASE code = 2
      BY <1>2, <1>13, <2>2 DEF CheckExisting
    <2>3. CASE code # 2 /\ code # 0
      BY <1>10, <1>13, <2>1, <2>3 DEF CheckExisting
    <2>4. CASE code = 0
      BY <1>11, <1>13, <2>1, <2>4 DEF CheckExisting, HeldGrows
    <2> QED  BY <2>2, <2>3, <2>4
  <1>14. CASE Return(b)
    <2>1. pc[b] = "return" /\ out' = out /\ Exit(b, rc[b])
      BY <1>14 DEF Return, dir
    <2>2. pc[b] \in Inside \ {"copy"}
      BY <2>1 DEF Inside
    <2>3. CASE rc[b] = 0
      <3>1. out[file(b)] # Absent /\ CheckHash(b, file(b), out[file(b)]) = 0
        BY <2>1, <2>3 DEF WriteInv, Writing, NameFree, Accepted
      <3> QED  BY <1>11, <2>1, <2>2, <2>3, <3>1 DEF HeldGrows
    <2>4. CASE rc[b] # 0
      BY <1>10, <2>1, <2>2, <2>4
    <2> QED  BY <2>3, <2>4
  <1> QED
    BY <1>4, <1>5, <1>6, <1>7, <1>8, <1>9, <1>12, <1>13, <1>14 DEF Build, Wrapper

(* No step touches a file that some build holds. *)
LEMMA HeldUntouched ==
    ASSUME CompatibleHashes, LockInv, WriteInv, Copying, HeldVerified, [Next]_vars,
           NEW c \in Builds, NEW f \in Held(c), f \in Files
    PROVE  out'[f] = out[f]
  <1> USE DEF LockInv, TypeOK
  <1> SUFFICES ASSUME out'[f] # out[f] PROVE FALSE
    OBVIOUS
  <1>1. PICK b \in Builds : LegacyLink(b) \/ LegacyCopyBegin(b) \/ LegacyCopyEnd(b)
                            \/ Remove(b) \/ Move(b)
    BY DEF Next, Build, Wrapper, vars, dir, Make, Acquire,
           LegacyCopyFail, NoLegacy, NotThere, CheckExisting, Fetch, AbortMission, MkTempFails,
           Verify, MkTemp, CatBegin, CatEnd, SaveFails, Return, Stamp, Extract, Kill
  <1>2. file(b) = f
    BY <1>1 DEF LegacyLink, LegacyCopyBegin, LegacyCopyEnd, Remove, Move
  <1>3. out[f] # Absent /\ CheckHash(c, f, out[f]) = 0
    BY DEF HeldVerified
  <1>4. CheckHash(b, f, out[f]) # 2
    BY <1>3 DEF CompatibleHashes
  <1>5. CASE LegacyLink(b) \/ LegacyCopyBegin(b)
    BY <1>2, <1>3, <1>5 DEF LegacyLink, LegacyCopyBegin, InLegacyOnly
  <1>6. CASE LegacyCopyEnd(b)
    BY <1>2, <1>6 DEF LegacyCopyEnd, Copying
  <1>7. CASE Remove(b)
    BY <1>2, <1>4, <1>7 DEF Remove, WriteInv, Writing, NameFree
  <1>8. CASE Move(b)
    BY <1>2, <1>3, <1>8 DEF Move, WriteInv, Writing, NameFree
  <1> QED  BY <1>1, <1>5, <1>6, <1>7, <1>8

LEMMA HeldFiles ==
    ASSUME LockInv, NEW c \in Builds, NEW f \in Held(c) PROVE f \in Files
  <1>1. PICK i \in 1 .. at[c] - 1 : f = Want[c][i]
    BY DEF Held
  <1>2. Want[c] \in Seq(Files) /\ i \in 1 .. Len(Want[c])
    BY <1>1 DEF LockInv, TypeOK
  <1> QED  BY <1>1, <1>2

LEMMA HeldInit == Init => HeldInv
  BY DEF Init, HeldInv, Copying, HeldVerified, Complete, ExtractedVerified,
         Held, Stamped

LEMMA HeldInvStep ==
    ASSUME CompatibleHashes, LockInv, WriteInv, HeldInv, [Next]_vars
    PROVE  HeldInv'
  <1> USE DEF LockInv, TypeOK
  <1>1. HeldVerified'
    <2> SUFFICES ASSUME NEW c \in Builds, NEW f \in Held(c)'
                 PROVE  out'[f] # Absent /\ CheckHash(c, f, out'[f]) = 0
      BY DEF HeldVerified
    <2>1. CASE f \in Held(c)
      BY <2>1, HeldFiles, HeldUntouched DEF HeldInv, HeldVerified
    <2>2. CASE f \notin Held(c)
      BY <2>2, HeldStep DEF HeldGrows
    <2> QED  BY <2>1, <2>2
  <1>2. Copying'
    <2> SUFFICES ASSUME NEW b \in Builds, NEW c \in Builds, pc'[b] = "copy"
                 PROVE  file(b)' \notin Held(c)'
      BY DEF Copying
    <2>1. /\ at'[b] = at[b] /\ file(b)' = file(b)
          /\ pc[b] = "copy" \/ (pc[b] = "legacy" /\ out[file(b)] = Absent)
      <3>0. CASE UNCHANGED vars
        BY <3>0 DEF vars, file
      <3>1. ASSUME NEW a \in Builds, a # b, Make(a) \/ Build(a) \/ Kill(a)
            PROVE  at'[b] = at[b] /\ pc'[b] = pc[b]
        BY <3>1, Bystander
      <3>2. ASSUME Make(b) \/ Build(b) \/ Kill(b) PROVE LegacyCopyBegin(b)
        <4>1. CASE Make(b) \/ Stamp(b) \/ Extract(b) \/ Kill(b)
          BY <4>1 DEF Make, Stamp, Extract, Kill, Goto
        <4> QED  BY <3>2, <4>1, WrapperGoes DEF Build
      <3>3. ASSUME LegacyCopyBegin(b)
            PROVE  at' = at /\ pc[b] = "legacy" /\ out[file(b)] = Absent
        BY <3>3 DEF LegacyCopyBegin, InLegacyOnly
      <3> QED  BY <3>0, <3>1, <3>2, <3>3 DEF Next, file
    <2>2. file(b) \notin Held(c)
      BY <2>1 DEF HeldInv, Copying, HeldVerified
    <2>3. CASE Held(c)' \subseteq Held(c)
      BY <2>1, <2>2, <2>3
    <2>4. CASE HeldGrows(c)
      <3>1. c = b
        BY <2>1, <2>4 DEF HeldGrows, Locked, Inside
      <3> QED  BY <2>1, <2>4, <3>1 DEF HeldGrows
    <2> QED  BY <2>3, <2>4, HeldStep
  <1>3. Complete' /\ ExtractedVerified'
    <2> SUFFICES ASSUME NEW c \in Builds, pc'[c] \in {"downloaded", "extracted"}
                 PROVE  /\ at'[c] > Len(Want[c])
                        /\ pc'[c] = "extracted" => CheckHash(c, Want[c][1], used'[c]) = 0
      BY DEF Complete, ExtractedVerified
    <2>1. CASE pc'[c] = pc[c] /\ at'[c] = at[c] /\ used'[c] = used[c]
      BY <2>1 DEF HeldInv, Complete, ExtractedVerified
    <2>2. CASE Make(c)
      BY <2>2 DEF Make, Stamped, Goto
    <2>3. CASE Stamp(c)
      BY <2>3 DEF Stamp, Goto
    <2>4. CASE Extract(c)
      <3>1. at' = at /\ at[c] > Len(Want[c]) /\ pc[c] = "downloaded"
        BY <2>4 DEF Extract, HeldInv, Complete
      <3>2. Want[c] \in Seq(Files) /\ Want[c] # <<>>
        OBVIOUS
      <3>3. 1 \in 1 .. at[c] - 1
        BY <3>1, <3>2
      <3>4. Want[c][1] \in Held(c)
        BY <3>1, <3>3 DEF Held
      <3>5. CheckHash(c, Want[c][1], out[Want[c][1]]) = 0
        BY <3>4 DEF HeldInv, HeldVerified
      <3>6. pc'[c] = "extracted" => used'[c] = out[Want[c][1]]
        BY <2>4 DEF Extract, Goto
      <3> QED  BY <3>1, <3>5, <3>6
    <2>5. CASE Kill(c)
      BY <2>5 DEF Kill, Goto
    <2>6. CASE Acquire(c) \/ Wrapper(c)
      BY <2>6, WrapperGoes DEF Inside
    <2>7. CASE UNCHANGED vars
      BY <2>1, <2>7 DEF vars
    <2>8. ASSUME NEW b \in Builds, c # b, Make(b) \/ Build(b) \/ Kill(b)
          PROVE  pc'[c] = pc[c] /\ at'[c] = at[c] /\ used'[c] = used[c]
      BY <2>8, Bystander
    <2> QED
      BY <2>1, <2>2, <2>3, <2>4, <2>5, <2>6, <2>7, <2>8 DEF Next, Build
  <1> QED  BY <1>1, <1>2, <1>3 DEF HeldInv

THEOREM HeldCorrect == ASSUME CompatibleHashes PROVE Spec => []HeldInv
  <1>1. LockInv /\ WriteInv /\ HeldInv /\ [Next]_vars => HeldInv'
    BY HeldInvStep
  <1> QED  BY <1>1, HeldInit, WriteCorrect, PTL DEF Spec

(* What a build was told is downloaded stays there and passes its hash     *)
(* file, although nothing locks it between dl-wrapper and the extraction,  *)
(* as long as the hash files of the builds that share the directory do not *)
(* contradict each other.                                                  *)
THEOREM HeldStaysVerified == ASSUME CompatibleHashes PROVE Spec => []HeldVerified
  <1>1. HeldInv => HeldVerified
    BY DEF HeldInv
  <1> QED  BY <1>1, HeldCorrect, PTL

(* What the extraction reads satisfies the package's hash file, under the  *)
(* same assumption.                                                        *)
THEOREM ExtractionVerified == ASSUME CompatibleHashes PROVE Spec => []ExtractedVerified
  <1>1. HeldInv => ExtractedVerified
    BY DEF HeldInv
  <1> QED  BY <1>1, HeldCorrect, PTL
=============================================================================
