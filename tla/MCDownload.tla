----------------------------- MODULE MCDownload -----------------------------
(***************************************************************************)
(* Instances of Download for TLC: two builds that share the directory of   *)
(* one package, with the hash files, sites and legacy files they meet.     *)
(***************************************************************************)
EXTENDS Download, TLC

CONSTANTS b1, b2, f1, f2, t1, t2, t3, good, other

MCBuilds == {b1, b2}
MCFiles == {f1, f2}
MCContents == {good, other}

(* b1 wants both files; b2, another package or tree, only the first. *)
MCWant == (b1 :> <<f1, f2>>) @@ (b2 :> <<f1>>)
MCWantOne == (b1 :> <<f1>>) @@ (b2 :> <<f1>>)

Line(t, f, c) == [type |-> t, file |-> f, known |-> c]
Listed == <<Line("sum", f1, good), Line("none", f2, good)>>

(* Both trees know the same hash of f1. *)
MCHashAgree == (b1 :> Listed) @@ (b2 :> <<Line("sum", f1, good)>>)
(* b1's hash file has no line for f2 and b2's has one of unknown type. *)
MCHashMissing == (b1 :> <<Line("sum", f1, good)>>)
                 @@ (b2 :> <<Line("sum", f1, good), Line("unknown", f1, good)>>)
(* Upstream replaced the file under its old name and the newer tree, b2,   *)
(* has the new hash.                                                       *)
MCHashConflict == (b1 :> <<Line("sum", f1, good)>>)
                  @@ (b2 :> <<Line("sum", f1, other)>>)
(* A custom version: no hash file. *)
MCHashNone == (b1 :> NoHashFile) @@ (b2 :> NoHashFile)

MCNoCheckNone == [b \in MCBuilds |-> {}]
MCNoCheckF2 == [b \in MCBuilds |-> {f2}]

(* The primary site lacks some files, upstream changed others. *)
MCServes ==
    [u \in Sites |-> CASE u = "upstream" -> {good, other}
                       [] u \in {"backup/subdir", "backup"} -> {good}
                       [] OTHER -> {Fail, other}]
(* Upstream is down or serves either version. *)
MCServesAny == [u \in Sites |-> {good, other, Fail}]

MCNoLegacy == [f \in MCFiles |-> Absent]
MCLegacy == (f1 :> other) @@ (f2 :> good)
=============================================================================
