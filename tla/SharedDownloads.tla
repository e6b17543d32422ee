-------------------------- MODULE SharedDownloads --------------------------
(***************************************************************************)
(* What a package's download directory promises to the builds that share   *)
(* it, whatever goes on inside dl-wrapper: a file shows up under its final  *)
(* name in one step and complete, it is only withdrawn when the hash file  *)
(* of some build refutes it, and a build counts it as downloaded only      *)
(* while it is there and satisfies that build's own hash file.             *)
(* Download.tla implements this specification.                             *)
(***************************************************************************)

CONSTANTS Builds,      \* the make processes sharing the directory
          Files,       \* the basenames of the files in it
          Contents,    \* complete file contents
          Absent,      \* no file of that name
          Check(_,_,_) \* Check(b, f, c): exit code of check-hash

VARIABLES out,         \* out[f]: what is stored under the final name of f
          held         \* held[b]: the files build b takes for downloaded

vars == <<out, held>>

TypeOK ==
    /\ out \in [Files -> Contents \cup {Absent}]
    /\ held \in [Builds -> SUBSET Files]

Init ==
    /\ out = [f \in Files |-> Absent]
    /\ held = [b \in Builds |-> {}]

(* A complete file is stored under a name that was free. *)
Publish(f) ==
    /\ out[f] = Absent
    /\ \E c \in Contents : out' = [out EXCEPT ![f] = c]
    /\ UNCHANGED held

(* A file whose contents the hash file of some build refutes is removed. *)
Retract(f) ==
    /\ out[f] # Absent
    /\ \E b \in Builds : Check(b, f, out[f]) = 2
    /\ out' = [out EXCEPT ![f] = Absent]
    /\ UNCHANGED held

(* A build is told that its file is there and passes its hash file. *)
Accept(b, f) ==
    /\ out[f] # Absent
    /\ Check(b, f, out[f]) = 0
    /\ held' = [held EXCEPT ![b] = @ \cup {f}]
    /\ UNCHANGED out

(* A run of make ends, fails or is killed, and the next starts afresh. *)
Forget(b) ==
    /\ held' = [held EXCEPT ![b] = {}]
    /\ UNCHANGED out

Next ==
    \/ \E f \in Files : Publish(f) \/ Retract(f)
    \/ \E b \in Builds : Forget(b) \/ \E f \in Files : Accept(b, f)

Spec == Init /\ [][Next]_vars
=============================================================================
