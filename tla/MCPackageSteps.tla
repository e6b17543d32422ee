--------------------------- MODULE MCPackageSteps ---------------------------
(***************************************************************************)
(* Instances of PackageSteps for TLC: a host package, a library that is    *)
(* installed to staging and needs it, and an application on top of both.   *)
(***************************************************************************)
EXTENDS PackageSteps, TLC

CONSTANTS tool, lib, app
MCPkgs == {tool, lib, app}
MCDeps == (tool :> {}) @@ (lib :> {tool}) @@ (app :> {lib})
MCNone == [p \in MCPkgs |-> {}]
MCExtractDeps == (tool :> {}) @@ (lib :> {tool}) @@ (app :> {})
MCPatchDeps == (tool :> {}) @@ (lib :> {}) @@ (app :> {lib})
MCPatches == (tool :> 0) @@ (lib :> 2) @@ (app :> 0)

(* The closure of the goals under the rules. *)
MCReach(goals) ==
    LET R[seen \in SUBSET Targets, new \in SUBSET Targets] ==
            IF new = {} THEN seen
            ELSE R[seen \cup new, UNION {Before(t) : t \in new} \ (seen \cup new)]
    IN  R[{}, goals]
MCNeeded == [r \in Requests |-> MCReach(Goals(r))]

MCDepth(t) ==
    (CASE t[1] = app -> 10 [] t[1] = lib -> 20 [] t[1] = tool -> 30) - Rank(t[2])
ASSUME MCLayered == Layered([t \in Targets |-> MCDepth(t)])

MCMaxKills == (1 :> 1) @@ (2 :> 0)
=============================================================================
