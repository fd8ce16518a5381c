--------------------------- MODULE MCControlPlane ---------------------------
(* Instances of ControlPlane for TLC, and the contract it implements.      *)
EXTENDS ControlPlane

(* The sandbox that a snapshot of the engine is of: the checkpoint's row   *)
(* says it, or else the operation that has made no row.                    *)
SnapshotOrigin ==
  [k \in Keys |-> IF k \notin snapshot THEN 0
                  ELSE IF rows.checkpoint[k] # 0 THEN rows.checkpoint[k]
                  ELSE rows.op[k].resource]

C == INSTANCE ResourceContract WITH
  Requests <- Keys,
  Capacity <- MaxActiveTotal,
  phase <- [s \in Sandboxes |-> IF rows.sandbox[s].state = "none" THEN "none"
                                ELSE IF SandboxCounts(rows.sandbox[s]) THEN "live" ELSE "ended"],
  mount <- [s \in Sandboxes |-> rows.sandbox[s].mount],
  source <- [s \in Sandboxes |-> rows.sandbox[s].source],
  known <- {w \in Workspaces : rows.workspace[w].state # "none"},
  offered <- {w \in Workspaces : rows.workspace[w].state = "ready"},
  condemned <- {w \in Workspaces : rows.workspace[w].cleanup},
  closed <- {w \in Workspaces : WorkspaceTerminal(rows.workspace[w].state)},
  volumes <- volume,
  saved <- snapshot,
  origin <- SnapshotOrigin,
  taken <- rows.claim

(* The control plane keeps the contract of ResourceContract: with its      *)
(* counters and mount table for scans, its mutex and fences, its lists     *)
(* read ahead of time, its crashes and its restarts, every step it takes   *)
(* is one the contract allows, or changes nothing the contract is about.   *)
Contract == C!ContractSpec

=============================================================================
