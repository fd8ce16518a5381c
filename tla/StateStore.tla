----------------------------- MODULE StateStore -----------------------------
(***************************************************************************)
(* The controller's ledger (src/internal/store, the SQLite store).         *)
(*                                                                         *)
(* `rows` are the resources, operations and idempotency claims; `index`    *)
(* is what the store derives from them to answer admission and             *)
(* reconciliation without a scan: capacity counters, the owner of each     *)
(* mounted workspace, and the operation at the head of each family.  A     *)
(* transaction writes rows and brings the index after them, incrementally, *)
(* or does nothing at all.  Opening the database derives the counters and  *)
(* the mounts again, and the heads when the database predates them.        *)
(*                                                                         *)
(* Identities are drawn at random by the code; here a new one is the next  *)
(* number.  A request key stands for one idempotency key with one input,   *)
(* and names the operation, and the checkpoint, made under it.             *)
(*                                                                         *)
(* A definition headed "Fault variant" is a plausible slip in the one that *)
(* follows it; no specification uses it.                                   *)
(***************************************************************************)
EXTENDS Integers, FiniteSets

CONSTANTS
  Projects,       \* projects
  MaxSandboxes,   \* bound on the sandboxes ever created
  MaxWorkspaces,  \* bound on the workspaces ever created
  MaxRequests,    \* bound on the idempotency keys ever used
  Environments,   \* environment revisions, content-addressed
  Connectors      \* connector revisions, content-addressed

ASSUME StoreAssumption ==
  MaxSandboxes \in Nat /\ MaxWorkspaces \in Nat /\ MaxRequests \in Nat

Sandboxes == 1 .. MaxSandboxes
Workspaces == 1 .. MaxWorkspaces
Keys == 1 .. MaxRequests

(* "deleted" stands for every terminal state of a sandbox, "preparing" for *)
(* every other one in which it does not run.                               *)
SandboxStates == {"none", "preparing", "running", "deleted"}

WorkspaceStates ==
  {"none", "preparing", "ready", "deleting", "unknown", "deleted", "failed"}

OpKinds ==
  {"none", "create_environment", "create_connector", "create_sandbox",
   "create_workspace", "delete_workspace", "checkpoint_sandbox", "delete_checkpoint"}

OpStates == {"none", "running", "succeeded", "failed"}

(* A sandbox row: its project, the workspace it mounts and the checkpoint  *)
(* it was restored from (0: none).                                         *)
SandboxRow ==
  [state: SandboxStates, project: Projects,
   mount: 0 .. MaxWorkspaces, source: 0 .. MaxRequests]

WorkspaceRow ==
  [state: WorkspaceStates, project: Projects, backend: BOOLEAN, cleanup: BOOLEAN]

(* resource is the ResourceID: a sandbox, a workspace or a checkpoint.     *)
OpRow == [kind: OpKinds, resource: Nat, state: OpStates]

NoOp == [kind |-> "none", resource |-> 0, state |-> "none"]

(* checkpoint[k] is the source sandbox of the checkpoint made under key k. *)
Rows ==
  [sandbox: [Sandboxes -> SandboxRow], workspace: [Workspaces -> WorkspaceRow],
   environment: SUBSET Environments, connector: SUBSET Connectors,
   checkpoint: [Keys -> 0 .. MaxSandboxes], op: [Keys -> OpRow], claim: SUBSET Keys]

Families == {"create_sandbox", "create_workspace", "delete_workspace"}

-----------------------------------------------------------------------------
(* Which rows count.                                                       *)

SandboxTerminal(state) == state = "deleted"

SandboxCounts(row) == row.state # "none" /\ ~SandboxTerminal(row.state)

WorkspaceTerminal(state) == state \in {"deleted", "failed"}

WorkspaceCounts(row) == row.state # "none" /\ ~WorkspaceTerminal(row.state)

(* lifecycleOwnerEligibility: the owners reconciliation looks at.          *)
OwnerKind(family) == IF family = "create_sandbox" THEN "sandbox" ELSE "workspace"

Eligible(r, family, id) ==
  IF OwnerKind(family) = "sandbox" THEN SandboxCounts(r.sandbox[id])
  ELSE r.workspace[id].state \in {"preparing", "deleting", "unknown"}

Owners(family) == IF OwnerKind(family) = "sandbox" THEN Sandboxes ELSE Workspaces

(* The derived tables.  head is 0 where lifecycle_operation_heads has no   *)
(* row, mount is 0 where active_workspace_mounts has none.                 *)
Index ==
  [total: Nat, sandboxes: [Projects -> Nat], workspaces: [Projects -> Nat],
   environments: Nat, mount: [Workspaces -> 0 .. MaxSandboxes],
   head: {h \in [Families -> UNION {[Sandboxes -> 0 .. MaxRequests],
                                    [Workspaces -> 0 .. MaxRequests]}] :
             \A f \in Families : DOMAIN h[f] = Owners(f)}]

-----------------------------------------------------------------------------
(* What the derived tables mean: the same facts by a scan of the rows.     *)

LiveSandboxes(r) == {s \in Sandboxes : SandboxCounts(r.sandbox[s])}

LiveWorkspaces(r) == {w \in Workspaces : WorkspaceCounts(r.workspace[w])}

InProject(ids, table, p) == {i \in ids : table[i].project = p}

Mounting(r, w) == {s \in LiveSandboxes(r) : r.sandbox[s].mount = w}

OwnerByScan(r, w) == IF Mounting(r, w) = {} THEN 0 ELSE CHOOSE s \in Mounting(r, w) : TRUE

(* rebuildSandboxAdmissionIndexesTx: opening the database recomputes the   *)
(* counters and the mounts.  Two owners of one workspace make it fail.     *)
Rebuilt(r, heads) ==
  [total |-> Cardinality(LiveSandboxes(r)),
   sandboxes |-> [p \in Projects |-> Cardinality(InProject(LiveSandboxes(r), r.sandbox, p))],
   workspaces |-> [p \in Projects |-> Cardinality(InProject(LiveWorkspaces(r), r.workspace, p))],
   environments |-> Cardinality(r.environment),
   mount |-> [w \in Workspaces |-> OwnerByScan(r, w)],
   head |-> heads]

(* rebuildLifecycleOperationHeadsTx goes by the time of the last update.   *)
(* An older operation may have been updated late, and the host's clock     *)
(* stepped: the oldest or the newest may win.                              *)
Members(r, family, id) ==
  {k \in Keys : r.op[k].kind = family /\ r.op[k].resource = id}

RebuiltHeads(r, oldest) ==
  [f \in Families |-> [id \in Owners(f) |->
     IF Eligible(r, f, id) /\ Members(r, f, id) # {}
     THEN CHOOSE k \in Members(r, f, id) :
            \A j \in Members(r, f, id) : IF oldest THEN k <= j ELSE j <= k
     ELSE 0]]

-----------------------------------------------------------------------------
(* How a transaction brings the derived tables after the rows: for every   *)
(* changed row, first everything the old row stood for is taken out, then  *)
(* everything the new row stands for is put in.                            *)

Changed(before, after, ids) == {i \in ids : before[i] # after[i]}

(* changeSandboxCapacityTx and changeNamedCapacityTx over a transaction:   *)
(* the changed rows that counted before it, and those that count after it. *)
Recount(n, before, after) == n - Cardinality(before) + Cardinality(after)

(* Fault variant: the mount of a sandbox that has ended is left in.        *)
MountsKept(mount, before, after) ==
  LET moved == {s \in Changed(before, after, Sandboxes) : SandboxCounts(after[s])} IN
  [w \in Workspaces |->
     IF \E s \in moved : after[s].mount = w THEN CHOOSE s \in moved : after[s].mount = w
     ELSE mount[w]]

(* removeSandboxAdmissionIndexesTx, then addSandboxAdmissionIndexesTx.     *)
Mounts(mount, before, after) ==
  LET changed == Changed(before, after, Sandboxes)
      adds(w) == {s \in changed : SandboxCounts(after[s]) /\ after[s].mount = w}
  IN [w \in Workspaces |->
        IF adds(w) # {} THEN CHOOSE s \in adds(w) : TRUE
        ELSE IF mount[w] \in changed THEN 0 ELSE mount[w]]

(* The primary key of active_workspace_mounts: one owner per workspace.    *)
MountConflict(mount, before, after) ==
  LET changed == Changed(before, after, Sandboxes)
      adds(w) == {s \in changed : SandboxCounts(after[s]) /\ after[s].mount = w}
  IN \E w \in Workspaces :
       \/ Cardinality(adds(w)) > 1
       \/ adds(w) # {} /\ mount[w] \notin changed \cup {0}

(* Fault variant: an update, too, makes an operation the head.             *)
HeadsByUpdate(heads, before, after) ==
  LET written(f, id) == {k \in Members(after, f, id) : before.op[k] # after.op[k]} IN
  [f \in Families |-> [id \in DOMAIN heads[f] |->
     IF ~Eligible(after, f, id) THEN 0
     ELSE IF written(f, id) # {} THEN CHOOSE k \in written(f, id) : TRUE
     ELSE heads[f][id]]]

(* syncLifecycleOperationHeadsTx: an operation becomes the head of its     *)
(* family by being inserted, an update leaves it where it is, and an owner *)
(* that leaves the set that reconciliation looks at loses its heads.       *)
Heads(heads, before, after) ==
  LET inserted(f, id) == {k \in Members(after, f, id) : before.op[k] = NoOp} IN
  [f \in Families |-> [id \in DOMAIN heads[f] |->
     IF ~Eligible(after, f, id) THEN 0
     ELSE IF inserted(f, id) # {} THEN CHOOSE k \in inserted(f, id) : TRUE
     ELSE heads[f][id]]]

(* syncEncodedState.                                                       *)
Synced(ix, before, after) ==
  LET sandboxes == Changed(before.sandbox, after.sandbox, Sandboxes)
      workspaces == Changed(before.workspace, after.workspace, Workspaces)
      live(r) == LiveSandboxes(r) \cap sandboxes
      kept(r) == LiveWorkspaces(r) \cap workspaces
  IN
  [total |-> Recount(ix.total, live(before), live(after)),
   sandboxes |-> [p \in Projects |->
     Recount(ix.sandboxes[p], InProject(live(before), before.sandbox, p),
                              InProject(live(after), after.sandbox, p))],
   workspaces |-> [p \in Projects |->
     Recount(ix.workspaces[p], InProject(kept(before), before.workspace, p),
                               InProject(kept(after), after.workspace, p))],
   environments |-> ix.environments + Cardinality(after.environment \ before.environment),
   mount |-> Mounts(ix.mount, before.sandbox, after.sandbox),
   head |-> Heads(ix.head, before, after)]

(* validateState: a claim leads to an operation.                           *)
ValidState(r) == \A k \in r.claim : r.op[k] # NoOp

(* validateScopedChanges: only declared rows change, an operation is never *)
(* deleted and keeps its kind, a claim is never given up.                  *)
ScopeKept(before, after, scope) ==
  /\ Changed(before.sandbox, after.sandbox, Sandboxes) \subseteq scope.sandboxes
  /\ Changed(before.workspace, after.workspace, Workspaces) \subseteq scope.workspaces
  /\ after.environment \ before.environment \subseteq scope.environments
  /\ Changed(before.checkpoint, after.checkpoint, Keys) \subseteq scope.checkpoints
  /\ Changed(before.op, after.op, Keys) \subseteq scope.operations
  /\ \A k \in Keys : before.op[k] # NoOp => after.op[k].kind = before.op[k].kind
  /\ before.claim \subseteq after.claim /\ after.claim \ before.claim \subseteq scope.claims
  /\ after.connector = before.connector

NoScope ==
  [sandboxes |-> {}, workspaces |-> {}, environments |-> {}, checkpoints |-> {},
   operations |-> {}, claims |-> {}]

(* A transaction that the store does not refuse.                           *)
Commits(ix, before, after) ==
  ValidState(after) /\ ~MountConflict(ix.mount, before.sandbox, after.sandbox)
=============================================================================
