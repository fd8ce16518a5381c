---------------------------- MODULE ControlPlane ----------------------------
(***************************************************************************)
(* Admission, workspaces and checkpoints (src/internal/service/service.go, *)
(* workspace.go, sandbox_admission.go, environment_admission.go) over the  *)
(* ledger of StateStore and an engine that keeps volumes and snapshots.    *)
(*                                                                         *)
(* s.mu is held across the engine call by CreateWorkspace, DeleteWorkspace *)
(* and DeleteCheckpoint: `held` is that call.  Checkpoint gives the mutex  *)
(* up and fences its sandbox instead: `shot`.  The reconciler fences the   *)
(* workspace it looks at, and reads its two lists before it takes s.mu:    *)
(* `rec`.  One action is one region under the mutex, one read of a list or *)
(* one engine call.  What becomes of a sandbox after its admission is in   *)
(* SandboxLifecycle; here SandboxWrite stands for any of those writes.     *)
(*                                                                         *)
(* A call that is refused, and the repetition of a request whose key is    *)
(* claimed, change nothing and are no steps.                               *)
(***************************************************************************)
EXTENDS StateStore

CONSTANTS
  MaxActiveTotal,        \* MaxActiveSandboxesTotal
  MaxActivePerProject,   \* MaxActiveSandboxesPerProject
  MaxWorkspacesLive,     \* MaxWorkspacesPerProject
  MaxEnvironments,       \* MaxEnvironmentsPerProject
  MaxConnectors,         \* MaxConnectorsPerProject
  Mixes,                 \* the mixes of calls and of kinds of fault
  MaxFaults              \* bound on the number of faults, one more with "again"

VARIABLES
  rows,      \* the ledger
  index,     \* its derived tables
  ctl,       \* "down", "starting" (the startup round) or "up"
  held,      \* the call that holds s.mu across an engine call
  shot,      \* shot[s]: the checkpoint in flight of sandbox s
  rec,       \* the reconciler's round
  volume,    \* workspaces whose volume the engine has
  snapshot,  \* keys of the checkpoints whose snapshot the engine has
  refused,   \* the store has refused a transaction that was due
  calls,     \* the calls clients make and the faults there are, chosen once
  faults     \* faults so far

vars == <<rows, index, ctl, held, shot, rec, volume, snapshot, refused, calls, faults>>

store == <<rows, index, refused>>
engine == <<volume, snapshot>>

(* found: the call knows the identity of the volume.                       *)
NoCall == [kind |-> "none", key |-> 0, res |-> 0, step |-> "idle", found |-> FALSE]

Call(kind, k, res, step, found) ==
  [kind |-> kind, key |-> k, res |-> res, step |-> step, found |-> found]

NoShot == [key |-> 0, step |-> "idle"]

(* ops: the candidate operations of the round that have not been rewritten *)
(* since (sameOperationVersion); stale: those that have.  fresh: the row   *)
(* of ws is still the one that was read.                                   *)
IdleRound ==
  [step |-> "idle", ops |-> {}, stale |-> {}, todo |-> {}, ws |-> 0,
   cleanup |-> FALSE, backend |-> FALSE, fresh |-> FALSE, failed |-> FALSE]

(* Type correctness of the ledger, its derived tables, the calls in flight *)
(* and the engine.                                                         *)
TypeOK ==
  /\ rows \in Rows /\ index \in Index
  /\ ctl \in {"down", "starting", "up"}
  /\ held \in [kind: {"none", "create_workspace", "delete_workspace", "delete_checkpoint"},
               key: 0 .. MaxRequests, res: Nat,
               step: {"idle", "call", "find", "delete", "ok", "err"}, found: BOOLEAN]
  /\ shot \in [Sandboxes -> [key: 0 .. MaxRequests, step: {"idle", "call", "ok", "err"}]]
  /\ rec \in [step: {"idle", "listed", "next", "find", "delete", "ok", "err", "missing"},
              ops: SUBSET Keys, stale: SUBSET Keys, todo: SUBSET Workspaces,
              ws: 0 .. MaxWorkspaces, cleanup: BOOLEAN, backend: BOOLEAN,
              fresh: BOOLEAN, failed: BOOLEAN]
  /\ volume \in SUBSET Workspaces /\ snapshot \in SUBSET Keys
  /\ refused \in BOOLEAN /\ calls \in Mixes /\ faults \in 0 .. MaxFaults + 1

(* A database with one environment, made under a key of the past.          *)
Init ==
  /\ LET e == CHOOSE x \in Environments : TRUE
         p == CHOOSE x \in Projects : TRUE
     IN
       rows = [sandbox |-> [s \in Sandboxes |->
                 [state |-> "none", project |-> p, mount |-> 0, source |-> 0]],
               workspace |-> [w \in Workspaces |->
                 [state |-> "none", project |-> p, backend |-> FALSE, cleanup |-> FALSE]],
               environment |-> {e}, connector |-> {},
               checkpoint |-> [k \in Keys |-> 0], op |-> [k \in Keys |-> NoOp], claim |-> {}]
  /\ index = Rebuilt(rows, [f \in Families |-> [id \in Owners(f) |-> 0]])
  /\ ctl = "down" /\ held = NoCall /\ shot = [s \in Sandboxes |-> NoShot]
  /\ rec = IdleRound /\ volume = {} /\ snapshot = {} /\ refused = FALSE
  /\ calls \in Mixes /\ faults = 0

-----------------------------------------------------------------------------
(* Common parts.                                                           *)

Fault(kind) ==
  /\ kind \in calls /\ faults' = faults + 1
  /\ faults < MaxFaults + (IF "again" \in calls THEN 1 ELSE 0)

MuFree == held = NoCall

(* A request arrives: the mutex is free and the key is not claimed.  Keys  *)
(* are numbered in the order of their first use.                           *)
Request(k) == ctl = "up" /\ MuFree /\ k \notin rows.claim /\ k <= Cardinality(rows.claim) + 1

(* An operation a writer rewrites is no longer the version the round read, *)
(* nor is a workspace row.                                                 *)
Touch(ops, wss) ==
  rec' = [rec EXCEPT !.ops = @ \ ops, !.stale = @ \cup (rec.ops \cap ops),
                     !.fresh = @ /\ rec.ws \notin wss]

(* UpdateRows: all of the transaction, or none of it.                      *)
Txn(after, scope) ==
  IF ScopeKept(rows, after, scope) /\ Commits(index, rows, after)
  THEN rows' = after /\ index' = Synced(index, rows, after) /\ UNCHANGED refused
  ELSE refused' = TRUE /\ UNCHANGED <<rows, index>>

(* Update: the same over the whole state, without a scope.                 *)
Update(after) ==
  IF Commits(index, rows, after)
  THEN rows' = after /\ index' = Synced(index, rows, after) /\ UNCHANGED refused
  ELSE refused' = TRUE /\ UNCHANGED <<rows, index>>

Op(kind, res, state) == [kind |-> kind, resource |-> res, state |-> state]

(* The row changes of an intent: the operation and its claim.              *)
Claimed(r, k, op) == [r EXCEPT !.op[k] = op, !.claim = @ \cup {k}]

Intent(k) == [NoScope EXCEPT !.operations = {k}, !.claims = {k}]

NextId(table, ids) == CHOOSE i \in ids \cup {0} :
  IF \E j \in ids : table[j].state = "none"
  THEN i \in ids /\ table[i].state = "none" /\ \A j \in ids : j < i => table[j].state # "none"
  ELSE i = 0

-----------------------------------------------------------------------------
(* What the admission queries of the store report, from the derived tables *)
(* and from single rows.                                                   *)

ReadEnvironmentAdmission(e) ==
  [found |-> e \in rows.environment, count |-> index.environments]

ReadWorkspaceAdmission(p) == [active |-> index.workspaces[p]]

ReadSandboxAdmission(p, w, c) ==
  [active |-> index.sandboxes[p], total |-> index.total,
   environment |-> rows.environment # {},
   checkpoint |-> c # 0 /\ rows.checkpoint[c] # 0
                  /\ rows.sandbox[rows.checkpoint[c]].project = p,
   workspace |-> IF w # 0 /\ rows.workspace[w].project = p
                 THEN rows.workspace[w].state ELSE "none",
   attached |-> w # 0 /\ index.mount[w] # 0]

WorkspaceAttached(w) == index.mount[w] # 0

-----------------------------------------------------------------------------
(* Environments and connectors: content-addressed, never deleted.          *)

(* Fault variant: the count is checked one too late.                       *)
CreateEnvironmentOneMore(k, e) ==
  /\ Request(k)
  /\ LET seen == ReadEnvironmentAdmission(e) IN seen.found \/ seen.count <= MaxEnvironments
  /\ Txn([Claimed(rows, k, Op("create_environment", 0, "succeeded"))
            EXCEPT !.environment = @ \cup {e}],
         [Intent(k) EXCEPT !.environments = {e}])
  /\ UNCHANGED <<ctl, held, shot, rec, engine, faults>>

CreateEnvironment(k, e) ==
  /\ Request(k)
  /\ LET seen == ReadEnvironmentAdmission(e) IN seen.found \/ seen.count < MaxEnvironments
  /\ Txn([Claimed(rows, k, Op("create_environment", 0, "succeeded"))
            EXCEPT !.environment = @ \cup {e}],
         [Intent(k) EXCEPT !.environments = {e}])
  /\ UNCHANGED <<ctl, held, shot, rec, engine, faults>>

(* The whole-state Update, with the count taken by a scan inside it; a     *)
(* revision that exists already counts against its own re-creation.        *)
CreateConnector(k, c) ==
  /\ Request(k)
  /\ Cardinality(rows.connector) < MaxConnectors
  /\ Update([Claimed(rows, k, Op("create_connector", 0, "succeeded"))
               EXCEPT !.connector = @ \cup {c}])
  /\ UNCHANGED <<ctl, held, shot, rec, engine, faults>>

-----------------------------------------------------------------------------
(* Sandboxes.                                                              *)

(* Fault variant: the workspace's owner is not asked for.                  *)
AdmittedUnasked(p, w, c) ==
  LET seen == ReadSandboxAdmission(p, w, c) IN
  /\ seen.active < MaxActivePerProject
  /\ seen.total < MaxActiveTotal
  /\ seen.environment
  /\ c # 0 => seen.checkpoint
  /\ w # 0 => seen.workspace = "ready"

(* admitSandboxCreate.                                                     *)
Admitted(p, w, c) ==
  LET seen == ReadSandboxAdmission(p, w, c) IN
  /\ seen.active < MaxActivePerProject
  /\ seen.total < MaxActiveTotal
  /\ seen.environment
  /\ c # 0 => seen.checkpoint
  /\ w # 0 => seen.workspace = "ready" /\ ~seen.attached

(* CreateSandbox up to its intent; the engine call comes after it, outside *)
(* the mutex, and is part of SandboxLifecycle.                             *)
CreateSandbox(k, p, w, c) ==
  LET s == NextId(rows.sandbox, Sandboxes) IN
  /\ Request(k) /\ s # 0
  /\ Admitted(p, w, c)
  /\ Txn([Claimed(rows, k, Op("create_sandbox", s, "running")) EXCEPT !.sandbox[s] =
            [state |-> "preparing", project |-> p, mount |-> w, source |-> c]],
         [Intent(k) EXCEPT !.sandboxes = {s}])
  /\ UNCHANGED <<ctl, held, shot, rec, engine, faults>>

(* Any later write of a sandbox's row.  A terminal row is never written    *)
(* again (NoRevival of SandboxLifecycle), nor is one a checkpoint fences.  *)
SandboxWrite(s, state) ==
  /\ ctl # "down" /\ MuFree /\ shot[s] = NoShot
  /\ SandboxCounts(rows.sandbox[s]) /\ state # rows.sandbox[s].state
  /\ Txn([rows EXCEPT !.sandbox[s].state = state], [NoScope EXCEPT !.sandboxes = {s}])
  /\ UNCHANGED <<ctl, held, shot, rec, engine, faults>>

-----------------------------------------------------------------------------
(* Checkpoints.                                                            *)

(* Checkpoint's intent.  The operation names the sandbox until it ends.    *)
Checkpoint(k, s) ==
  /\ Request(k)
  /\ rows.sandbox[s].state = "running" /\ shot[s] = NoShot
  /\ Txn(Claimed(rows, k, Op("checkpoint_sandbox", s, "running")), Intent(k))
  /\ shot' = [shot EXCEPT ![s] = [key |-> k, step |-> "call"]]
  /\ UNCHANGED <<ctl, held, rec, engine, faults>>

(* The engine saves the sandbox and answers; it fails; its answer is lost. *)
EngineCheckpoint(s) ==
  LET answer(ok) == shot' = [shot EXCEPT ![s].step = IF ok THEN "ok" ELSE "err"] IN
  /\ shot[s].step = "call"
  /\ \/ snapshot' = snapshot \cup {shot[s].key} /\ answer(TRUE) /\ UNCHANGED faults
     \/ UNCHANGED snapshot /\ answer(FALSE) /\ Fault("engine_error")
     \/ snapshot' = snapshot \cup {shot[s].key} /\ answer(FALSE) /\ Fault("engine_lost")
  /\ UNCHANGED <<store, ctl, held, rec, volume>>

(* Fault variant: a row is written whatever the engine has answered.       *)
CheckpointResultAssumed(s) ==
  LET k == shot[s].key IN
  /\ shot[s].step \in {"ok", "err"} /\ MuFree
  /\ shot' = [shot EXCEPT ![s] = NoShot]
  /\ \/ /\ UNCHANGED faults
        /\ Txn([rows EXCEPT !.checkpoint[k] = s,
                            !.op[k] = Op("checkpoint_sandbox", k, "succeeded")],
               [NoScope EXCEPT !.operations = {k}, !.checkpoints = {k}])
     \/ Fault("store") /\ UNCHANGED store
  /\ UNCHANGED <<ctl, held, rec, engine>>

(* Checkpoint after the engine's answer.                                   *)
CheckpointResult(s) ==
  LET k == shot[s].key IN
  /\ shot[s].step \in {"ok", "err"} /\ MuFree
  /\ shot' = [shot EXCEPT ![s] = NoShot]
  /\ \/ /\ shot[s].step = "ok" /\ UNCHANGED faults
        /\ Txn([rows EXCEPT !.checkpoint[k] = s,
                            !.op[k] = Op("checkpoint_sandbox", k, "succeeded")],
               [NoScope EXCEPT !.operations = {k}, !.checkpoints = {k}])
     \/ /\ shot[s].step = "err" /\ UNCHANGED faults
        /\ Txn([rows EXCEPT !.op[k].state = "failed"], [NoScope EXCEPT !.operations = {k}])
     \/ Fault("store") /\ UNCHANGED store
  /\ UNCHANGED <<ctl, held, rec, engine>>

(* checkpointInUseLocked: a live sandbox is its source or came from it.    *)
CheckpointInUse(c) ==
  \E s \in LiveSandboxes(rows) : s = rows.checkpoint[c] \/ rows.sandbox[s].source = c

DeleteCheckpoint(k, c) ==
  /\ Request(k) /\ rows.checkpoint[c] # 0 /\ ~CheckpointInUse(c)
  /\ Txn(Claimed(rows, k, Op("delete_checkpoint", c, "running")), Intent(k))
  /\ held' = Call("delete_checkpoint", k, c, "call", TRUE)
  /\ UNCHANGED <<ctl, shot, rec, engine, faults>>

(* A snapshot that is already gone is answered like one that is deleted.   *)
EngineDeleteCheckpoint ==
  /\ held.kind = "delete_checkpoint" /\ held.step = "call"
  /\ \/ /\ snapshot' = snapshot \ {held.res} /\ held' = [held EXCEPT !.step = "ok"]
        /\ UNCHANGED faults
     \/ UNCHANGED snapshot /\ held' = [held EXCEPT !.step = "err"] /\ Fault("engine_error")
     \/ /\ snapshot' = snapshot \ {held.res} /\ held' = [held EXCEPT !.step = "err"]
        /\ Fault("engine_lost")
  /\ UNCHANGED <<store, ctl, shot, rec, volume>>

(* The row goes with the operation's success, and stays with its failure.  *)
DeleteCheckpointResult ==
  LET k == held.key
      c == held.res
  IN
  /\ held.kind = "delete_checkpoint" /\ held.step \in {"ok", "err"}
  /\ held' = NoCall
  /\ \/ /\ held.step = "ok" /\ UNCHANGED faults
        /\ Txn([rows EXCEPT !.checkpoint[c] = 0, !.op[k].state = "succeeded"],
               [NoScope EXCEPT !.sandboxes = {rows.checkpoint[c]},
                               !.operations = {k}, !.checkpoints = {c}])
     \/ /\ held.step = "err" /\ UNCHANGED faults
        /\ Txn([rows EXCEPT !.op[k].state = "failed"], [NoScope EXCEPT !.operations = {k}])
     \/ Fault("store") /\ UNCHANGED store
  /\ UNCHANGED <<ctl, shot, rec, engine>>

-----------------------------------------------------------------------------
(* Workspaces.                                                             *)

(* The reconciler's fence (activeWorkspaceMutations).                      *)
Fenced(w) == rec.ws = w

WriteWorkspace(w, k, row, opState) ==
  /\ Txn([rows EXCEPT !.workspace[w] = row, !.op[k].state = opState],
         [NoScope EXCEPT !.workspaces = {w}, !.operations = {k}])
  /\ Touch({k}, {w})

(* admitWorkspaceCreate and CreateWorkspace's intent.                      *)
CreateWorkspace(k, p) ==
  LET w == NextId(rows.workspace, Workspaces) IN
  /\ Request(k) /\ w # 0
  /\ ReadWorkspaceAdmission(p).active < MaxWorkspacesLive
  /\ Txn([Claimed(rows, k, Op("create_workspace", w, "running")) EXCEPT
            !.workspace[w] = [state |-> "preparing", project |-> p,
                              backend |-> FALSE, cleanup |-> FALSE]],
         [Intent(k) EXCEPT !.workspaces = {w}])
  /\ held' = Call("create_workspace", k, w, "call", FALSE)
  /\ UNCHANGED <<ctl, shot, rec, engine, faults>>

EngineCreateWorkspace ==
  /\ held.kind = "create_workspace" /\ held.step = "call"
  /\ \/ /\ volume' = volume \cup {held.res} /\ held' = [held EXCEPT !.step = "ok"]
        /\ UNCHANGED faults
     \/ UNCHANGED volume /\ held' = [held EXCEPT !.step = "err"] /\ Fault("engine_error")
     \/ /\ volume' = volume \cup {held.res} /\ held' = [held EXCEPT !.step = "err"]
        /\ Fault("engine_lost")
  /\ UNCHANGED <<store, ctl, shot, rec, snapshot>>

(* Fault variant: an error of the engine is taken for a failed creation.   *)
CreateWorkspaceResultFailed ==
  LET k == held.key
      w == held.res
      row == rows.workspace[w]
  IN
  /\ held.kind = "create_workspace" /\ held.step \in {"ok", "err"}
  /\ held' = NoCall
  /\ \/ /\ held.step = "ok" /\ UNCHANGED faults
        /\ WriteWorkspace(w, k, [row EXCEPT !.state = "ready", !.backend = TRUE], "succeeded")
     \/ /\ held.step = "err" /\ UNCHANGED faults
        /\ WriteWorkspace(w, k, [row EXCEPT !.state = "failed"], "failed")
     \/ Fault("store") /\ UNCHANGED <<store, rec>>
  /\ UNCHANGED <<ctl, shot, engine>>

CreateWorkspaceResult ==
  LET k == held.key
      w == held.res
      row == rows.workspace[w]
  IN
  /\ held.kind = "create_workspace" /\ held.step \in {"ok", "err"}
  /\ held' = NoCall
  /\ \/ /\ held.step = "ok" /\ UNCHANGED faults
        /\ WriteWorkspace(w, k, [row EXCEPT !.state = "ready", !.backend = TRUE], "succeeded")
     \/ /\ held.step = "err" /\ UNCHANGED faults
        /\ WriteWorkspace(w, k, [row EXCEPT !.state = "unknown"], "failed")
     \/ Fault("store") /\ UNCHANGED <<store, rec>>
  /\ UNCHANGED <<ctl, shot, engine>>

(* Fault variant: a workspace is deleted whoever uses it.                  *)
DeleteWorkspaceAttached(k, w) ==
  LET row == rows.workspace[w] IN
  /\ Request(k)
  /\ WorkspaceCounts(row) /\ ~Fenced(w)
  /\ Txn([Claimed(rows, k, Op("delete_workspace", w, "running")) EXCEPT
            !.workspace[w].state = "deleting", !.workspace[w].cleanup = TRUE],
         [Intent(k) EXCEPT !.workspaces = {w}])
  /\ held' = Call("delete_workspace", k, w, IF row.backend THEN "delete" ELSE "find", row.backend)
  /\ Touch({}, {w})
  /\ UNCHANGED <<ctl, shot, engine, faults>>

DeleteWorkspace(k, w) ==
  LET row == rows.workspace[w] IN
  /\ Request(k)
  /\ WorkspaceCounts(row) /\ ~Fenced(w) /\ ~WorkspaceAttached(w)
  /\ Txn([Claimed(rows, k, Op("delete_workspace", w, "running")) EXCEPT
            !.workspace[w].state = "deleting", !.workspace[w].cleanup = TRUE],
         [Intent(k) EXCEPT !.workspaces = {w}])
  /\ held' = Call("delete_workspace", k, w, IF row.backend THEN "delete" ELSE "find", row.backend)
  /\ Touch({}, {w})
  /\ UNCHANGED <<ctl, shot, engine, faults>>

(* A volume of unknown identity is looked for first; its absence will do.  *)
EngineFindWorkspace ==
  /\ held.kind = "delete_workspace" /\ held.step = "find"
  /\ \/ /\ held' = IF held.res \in volume
                   THEN [held EXCEPT !.step = "delete", !.found = TRUE]
                   ELSE [held EXCEPT !.step = "ok"]
        /\ UNCHANGED faults
     \/ held' = [held EXCEPT !.step = "err"] /\ Fault("engine_error")
  /\ UNCHANGED <<store, ctl, shot, rec, engine>>

EngineDeleteWorkspace ==
  /\ held.kind = "delete_workspace" /\ held.step = "delete"
  /\ \/ /\ volume' = volume \ {held.res} /\ held' = [held EXCEPT !.step = "ok"]
        /\ UNCHANGED faults
     \/ UNCHANGED volume /\ held' = [held EXCEPT !.step = "err"] /\ Fault("engine_error")
     \/ /\ volume' = volume \ {held.res} /\ held' = [held EXCEPT !.step = "err"]
        /\ Fault("engine_lost")
  /\ UNCHANGED <<store, ctl, shot, rec, snapshot>>

(* reconcileWorkspaceCleanupLocked and failWorkspaceCleanupLocked: their   *)
(* one transaction.                                                        *)
DeleteWorkspaceResult ==
  LET k == held.key
      w == held.res
      row == [rows.workspace[w] EXCEPT !.backend = held.found]
  IN
  /\ held.kind = "delete_workspace" /\ held.step \in {"ok", "err"}
  /\ held' = NoCall
  /\ \/ /\ held.step = "ok" /\ UNCHANGED faults
        /\ WriteWorkspace(w, k, [row EXCEPT !.state = "deleted"], "succeeded")
     \/ /\ held.step = "err" /\ UNCHANGED faults
        /\ WriteWorkspace(w, k, [row EXCEPT !.state = "unknown"], "failed")
     \/ Fault("store") /\ UNCHANGED <<store, rec>>
  /\ UNCHANGED <<ctl, shot, engine>>

-----------------------------------------------------------------------------
(* The reconciler's round over the workspaces.                             *)

(* ListLifecycleOperationsForReconcile: the heads that have not succeeded, *)
(* read outside the mutex.                                                 *)
RoundOperations ==
  /\ ctl # "down" /\ rec.step = "idle"
  /\ rec' = [IdleRound EXCEPT !.step = "listed",
       !.ops = {k \in Keys : /\ rows.op[k].state # "succeeded"
                             /\ \E f \in Families \ {"create_sandbox"} :
                                  \E w \in Workspaces : index.head[f][w] = k}]
  /\ UNCHANGED <<store, ctl, held, shot, engine, faults>>

(* The round goes on with r, or ends; the first round decides whether the  *)
(* controller serves or gives up.                                          *)
GoOn(r) ==
  IF r.todo # {} THEN rec' = r /\ UNCHANGED ctl
  ELSE rec' = IdleRound /\ ctl' = IF ctl = "starting" /\ r.failed THEN "down" ELSE "up"

(* Fault variant: a workspace in doubt is not listed.                      *)
RoundWorkspacesKnown ==
  /\ rec.step = "listed"
  /\ GoOn([rec EXCEPT !.step = "next",
       !.todo = {w \in Workspaces : rows.workspace[w].state \in {"preparing", "deleting"}}])
  /\ UNCHANGED <<store, held, shot, engine, faults>>

(* ListWorkspacesForReconcile: a second read.                              *)
RoundWorkspaces ==
  /\ rec.step = "listed"
  /\ GoOn([rec EXCEPT !.step = "next",
       !.todo = {w \in Workspaces :
                   rows.workspace[w].state \in {"preparing", "deleting", "unknown"}}])
  /\ UNCHANGED <<store, held, shot, engine, faults>>

(* reconcileWorkspace: what is settled by now, or fenced, is left alone;   *)
(* a workspace that has become ready since it was listed is not.           *)
RoundClaim ==
  LET w == CHOOSE x \in rec.todo : \A y \in rec.todo : x <= y
      row == rows.workspace[w]
      cleanup == row.cleanup \/ row.state = "deleting"
  IN
  /\ rec.step = "next" /\ MuFree
  /\ IF WorkspaceTerminal(row.state)
     THEN GoOn([rec EXCEPT !.todo = @ \ {w}])
     ELSE /\ rec' = [rec EXCEPT !.todo = @ \ {w}, !.ws = w, !.fresh = TRUE,
                               !.cleanup = cleanup, !.backend = row.backend,
                               !.step = IF cleanup /\ row.backend THEN "delete" ELSE "find"]
          /\ UNCHANGED ctl
  /\ UNCHANGED <<store, held, shot, engine, faults>>

RoundFind ==
  /\ rec.step = "find"
  /\ \/ /\ rec' = [rec EXCEPT !.backend = @ \/ rec.ws \in volume,
                     !.step = CASE rec.ws \in volume -> IF rec.cleanup THEN "delete" ELSE "ok"
                                [] OTHER -> IF rec.cleanup THEN "ok" ELSE "missing"]
        /\ UNCHANGED faults
     \/ rec' = [rec EXCEPT !.step = "err"] /\ Fault("engine_error")
  /\ UNCHANGED <<store, ctl, held, shot, engine>>

RoundDelete ==
  /\ rec.step = "delete"
  /\ \/ /\ volume' = volume \ {rec.ws} /\ rec' = [rec EXCEPT !.step = "ok"]
        /\ UNCHANGED faults
     \/ UNCHANGED volume /\ rec' = [rec EXCEPT !.step = "err"] /\ Fault("engine_error")
     \/ /\ volume' = volume \ {rec.ws} /\ rec' = [rec EXCEPT !.step = "err"]
        /\ Fault("engine_lost")
  /\ UNCHANGED <<store, ctl, held, shot, snapshot>>

(* What the round concludes: the workspace's state, the operation that is  *)
(* completed with it, and how.                                             *)
Conclusion ==
  CASE rec.cleanup /\ rec.step = "ok" ->
         [state |-> "deleted", kind |-> "delete_workspace", op |-> "succeeded"]
    [] rec.cleanup /\ rec.step = "err" ->
         [state |-> "unknown", kind |-> "delete_workspace", op |-> "failed"]
    [] rec.step = "missing" ->
         [state |-> "failed", kind |-> "create_workspace", op |-> "failed"]
    [] ~rec.cleanup /\ rec.step = "ok" ->
         [state |-> "ready", kind |-> "create_workspace", op |-> "succeeded"]
    [] OTHER -> [state |-> "unknown", kind |-> "none", op |-> "none"]

(* latestIncompleteOperations, of the candidates of this workspace.        *)
Completed == {k \in rec.ops \cup rec.stale :
                rows.op[k].kind = Conclusion.kind /\ rows.op[k].resource = rec.ws}

Rest(failed) ==
  [IdleRound EXCEPT !.step = "next", !.ops = rec.ops, !.stale = rec.stale,
                    !.todo = rec.todo, !.failed = rec.failed \/ failed]

(* The result of the observation is dropped, with the rest of the round,   *)
(* when its deadline has passed, and alone when the row or a candidate has *)
(* changed or the store fails; else row and operation are written together. *)
RoundResult ==
  LET w == rec.ws
      superseded == ~rec.fresh \/ Completed \cap rec.stale # {}
  IN
  /\ rec.step \in {"ok", "err", "missing"} /\ MuFree
  /\ \/ GoOn([Rest(TRUE) EXCEPT !.todo = {}]) /\ UNCHANGED store /\ Fault("deadline")
     \/ GoOn(Rest(TRUE)) /\ UNCHANGED store /\ Fault("store")
     \/ superseded /\ GoOn(Rest(FALSE)) /\ UNCHANGED <<store, faults>>
     \/ /\ ~superseded /\ GoOn(Rest(rec.step = "err")) /\ UNCHANGED faults
        /\ Txn([rows EXCEPT !.workspace[w].state = Conclusion.state,
                            !.workspace[w].backend = rec.backend,
                            !.op = [k \in Keys |->
                               IF k \in Completed THEN [@[k] EXCEPT !.state = Conclusion.op]
                               ELSE @[k]]],
               [NoScope EXCEPT !.workspaces = {w}, !.operations = Completed])
  /\ UNCHANGED <<held, shot, engine>>

-----------------------------------------------------------------------------
(* The controller stops and starts.                                        *)

Stopped == held' = NoCall /\ shot' = [s \in Sandboxes |-> NoShot] /\ rec' = IdleRound

Crash ==
  /\ ctl # "down" /\ Fault("crash")
  /\ ctl' = "down" /\ Stopped
  /\ UNCHANGED <<store, engine>>

(* OpenSQLite: counters and mounts are derived again, the heads only when  *)
(* the database was last written by a version without them.                *)
Start ==
  /\ ctl = "down" /\ ctl' = "starting"
  /\ \/ index' = Rebuilt(rows, index.head) /\ UNCHANGED faults
     \/ /\ Fault("upgrade")
        /\ \E oldest \in BOOLEAN : index' = Rebuilt(rows, RebuiltHeads(rows, oldest))
  /\ UNCHANGED <<rows, held, shot, rec, engine, refused>>

-----------------------------------------------------------------------------
(* The projects whose clients call.                                        *)
Tenants == IF "tenants" \in calls THEN Projects ELSE {CHOOSE p \in Projects : TRUE}

ApiCall ==
  /\ UNCHANGED calls
  /\ \E k \in Keys :
       \/ "environment" \in calls /\ \E e \in Environments : CreateEnvironment(k, e)
       \/ "connector" \in calls /\ \E c \in Connectors : CreateConnector(k, c)
       \/ /\ "sandbox" \in calls
          /\ \E p \in Tenants, w \in 0 .. MaxWorkspaces, c \in 0 .. MaxRequests :
               CreateSandbox(k, p, w, c)
       \/ "checkpoint" \in calls /\ \E s \in Sandboxes : Checkpoint(k, s)
       \/ "checkpoint" \in calls /\ \E c \in Keys : DeleteCheckpoint(k, c)
       \/ "workspace" \in calls /\ \E p \in Tenants : CreateWorkspace(k, p)
       \/ "workspace" \in calls /\ \E w \in Workspaces : DeleteWorkspace(k, w)

(* The call that holds the mutex, and the checkpoints in flight.           *)
HeldStep ==
  \/ EngineDeleteCheckpoint \/ DeleteCheckpointResult
  \/ EngineCreateWorkspace \/ CreateWorkspaceResult
  \/ EngineFindWorkspace \/ EngineDeleteWorkspace \/ DeleteWorkspaceResult

ShotStep == \E s \in Sandboxes : EngineCheckpoint(s) \/ CheckpointResult(s)

Round ==
  RoundOperations \/ RoundWorkspaces \/ RoundClaim \/ RoundFind \/ RoundDelete
    \/ RoundResult

Lifecycle == \E s \in Sandboxes, state \in SandboxStates \ {"none"} : SandboxWrite(s, state)

Next ==
  ApiCall \/ (UNCHANGED calls /\ (HeldStep \/ ShotStep \/ Round \/ Lifecycle \/ Crash \/ Start))

Spec == Init /\ [][Next]_vars

(* A call that holds the mutex goes on, the supervisor restarts the        *)
(* controller (the two are never possible together), and the reconciler's  *)
(* ticker keeps firing.  Nobody has to call.                               *)
FairSpec ==
  Spec /\ WF_vars(UNCHANGED calls /\ (HeldStep \/ Start)) /\ WF_vars(UNCHANGED calls /\ Round)

-----------------------------------------------------------------------------
(* The derived tables say what a scan of the rows would: the counters that *)
(* admission compares with the limits, and the owner of each workspace,    *)
(* survive every order of admissions, endings, crashes and restarts        *)
(* (sqlite_admission.go, maintained incrementally by syncEncodedState).    *)
IndexExact == index = Rebuilt(rows, index.head)

(* "The durable row insertion, not wall-clock time, defines which          *)
(* lifecycle attempt is current" (sqlite_lifecycle_heads.go): the head of  *)
(* a family is the last operation inserted for its owner, however late an  *)
(* older one is completed, until an upgrade rebuilds the heads; it is      *)
(* there while the owner is unsettled and the family of what would settle  *)
(* it has an operation that has not succeeded; and only an unsettled owner *)
(* has one.  A round that read its operations before the latest one may    *)
(* still settle the owner: the head is dropped, the operation stays        *)
(* unfinished, and nothing looks at it again.                              *)
HeadsExact ==
  \A f \in Families : \A id \in Owners(f) :
    /\ index.head[f][id] # 0 =>
         /\ Eligible(rows, f, id) /\ index.head[f][id] \in Members(rows, f, id)
         /\ "upgrade" \notin calls =>
              \A k \in Members(rows, f, id) : k <= index.head[f][id]
    /\ /\ Eligible(rows, f, id)
       /\ f = "create_workspace" => ~rows.workspace[id].cleanup
       /\ \E k \in Members(rows, f, id) : rows.op[k].state # "succeeded"
       => index.head[f][id] # 0

(* The limits hold of the rows themselves, whatever the counters say, with *)
(* an admission and its write split from the engine call (service.Limits). *)
WithinLimits ==
  /\ Cardinality(LiveSandboxes(rows)) <= MaxActiveTotal
  /\ \A p \in Projects :
       /\ Cardinality(InProject(LiveSandboxes(rows), rows.sandbox, p)) <= MaxActivePerProject
       /\ Cardinality(InProject(LiveWorkspaces(rows), rows.workspace, p)) <= MaxWorkspacesLive
  /\ Cardinality(rows.environment) <= MaxEnvironments
  /\ Cardinality(rows.connector) <= MaxConnectors

(* A transaction that the service builds after an engine call is never     *)
(* refused by the store: not for rows it did not declare, not for a mount  *)
(* another sandbox has, not for a broken claim.  A refusal there would     *)
(* leave the engine ahead of the ledger (UpdateRows, validateScopedChanges *)
(* and the primary key of active_workspace_mounts).                        *)
NeverRefused == ~refused

(* What the engine keeps is accounted for in the ledger: a volume has a    *)
(* row that is not settled as absent, and a snapshot has a checkpoint row, *)
(* a checkpoint in flight, or an operation that is not reported as a       *)
(* success (intent before effect, in CreateWorkspace and Checkpoint).      *)
EngineAccounted ==
  /\ \A w \in volume : WorkspaceCounts(rows.workspace[w])
  /\ \A k \in snapshot : rows.checkpoint[k] # 0 \/ rows.op[k].state \in {"running", "failed"}

(* THREAT_MODEL.md: the engine resource, or its absence, is confirmed      *)
(* before an operation is completed: creation succeeds with the volume in  *)
(* place and deletion with the volume gone.                                *)
ConfirmedBeforeCompleted ==
  [][\A k \in Keys :
       rows'.op[k].state = "succeeded" /\ rows.op[k].state # "succeeded" =>
         /\ rows'.op[k].kind = "create_workspace" => rows.op[k].resource \in volume
         /\ rows'.op[k].kind = "delete_workspace" => rows.op[k].resource \notin volume
         /\ rows'.op[k].kind = "checkpoint_sandbox" => k \in snapshot
         /\ rows'.op[k].kind = "delete_checkpoint" => rows.op[k].resource \notin snapshot]_vars

(* A workspace whose outcome is not known is settled in the end, whatever  *)
(* the faults, and however many restarts they take (reconcileWorkspaces).  *)
WorkspacesSettle ==
  \A w \in Workspaces :
    rows.workspace[w].state \in {"preparing", "deleting", "unknown"} ~>
      rows.workspace[w].state \in {"ready", "deleted", "failed"}
=============================================================================
