--------------------------- MODULE SandboxRecord ---------------------------
(***************************************************************************)
(* The controller's durable sandbox record and its lifecycle operations,   *)
(* as values (src/internal/domain, src/internal/service).                  *)
(*                                                                         *)
(* A record keeps what the lifecycle code branches on: the state, whether  *)
(* the backend identity is known, the generation of the node assignment (0 *)
(* when there is none), the cleanup target and the failure.  The revision  *)
(* is not a field: a holder of a record only ever asks whether it has been *)
(* written since, which SandboxLifecycle tracks for each holder.           *)
(***************************************************************************)
EXTENDS Naturals

CONSTANT MaxGeneration  \* the largest generation the node's clock can issue

ASSUME GenerationAssumption == MaxGeneration \in Nat \ {0}

(* "none" is a sandbox that was never requested.                           *)
SandboxStates ==
  {"none", "preparing", "running", "pausing", "standby", "resuming",
   "deleting", "deleted", "expired", "failed", "unknown"}

Terminal(state) == state \in {"deleted", "expired", "failed"}

CanTransition(from, to) ==
  \/ from = "preparing" /\ to \in {"running", "failed", "unknown"}
  \/ from = "running" /\ to \in {"pausing", "standby", "deleting", "expired", "unknown"}
  \/ from = "pausing" /\ to \in {"standby", "unknown", "failed"}
  \/ from = "standby" /\ to \in {"resuming", "running", "deleting", "expired", "unknown"}
  \/ from = "resuming" /\ to \in {"running", "unknown", "failed"}
  \/ from = "deleting" /\ to \in {"deleted", "expired", "unknown", "failed"}
  \/ from = "unknown" /\ to \in {"running", "standby", "deleting", "deleted", "expired", "failed"}

(* Failure codes that differ only in which call of one cleanup or of one   *)
(* transition failed are one code here.                                    *)
FailureCodes ==
  {"none", "capacity", "create", "attach", "transition", "inspection",
   "reconcile", "route", "missing", "missing_route", "cleanup"}

CleanupTargets == {"none", "deleted", "expired"}

Record ==
  [state: SandboxStates, backend: BOOLEAN, gen: 0 .. MaxGeneration,
   cleanup: CleanupTargets, failure: FailureCodes]

NoRecord ==
  [state |-> "none", backend |-> FALSE, gen |-> 0, cleanup |-> "none", failure |-> "none"]

With(s, state, failure) == [s EXCEPT !.state = state, !.failure = failure]

-----------------------------------------------------------------------------
(* The latest operation of each kind, by state.                            *)

OpKinds == {"create", "pause", "auto", "resume", "delete"}

OpStates == {"none", "running", "succeeded", "failed"}

(* The operations an observed state completes.                             *)
CompletedBy(state) ==
  CASE state = "running" -> {"create", "resume"}
    [] state = "standby" -> {"pause", "auto"}
    [] OTHER -> {}

Incomplete(candidates, kinds) ==
  {k \in kinds : candidates[k] \in {"running", "failed"}}

latestReconcileOperations(candidates, state) ==
  Incomplete(candidates, CompletedBy(state))
=============================================================================
