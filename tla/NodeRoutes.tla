----------------------------- MODULE NodeRoutes -----------------------------
(***************************************************************************)
(* The controller's route procedures (src/internal/service/node_routes.go) *)
(* as tables over the state of the sandbox's route.                        *)
(*                                                                         *)
(* Every procedure resolves the route, issues the administrative call that *)
(* the state calls for, and goes on until the state is one in which it is  *)
(* "done" or in which it gives up with an "error".  A table entry that is  *)
(* a route state is the state the next call leaves behind.  "absent" is a  *)
(* route the node does not know (HTTP 404).  A definition headed "Fault     *)
(* variant" is a plausible slip in the one that follows it.                *)
(***************************************************************************)

RouteStates == {"absent", "attaching", "ready", "draining", "standby", "released"}

(* attachNodeRoute: a bind of an attaching or ready route is replayed.     *)
attachNodeRoute ==
  [absent |-> "attaching", attaching |-> "ready", ready |-> "done",
   draining |-> "error", standby |-> "error", released |-> "error"]

(* prepareNodeRoutePause                                                   *)
prepareNodeRoutePause ==
  [absent |-> "error", attaching |-> "ready", ready |-> "draining",
   draining |-> "done", standby |-> "done", released |-> "error"]

(* completeNodeRouteStandby                                                *)
completeNodeRouteStandby ==
  [absent |-> "error", attaching |-> "error", ready |-> "error",
   draining |-> "standby", standby |-> "done", released |-> "error"]

(* Fault variant: a route left attaching is not brought to ready.          *)
resumeNodeRouteOnce ==
  [absent |-> "error", attaching |-> "error", ready |-> "done",
   draining |-> "standby", standby |-> "attaching", released |-> "error"]

(* resumeNodeRoute: a standby route is rebound under a new generation.     *)
resumeNodeRoute ==
  [absent |-> "error", attaching |-> "ready", ready |-> "done",
   draining |-> "standby", standby |-> "attaching", released |-> "error"]

(* removeNodeRoute                                                         *)
removeNodeRoute ==
  [absent |-> "done", attaching |-> "ready", ready |-> "draining",
   draining |-> "released", standby |-> "released", released |-> "absent"]

(* The first half of reconcileNodeRoute: a released route is removed.      *)
reconcileNodeRoute ==
  [absent |-> "done", attaching |-> "done", ready |-> "done",
   draining |-> "done", standby |-> "done", released |-> "absent"]

RouteMove ==
  [attach |-> attachNodeRoute, prep |-> prepareNodeRoutePause,
   standby |-> completeNodeRouteStandby, resumeRoute |-> resumeNodeRoute,
   remove |-> removeNodeRoute, settle |-> reconcileNodeRoute]

(* observeNodeRoute: whether an assigned route in this state calls for a   *)
(* repair, given the engine state that was observed.                       *)
observeNodeRoute(routeState, remote) ==
  \/ routeState \in {"absent", "released"}
  \/ remote = "running" /\ routeState # "ready"
  \/ remote = "standby" /\ routeState # "standby"
=============================================================================
