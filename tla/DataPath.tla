------------------------------ MODULE DataPath ------------------------------
(***************************************************************************)
(* The guest data path end to end: guest operations of the controller,     *)
(* the node relay with its ledger, and the lifecycle procedures that drain *)
(* and move the sandbox's route while operations are in flight.            *)
(*                                                                         *)
(* A lifecycle procedure holds the sandbox's fence and is a list of steps: *)
(* a route procedure of node_routes.go, each of whose calls to the node is *)
(* one step, or one call to the engine.  A call that fails ends the        *)
(* procedure in "unknown", and reconciliation starts the next one.         *)
(***************************************************************************)
EXTENDS GuestOps, NodeRoutes, Sequences

CONSTANTS
  Mixes,     \* what a behaviour is made of: guest operations, lifecycle
             \* calls and kinds of faults
  MaxFaults  \* bound on the faults of one behaviour

VARIABLES
  engine,  \* the engine's sandbox: running, standby or gone
  mix,     \* what this behaviour is made of
  faults   \* faults so far

controlVars == <<box, fence>>
vars == <<clock, relayVars, controlVars, guestVars, engine, mix, faults>>

BoxStates == {"running", "pausing", "standby", "resuming", "unknown", "deleting", "deleted"}

Procedures == {"prep", "standby", "resumeRoute", "remove", "pauseEngine", "resumeEngine",
               "deleteEngine"}

(* Type correctness of the controller's, the relay's and the engine's state. *)
TypeOK ==
  /\ clock \in 0 .. MaxClock
  /\ Ledger!TypeOK
  /\ boot \in 1 .. MaxBoots
  /\ draining \in BOOLEAN
  /\ DOMAIN used \subseteq Calls /\ \A c \in DOMAIN used : used[c] \in 0 .. MaxClock + 1
  /\ handler \in [Handlers -> HandlerStates]
  /\ ran \in [Calls -> 0 .. 2]
  /\ box \in [state: BoxStates, engine: Engines, generation: 0 .. MaxGeneration,
              cleanup: BOOLEAN]
  /\ Len(fence) <= 3 /\ \A i \in 1 .. Len(fence) : fence[i] \in Procedures
  /\ call \in [Calls -> CallStates]
  /\ copies \subseteq Capability
  /\ engine \in {"running", "standby", "gone"}
  /\ mix \in Mixes
  /\ faults \in 0 .. MaxFaults

(* A running sandbox whose route was attached under generation 1.          *)
Init ==
  LET e == CHOOSE x \in Engines : TRUE
      attached == [routes |-> [r \in {Route} |->
                     [owner |-> Owner, engine |-> e, generation |-> 1, state |-> "ready",
                      activity |-> 0]],
                   lastGeneration |-> 1]
  IN
  /\ clock = 0
  /\ state = attached /\ disk = attached /\ durable = {attached}
  /\ open = TRUE
  /\ lease = [h \in Handlers |-> Ledger!NoLease]
  /\ boot = 1 /\ draining = FALSE /\ used = <<>>
  /\ handler = [h \in Handlers |-> Idle]
  /\ ran = [c \in Calls |-> 0]
  /\ box = [state |-> "running", engine |-> e, generation |-> 1, cleanup |-> FALSE]
  /\ fence = <<>>
  /\ call = [c \in Calls |-> [at |-> "idle"]]
  /\ copies = {}
  /\ engine = "running"
  /\ mix \in Mixes
  /\ faults = 0

Fault(kind) == kind \in mix /\ faults < MaxFaults /\ faults' = faults + 1

-----------------------------------------------------------------------------
(* Lifecycle procedures.                                                   *)

(* beginTransitionLocked: the fence is taken, the row changes revision.    *)
Begin(to, cleanup, procedure) ==
  /\ fence = <<>>
  /\ box' = [box EXCEPT !.state = to, !.cleanup = cleanup]
  /\ fence' = procedure
  /\ UNCHANGED <<clock, relayVars, copies, engine, mix, faults>>

Pause ==
  /\ box.state = "running" /\ Active = {}
  /\ Begin("pausing", FALSE, <<"prep", "pauseEngine", "standby">>)
  /\ UNCHANGED call

Resume ==
  /\ box.state = "standby" /\ Active = {} /\ clock < Expiry
  /\ Begin("resuming", FALSE, <<"resumeEngine", "resumeRoute">>)
  /\ UNCHANGED call

cleanupSandboxOutsideLock == <<"prep", "deleteEngine", "remove">>

Delete ==
  /\ box.state \in {"running", "standby", "unknown"} /\ ~box.cleanup /\ Active = {}
  /\ Begin("deleting", TRUE, cleanupSandboxOutsideLock)
  /\ UNCHANGED call

(* An expired sandbox is cleaned up under its operations: their contexts   *)
(* are cancelled first.  beginExpirationLocked refuses a state that a      *)
(* restart has left half way.                                              *)
Expire ==
  /\ clock >= Expiry /\ ~box.cleanup /\ box.state \notin {"pausing", "resuming"}
  /\ Begin("deleting", TRUE, cleanupSandboxOutsideLock)
  /\ call' = [c \in Calls |-> IF c \in Active THEN [at |-> "ending"] ELSE call[c]]

(* Reconciliation continues a cleanup, or brings a route to the state the  *)
(* engine was observed in, once no operation is active.                    *)
Repair ==
  IF engine = "running" THEN <<"resumeRoute">> ELSE <<"prep", "standby">>

Reconcile ==
  \/ /\ box.cleanup /\ box.state # "deleted"
     /\ Begin("deleting", TRUE, cleanupSandboxOutsideLock)
     /\ UNCHANGED call
  \/ /\ ~box.cleanup /\ clock < Expiry /\ Active = {} /\ engine # "gone"
     /\ box.state \notin {"running", "standby"} \/ observeNodeRoute(state.routes[Route].state, engine)
     /\ Begin(box.state, FALSE, Repair)
     /\ UNCHANGED call

(* completeTransitionLocked, or the observation reconciliation persists.   *)
Complete ==
  IF box.cleanup THEN "deleted" ELSE IF engine = "running" THEN "running" ELSE "standby"

(* The procedure goes on; after its last step the row is completed.        *)
Proceed(row) ==
  LET rest == Tail(fence) IN
  /\ fence' = rest
  /\ box' = IF rest = <<>> THEN [row EXCEPT !.state = Complete] ELSE row

(* A call to the engine succeeds.  The service takes whatever identity a   *)
(* resume reports; the E2B client insists on the one it asked for, another *)
(* backend need not.                                                       *)
EngineCall ==
  /\ fence # <<>>
  /\ \/ /\ Head(fence) = "pauseEngine" /\ engine' = "standby" /\ Proceed(box)
     \/ /\ Head(fence) = "deleteEngine" /\ engine' = "gone" /\ Proceed(box)
     \/ /\ Head(fence) = "resumeEngine" /\ engine' = "running"
        /\ \E e \in Engines : Proceed([box EXCEPT !.engine = e])
  /\ UNCHANGED <<clock, relayVars, guestVars, mix, faults>>

(* One administrative call, as the procedure's table asks for it.  The     *)
(* ledger compares the generation; a failed sync of its directory costs a  *)
(* fault, and the procedure then sees an error.                            *)
RouteAdminCall(to) ==
  LET entry == state.routes[Route] IN
  /\ CASE to = "attaching" -> Ledger!Rebind(Route, entry.generation, box.engine, 0)
       [] to = "absent" -> Ledger!Remove(Route, entry.generation)
       [] OTHER -> Ledger!Transition(Route, entry.generation, entry.state, to)
  /\ UNCHANGED <<boot, draining, used, handler, ran>>

(* One step of a route procedure: resolve the route, which must not be     *)
(* older than the recorded assignment, and issue the call it asks for.     *)
RouteStep ==
  /\ fence # <<>>
  /\ Head(fence) \in DOMAIN RouteMove
  /\ open
  /\ LET entry == state.routes[Route]
         move  == RouteMove[Head(fence)][entry.state]
         known == [box EXCEPT !.generation = entry.generation]
     IN
     /\ entry.state = "absent" \/ entry.generation >= box.generation
     /\ move # "error"
     /\ IF move = "done"
        THEN Proceed(known) /\ UNCHANGED <<relayVars, faults, engine>>
        ELSE /\ RouteAdminCall(move)
             /\ IF state' = state
                THEN Fault("sync") /\ fence' = <<>> /\ box' = [known EXCEPT !.state = "unknown"]
                ELSE UNCHANGED <<fence, faults>> /\ box' = known
             /\ UNCHANGED engine
  /\ UNCHANGED <<clock, guestVars, mix>>

(* Whether the route procedure's next call is one the node would accept.   *)
Accepted ==
  LET entry == state.routes[Route]
      move  == RouteMove[Head(fence)][entry.state]
  IN
  /\ open
  /\ entry.state = "absent" \/ entry.generation >= box.generation
  /\ \/ move = "done"
     \/ move = "absent"
     \/ move = "attaching" /\ Ledger!CanRebind(Route, entry.generation, box.engine, 0)
     \/ Ledger!CanTransit(Route, entry.generation, entry.state, move)

(* failTransitionLocked: a refused call, or one the network or the engine  *)
(* fails, leaves the row unknown until reconciliation.                     *)
FailProcedure ==
  /\ fence # <<>>
  /\ IF Head(fence) \in DOMAIN RouteMove /\ ~Accepted THEN UNCHANGED faults ELSE Fault("call")
  /\ fence' = <<>>
  /\ box' = [box EXCEPT !.state = "unknown"]
  /\ UNCHANGED <<clock, relayVars, guestVars, engine, mix>>

(* The controller ends and is started again: its fence and its guest       *)
(* registrations were in memory; the row, the requests on their way and    *)
(* the node's leases stay.                                                 *)
ControllerRestart ==
  /\ Fault("controller")
  /\ fence # <<>> \/ Active # {}
  /\ fence' = <<>>
  /\ call' = [c \in Calls |-> IF c \in Active THEN [at |-> "done"] ELSE call[c]]
  /\ UNCHANGED <<clock, relayVars, box, copies, engine, mix>>

-----------------------------------------------------------------------------
Time ==
  /\ Tick
  /\ UNCHANGED <<relayVars, controlVars, engine, mix, faults>>

Guest ==
  /\ \/ \E c \in Calls \cap mix : acquireGuestOperation(c) \/ GuestStep(c) \/ Resend(c)
     \/ ValidatePortAccess
  /\ UNCHANGED <<clock, relayVars, controlVars, engine, mix, faults>>

Request ==
  /\ \E h \in Handlers, cap \in copies : Deliver(h, cap)
  /\ UNCHANGED <<clock, controlVars, engine, mix, faults>>

Handle ==
  /\ \E h \in Handlers : HandlerStep(h)
  /\ UNCHANGED <<clock, controlVars, guestVars, engine, mix, faults>>

Process ==
  /\ \/ BeginDrain /\ Fault("drain")
     \/ Killed /\ Fault("crash")
     \/ (Shutdown \/ Start) /\ UNCHANGED faults
  /\ UNCHANGED <<clock, controlVars, guestVars, engine, mix>>

Client ==
  \/ "pause" \in mix /\ Pause
  \/ "resume" \in mix /\ Resume
  \/ "delete" \in mix /\ Delete

Lifecycle == Expire \/ Reconcile \/ FailProcedure \/ EngineCall \/ RouteStep

Next ==
  Time \/ Guest \/ Request \/ Handle \/ Process \/ Client \/ Lifecycle \/ ControllerRestart

Spec == Init /\ [][Next]_vars

(* Handlers are bounded by the deadlines they set, a supervisor restarts   *)
(* the relay, operations end by their deadlines, and the reconciler keeps  *)
(* running.                                                                *)
FairSpec ==
  /\ Spec
  /\ WF_vars(Guest /\ \E c \in Active : GuestStep(c))
  /\ \A h \in Handlers : WF_vars(Handle /\ HandlerStep(h))
  /\ WF_vars(Process /\ (Start \/ Shutdown))
  /\ WF_vars(Lifecycle)

-----------------------------------------------------------------------------
(* An operation runs only in the engine it was admitted for, however long  *)
(* its request was on its way and whatever pauses, resumes, restarts and   *)
(* undone ledger writes came between ("An old token therefore cannot       *)
(* address a new VM assignment", THREAT_MODEL.md).                         *)
RunsWhereAdmitted ==
  \A h \in Handlers : handler[h].at \in {"bound", "running"} =>
    /\ handler[h].cap.engine = lease[h].engine
    /\ handler[h].cap.engine = state.routes[Route].engine

(* The engine performs a capability's operation at most once, although the *)
(* transport may send the request again, the replay cache forgets expired  *)
(* identifiers and it compares with a clock it read before its mutex.      *)
SingleUse == \A c \in Calls : ran[c] <= 1

(* The relay hands no operation to the engine adapter at or after the      *)
(* sandbox's expiry: binding, capability and the relay's last check carry  *)
(* the deadline along the whole path, whatever delays the request.  (The   *)
(* adapter may take its time after that check, so the operation can reach  *)
(* the engine later.)                                                      *)
NeverAdmittedLate ==
  [][\A h \in Handlers :
       handler'[h].at = "bound" /\ handler[h].at # "bound" => clock < Expiry]_vars

(* The row becomes standby or deleted only when no operation of the relay  *)
(* holds a lease: a procedure does not complete under running work, even   *)
(* when a restarted controller no longer knows of it.                      *)
QuietWhenStopped ==
  [][box'.state \in {"standby", "deleted"} /\ box.state # box'.state
       => \A h \in Handlers : lease'[h] = Ledger!NoLease]_vars

(* A lease belongs to a handler that is past AcquireOperation: no refusal, *)
(* crash or restart leaves one behind, so a drain is not blocked forever.  *)
LeasesHeld ==
  \A h \in Handlers :
    lease[h] # Ledger!NoLease <=> handler[h].at \in {"leased", "timed", "consumed", "bound", "running"}

(* A pause does not hang: the row leaves pausing and unknown, although the *)
(* node refuses standby while a lease is held, calls fail, and relay and   *)
(* controller restart.  Exempt are a ledger file that went back behind the *)
(* recorded assignment and an exhausted generation clock, which the        *)
(* controller cannot repair, and an expiry that finds the row in pausing   *)
(* without a fence (see ExpiryConverges in SandboxLifecycle).              *)
PauseSettles ==
  box.state = "pausing" ~>
    \/ box.state \in {"running", "standby", "deleting", "deleted"}
    \/ state.routes[Route].generation < box.generation
    \/ state.lastGeneration = MaxGeneration
    \/ clock >= Expiry /\ box.state = "pausing" /\ fence = <<>>
=============================================================================
