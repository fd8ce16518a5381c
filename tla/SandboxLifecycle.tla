-------------------------- MODULE SandboxLifecycle --------------------------
(***************************************************************************)
(* The life of one sandbox in the controller (src/internal/service).       *)
(*                                                                         *)
(* API threads and the reconciler share one durable record.  A thread      *)
(* reads and writes it under the service mutex, and makes its engine and   *)
(* node calls outside it, behind the in-memory fence                       *)
(* activeBackendMutations; only GetSandbox keeps the mutex while it calls. *)
(* Each region under the mutex is one action, and so is each call.         *)
(* A call may fail, or take effect and lose its answer; a store write may  *)
(* fail; the process may crash, which loses the fence, the guest           *)
(* registrations and every thread, and restarts with a reconciliation      *)
(* that must succeed before the API is served (src/cmd/brezeld).           *)
(*                                                                         *)
(* A definition headed "Fault variant" is a plausible slip in the one that *)
(* follows it; no specification uses it.                                   *)
(***************************************************************************)
EXTENDS SandboxRecord, NodeRoutes

CONSTANTS
  Api,          \* API threads
  Rec,          \* the reconciler thread
  Nobody,       \* holder of a free mutex
  Mixes         \* what a behaviour is made of: API calls, kinds of faults, and
                \* "overlap" (API threads run side by side), "twice" (a second
                \* fault may happen) and "auto" (an inactivity policy)

ASSUME ThreadAssumption == Rec \notin Api /\ Nobody \notin Api \cup {Rec}

ASSUME MixAssumption ==
  \A m \in Mixes : m \subseteq
    {"pause", "resume", "delete", "get", "guest", "overlap", "twice", "auto",
     "engine_error", "engine_lost", "late_create", "vm_lost",
     "route_error", "route_lost", "store", "deadline", "crash"}

VARIABLES
  ctl,      \* the controller process: down, starting or up
  sb,       \* the durable sandbox record
  op,       \* the latest durable operation of each kind
  mu,       \* the thread that keeps the service mutex across a call
  fence,    \* the sandbox is in activeBackendMutations
  guest,    \* a guest operation is registered in activeGuestOps, and may be cancelled
  task,     \* what each thread is doing
  round,    \* the reconciler's operation list and result of this round
  vm,       \* the engine's microVM, "dead" when only its row is left
  route,    \* the node's route of this sandbox
  clock,    \* the node's generation clock
  expired,  \* ExpiresAt has passed
  faults,   \* faults that may still happen
  mix       \* what this behaviour is made of

controller == <<ctl, sb, op, mu, fence, guest, task, round>>
remote == <<vm, route, clock>>
vars == <<controller, remote, expired, faults>>

Threads == Api \cup {Rec}

(* The calls of each procedure, in order.                                  *)
Plan ==
  [create |-> [create |-> "attach", attach |-> "done"],
   pause |-> [prep |-> "pause", pause |-> "standby", standby |-> "done"],
   auto |-> [prep |-> "pause", pause |-> "standby", standby |-> "done"],
   resume |-> [resume |-> "resumeRoute", resumeRoute |-> "done"],
   delete |-> [find |-> "recover", recover |-> "prep", prep |-> "delete",
               delete |-> "remove", remove |-> "done"],
   cleanup |-> [find |-> "recover", recover |-> "prep", prep |-> "delete",
                delete |-> "remove", remove |-> "done"],
   getCleanup |-> [find |-> "delete", delete |-> "remove", remove |-> "done"],
   get |-> [look |-> "done"],
   observe |-> [look |-> "recheck", lookRoute |-> "apply"],
   missing |-> [remove |-> "done"],
   repairRunning |-> [settle |-> "attach", attach |-> "resumeRoute", resumeRoute |-> "done"],
   repairStandby |-> [settle |-> "attach", attach |-> "prep", prep |-> "standby",
                      standby |-> "done"],
   repairUnknown |-> [settle |-> "attach", attach |-> "done"]]

(* Procedures that run behind the fence, and those that keep the mutex.    *)
FencedKinds ==
  {"create", "pause", "auto", "resume", "delete", "cleanup", "missing",
   "repairRunning", "repairStandby", "repairUnknown"}

LockedKinds == {"getCleanup", "get"}

(* Regions of the reconciler that a procedure does not contain.            *)
RoundSteps == {"begin", "claim", "claimMissing", "autoStandby", "end"}

Kinds == FencedKinds \cup LockedKinds \cup {"observe", "round", "none"}

Steps ==
  {"idle", "create", "attach", "prep", "pause", "standby", "resume", "resumeRoute",
   "find", "recover", "delete", "remove", "look", "recheck", "lookRoute", "apply",
   "settle", "done", "failed"} \cup RoundSteps

Seen == {"none", "running", "standby", "unknown", "missing", "error", "capacity"}

(* kind and step say where the thread is, s is its copy of the record,     *)
(* fresh whether nobody has written the record since s was read, seen the  *)
(* engine state it observed, verdict what it concluded about the route.    *)
Task ==
  [kind: Kinds, step: Steps, s: Record, fresh: BOOLEAN, seen: Seen,
   verdict: {"none", "keep", "repair", "error"}]

Start(kind, step, s) ==
  [kind |-> kind, step |-> step, s |-> s, fresh |-> TRUE, seen |-> "none",
   verdict |-> "none"]

Idle == Start("none", "idle", NoRecord)

InRound(step) == Start("round", step, NoRecord)

NoRound == [cands |-> [k \in OpKinds |-> "none"], moved |-> {}, err |-> FALSE]

-----------------------------------------------------------------------------
(* Faults, the mutex and durable writes.                                   *)

Fault(kind) == kind \in mix /\ faults > 0 /\ faults' = faults - 1

MutexFree == ctl # "down" /\ mu = Nobody

Becomes(t, next) == task' = [task EXCEPT ![t] = next]

(* A thread that holds a copy of the record now holds an old one.          *)
Stale(held) == IF held.kind \in {"none", "round"} THEN held ELSE [held EXCEPT !.fresh = FALSE]

(* A store transaction that writes the record `next` and sets the          *)
(* operations of `kinds` to `value`: every other thread's copy of the      *)
(* record is stale from here on.                                           *)
Write(t, next, kinds, value, after) ==
  /\ sb' = next
  /\ op' = [k \in OpKinds |-> IF k \in kinds THEN value ELSE op[k]]
  /\ task' = [u \in Threads |-> IF u = t THEN after ELSE Stale(task[u])]

(* What a write or an error of thread t means for the reconciler's round:  *)
(* its own errors are remembered, operations written by others are newer   *)
(* than its list.                                                          *)
Report(t, kinds, err) ==
  round' = IF t = Rec THEN [round EXCEPT !.err = @ \/ err]
           ELSE IF task[Rec] = Idle THEN round
           ELSE [round EXCEPT !.moved = @ \cup kinds]

(* Where a thread goes when its procedure is over.                         *)
Home(t) ==
  IF t # Rec THEN Idle
  ELSE InRound(IF task[t].kind = "auto" \/ task[t].step = "autoStandby"
               THEN "end" ELSE "autoStandby")

(* Fault variant: a failed procedure leaves its fence up.                  *)
UnfenceOnSuccess(t) ==
  /\ fence' = IF task[t].kind \in FencedKinds /\ task[t].step = "done" THEN FALSE ELSE fence
  /\ mu' = IF mu = t THEN Nobody ELSE mu

(* delete(activeBackendMutations, key), and the deferred mu.Unlock.        *)
Unfence(t) ==
  /\ fence' = IF task[t].kind \in FencedKinds THEN FALSE ELSE fence
  /\ mu' = IF mu = t THEN Nobody ELSE mu

(* A procedure ends without writing, or by writing its result.             *)
Return(t, err) ==
  /\ Unfence(t) /\ Becomes(t, Home(t)) /\ Report(t, {}, err)
  /\ UNCHANGED <<sb, op, faults>>

Conclude(t, next, kinds, value, err) ==
  /\ Unfence(t)
  /\ \/ /\ Write(t, next, kinds, value, Home(t)) /\ Report(t, kinds, err)
        /\ UNCHANGED faults
     \/ /\ Fault("store") /\ Becomes(t, Home(t)) /\ Report(t, {}, TRUE)
        /\ UNCHANGED <<sb, op>>

(* beginTransitionLocked, then the fence: the intent is durable before the *)
(* first call.  A failed write leaves no trace.                            *)
Begin(t, kind, step, next) ==
  /\ Write(t, next, {kind}, "running", Start(kind, step, next))
  /\ Report(t, {kind}, FALSE)
  /\ fence' = TRUE
  /\ UNCHANGED <<ctl, mu, guest, faults>>

(* beginExpirationLocked                                                   *)
Expiring(s) == [s EXCEPT !.state = "deleting", !.cleanup = "expired"]

(* Fault variant: only a live sandbox expires, not an unknown one.         *)
CanExpireLive(s) == s.state \in {"running", "standby"}

CanExpire(s) == CanTransition(s.state, "deleting")

(* cancelActiveGuestOperationsLocked: the operation ends soon, but is      *)
(* still registered.                                                       *)
Cancelled == IF guest = "none" THEN "none" ELSE "cancelled"

-----------------------------------------------------------------------------
(* The API calls.  A refused call changes nothing and is a stuttering      *)
(* step, as is the replay of an idempotency key.                           *)

Called(t) ==
  /\ ctl = "up" /\ mu = Nobody /\ task[t] = Idle
  /\ "overlap" \in mix \/ \A u \in Api : task[u] = Idle

Ready(t, call) == Called(t) /\ call \in mix

CreateSandbox(t) ==
  /\ Called(t)
  /\ sb.state = "none"
  /\ Begin(t, "create", "create", [sb EXCEPT !.state = "preparing"])
  /\ UNCHANGED <<remote, expired>>

Pause(t) ==
  /\ Ready(t, "pause")
  /\ ~fence /\ sb.state = "running" /\ guest = "none"
  /\ Begin(t, "pause", "prep", With(sb, "pausing", "none"))
  /\ UNCHANGED <<remote, expired>>

(* MaxGeneration bounds the resumes: one is asked for only while the clock *)
(* has a generation left for it and for a repair after each fault.         *)
Resume(t) ==
  /\ Ready(t, "resume") /\ clock + faults < MaxGeneration
  /\ ~fence /\ sb.state = "standby" /\ guest = "none"
  /\ Begin(t, "resume", "resume", With(sb, "resuming", "none"))
  /\ UNCHANGED <<remote, expired>>

Delete(t) ==
  /\ Ready(t, "delete")
  /\ ~fence /\ guest = "none" /\ CanTransition(sb.state, "deleting")
  /\ Begin(t, "delete", "find",
           [With(sb, "deleting", "none") EXCEPT !.cleanup = "deleted"])
  /\ UNCHANGED <<remote, expired>>

(* Fault variant: GetSandbox does not look at the fence.                   *)
GetSandboxUnfenced(t) ==
  /\ Ready(t, "get")
  /\ sb.state # "none" /\ ~Terminal(sb.state)
  /\ sb.cleanup = "none" /\ ~expired /\ sb.backend /\ guest = "none"
  /\ mu' = t
  /\ Becomes(t, Start("get", "look", sb))
  /\ UNCHANGED <<ctl, sb, op, round, fence, guest, remote, expired, faults>>

(* GetSandbox repairs what it reads, under the mutex: it finishes a        *)
(* pending cleanup, expires, or observes the engine.  The expiry cancels   *)
(* the guest operations first, even if its write then fails.               *)
GetSandbox(t) ==
  /\ Ready(t, "get")
  /\ ~fence /\ sb.state # "none" /\ ~Terminal(sb.state)
  /\ \/ /\ sb.cleanup # "none" /\ mu' = t
        /\ Becomes(t, Start("getCleanup", "find", sb))
        /\ UNCHANGED <<sb, op, round, guest, faults>>
     \/ /\ sb.cleanup = "none" /\ expired /\ CanExpire(sb) /\ mu' = t
        /\ Write(t, Expiring(sb), {}, "none", Start("getCleanup", "find", Expiring(sb)))
        /\ Report(t, {}, FALSE)
        /\ guest' = Cancelled /\ UNCHANGED faults
     \/ /\ sb.cleanup = "none" /\ expired /\ CanExpire(sb) /\ Fault("store")
        /\ guest' = Cancelled /\ UNCHANGED <<sb, op, mu, task, round>>
     \/ /\ sb.cleanup = "none" /\ ~expired /\ sb.backend /\ guest = "none" /\ mu' = t
        /\ Becomes(t, Start("get", "look", sb))
        /\ UNCHANGED <<sb, op, round, guest, faults>>
  /\ UNCHANGED <<ctl, fence, remote, expired>>

(* acquireGuestOperation and its release.  With an inactivity policy both  *)
(* write the record, if only its activity time and revision.               *)
Touch ==
  IF "auto" \in mix /\ sb.state \in {"running", "standby"}
  THEN task' = [u \in Threads |-> Stale(task[u])]
  ELSE task' = task

AcquireGuestOperation ==
  /\ ctl = "up" /\ mu = Nobody /\ "guest" \in mix
  /\ guest = "none" /\ ~fence /\ ~expired
  /\ sb.state \in {"running", "standby"} /\ sb.backend
  /\ guest' = "running"
  /\ Touch
  /\ UNCHANGED <<ctl, sb, op, mu, fence, round, remote, expired, faults>>

ReleaseGuestOperation ==
  /\ MutexFree
  /\ guest # "none"
  /\ guest' = "none"
  /\ Touch
  /\ UNCHANGED <<ctl, sb, op, mu, fence, round, remote, expired, faults>>

-----------------------------------------------------------------------------
(* Calls to the engine and to the node.                                    *)

(* The current call answered: go on with the next one.                     *)
Proceed(t, s) ==
  Becomes(t, [task[t] EXCEPT !.s = s, !.step = Plan[task[t].kind][@]])

(* The current call failed: the procedure is over.                         *)
Abort(t, s) == Becomes(t, [task[t] EXCEPT !.s = s, !.step = "failed"])

At(t, step) == ctl # "down" /\ task[t].step = step

(* Fault variant: a route without a saved assignment is not looked for.    *)
NeededUnrecovered(kind, step, s) ==
  CASE step = "find" -> ~s.backend
    [] step = "recover" -> FALSE
    [] step = "delete" -> s.backend
    [] step = "remove" -> s.gen # 0
    [] step = "prep" /\ kind \in {"delete", "cleanup"} -> s.gen # 0
    [] OTHER -> TRUE

(* Calls that the record does not need are passed over.                    *)
Needed(kind, step, s) ==
  CASE step = "find" -> ~s.backend
    [] step = "recover" -> s.gen = 0
    [] step = "delete" -> s.backend
    [] step = "remove" -> s.gen # 0
    [] step = "prep" /\ kind \in {"delete", "cleanup"} -> s.gen # 0
    [] OTHER -> TRUE

Skip(t) ==
  /\ ctl # "down"
  /\ ~Needed(task[t].kind, task[t].step, task[t].s)
  /\ Proceed(t, task[t].s)
  /\ UNCHANGED <<ctl, sb, op, mu, fence, guest, round, remote, expired, faults>>

(* A mutating engine call that turns the microVM into `after`.             *)
EngineCall(t, after, s) ==
  \/ vm' = after /\ Proceed(t, s) /\ UNCHANGED faults
  \/ vm' = after /\ Abort(t, task[t].s) /\ Fault("engine_lost")
  \/ vm' = vm /\ Abort(t, task[t].s) /\ Fault("engine_error")

EngineRefuses(t) == vm' = vm /\ Abort(t, task[t].s) /\ UNCHANGED faults

(* Without an answer to Create the engine may also still be at work.       *)
EngineCreate(t) ==
  \/ EngineCall(t, "running", [task[t].s EXCEPT !.backend = TRUE])
  \/ vm' = "pending" /\ Abort(t, task[t].s) /\ Fault("late_create")
  \/ /\ vm' = vm
     /\ Becomes(t, [task[t] EXCEPT !.step = "failed", !.seen = "capacity"])
     /\ UNCHANGED faults

EnginePause(t) ==
  IF vm = "running" THEN EngineCall(t, "paused", task[t].s) ELSE EngineRefuses(t)

EngineResume(t) ==
  IF vm = "paused" /\ ~expired THEN EngineCall(t, "running", task[t].s) ELSE EngineRefuses(t)

(* A microVM that is not there counts as deleted.                          *)
EngineDelete(t) ==
  EngineCall(t, IF vm = "pending" THEN vm ELSE "absent", task[t].s)

EngineMutation(t) ==
  /\ \/ At(t, "create") /\ EngineCreate(t)
     \/ At(t, "pause") /\ EnginePause(t)
     \/ At(t, "resume") /\ EngineResume(t)
     \/ At(t, "delete") /\ task[t].s.backend /\ EngineDelete(t)
  /\ UNCHANGED <<ctl, sb, op, mu, fence, guest, round, route, clock, expired>>

(* What Inspect and Find report of the microVM.  A row that says running   *)
(* without a guest is an error: its health probe fails.  Only a proof that *)
(* is at most guestLiveTTL old hides it.                                   *)
Observations ==
  CASE vm = "running" -> {"running"}
    [] vm = "paused" -> {"standby"}
    [] vm = "dead" -> {"error", "running"}
    [] OTHER -> {"missing"}

(* Find for cleanup: a confirmed absence is an answer.                     *)
EngineFind(t) ==
  /\ At(t, "find") /\ ~task[t].s.backend
  /\ \/ /\ \E seen \in Observations \ {"error"} :
             Proceed(t, [task[t].s EXCEPT !.backend = seen # "missing"])
        /\ UNCHANGED faults
     \/ /\ Abort(t, task[t].s)
        /\ IF "error" \in Observations THEN UNCHANGED faults ELSE Fault("engine_error")
  /\ UNCHANGED <<ctl, sb, op, mu, fence, guest, round, remote, expired>>

(* Inspect, or Find while the backend identity is not known.               *)
EngineLook(t) ==
  /\ At(t, "look")
  /\ \E seen \in Observations \cup {"error", "unknown"} :
       /\ IF seen \in Observations THEN UNCHANGED faults ELSE Fault("engine_error")
       /\ Becomes(t, [task[t] EXCEPT
                        !.seen = seen,
                        !.s.backend = @ \/ seen \notin {"missing", "error"},
                        !.step = Plan[task[t].kind]["look"]])
  /\ UNCHANGED <<ctl, sb, op, mu, fence, guest, round, remote, expired>>

(* One administrative call of a route procedure: resolve the route, then   *)
(* bring it one state further, or be done, or give up.  Bind and Rebind    *)
(* draw a generation from the node's clock.                                *)
RouteSteps == DOMAIN RouteMove

NextGeneration(to) == IF to = "attaching" THEN clock + 1 ELSE IF to = "absent" THEN 0 ELSE route.gen

(* The copy of the record after the resolve, and after a call answered.    *)
Resolved(t) ==
  IF \/ task[t].step = "attach" /\ route.state \notin {"attaching", "ready"}
     \/ route.state = "absent" /\ task[t].step \notin {"remove", "settle"}
  THEN task[t].s
  ELSE [task[t].s EXCEPT !.gen = route.gen]

AfterRoute(t, to) ==
  IF RouteMove[task[t].step][to] # "done" THEN task[t].step
  ELSE IF task[t].step = "settle" /\ to # "absent" THEN Plan[task[t].kind]["attach"]
  ELSE Plan[task[t].kind][task[t].step]

Moves(t, to) ==
  /\ route' = [state |-> to, gen |-> NextGeneration(to)]
  /\ clock' = IF to = "attaching" THEN clock + 1 ELSE clock

RouteCall(t) ==
  LET step == task[t].step
      s == task[t].s
      unassigned == s.gen = 0 /\ step # "attach"
      move == IF unassigned /\ step # "settle" THEN "error" ELSE RouteMove[step][route.state]
  IN
  /\ ctl # "down" /\ step \in RouteSteps /\ Needed(task[t].kind, step, s)
  /\ \/ (* repair of a sandbox without an assignment starts with a bind    *)
        /\ unassigned /\ step = "settle"
        /\ Becomes(t, [task[t] EXCEPT !.step = "attach"])
        /\ UNCHANGED <<route, clock, faults>>
     \/ (* nothing left to do                                              *)
        /\ ~unassigned /\ move = "done"
        /\ Becomes(t, [task[t] EXCEPT !.s.gen = route.gen, !.step = AfterRoute(t, route.state)])
        /\ UNCHANGED <<route, clock, faults>>
     \/ (* the route cannot be brought to where the procedure wants it     *)
        /\ \/ move = "error"
           \/ move = "attaching" /\ clock = MaxGeneration
        /\ Abort(t, IF unassigned THEN s ELSE Resolved(t))
        /\ UNCHANGED <<route, clock, faults>>
     \/ (* the call answers                                                *)
        /\ ~unassigned /\ move \in RouteStates
        /\ move = "attaching" => clock < MaxGeneration
        /\ Moves(t, move)
        /\ Becomes(t, [task[t] EXCEPT !.s.gen = NextGeneration(move), !.step = AfterRoute(t, move)])
        /\ UNCHANGED faults
     \/ (* the call takes effect and its answer is lost                    *)
        /\ ~unassigned /\ move \in RouteStates
        /\ move = "attaching" => clock < MaxGeneration
        /\ Moves(t, move) /\ Abort(t, Resolved(t)) /\ Fault("route_lost")
     \/ (* the resolve or the call fails                                   *)
        /\ ~unassigned
        /\ \E copy \in {s, Resolved(t)} : Abort(t, copy)
        /\ Fault("route_error")
        /\ UNCHANGED <<route, clock>>
  /\ UNCHANGED <<ctl, sb, op, mu, fence, guest, round, vm, expired>>

(* recoverNodeRouteForCleanup: adopt a route whose bind was never saved.   *)
RouteRecover(t) ==
  /\ At(t, "recover") /\ task[t].s.gen = 0
  /\ \/ Proceed(t, [task[t].s EXCEPT !.gen = route.gen]) /\ UNCHANGED faults
     \/ Abort(t, task[t].s) /\ Fault("route_error")
  /\ UNCHANGED <<ctl, sb, op, mu, fence, guest, round, remote, expired>>

(* observeNodeRoute: read only.                                            *)
RouteLook(t) ==
  /\ At(t, "lookRoute")
  /\ \/ LET assigned == task[t].s.gen # 0
            repair == ~assigned \/ observeNodeRoute(route.state, task[t].seen)
        IN  /\ Becomes(t, [task[t] EXCEPT
                             !.step = "apply",
                             !.s.gen = IF assigned THEN route.gen ELSE 0,
                             !.verdict = IF repair THEN "repair" ELSE "keep"])
            /\ UNCHANGED faults
     \/ /\ task[t].s.gen # 0
        /\ Becomes(t, [task[t] EXCEPT !.step = "apply", !.verdict = "error"])
        /\ Fault("route_error")
  /\ UNCHANGED <<ctl, sb, op, mu, fence, guest, round, remote, expired>>

-----------------------------------------------------------------------------
(* Results of the API calls, under the mutex.                              *)

Ends(t, kinds) ==
  /\ ctl # "down" /\ mu \in {Nobody, t}
  /\ task[t].kind \in kinds /\ task[t].step \in {"done", "failed"}

Succeeded(t) == task[t].step = "done"

CreateResult(t) ==
  LET s == task[t].s IN
  /\ Ends(t, {"create"})
  /\ CASE Succeeded(t) ->
            Conclude(t, With(s, "running", "none"), {"create"}, "succeeded", FALSE)
       [] task[t].seen = "capacity" ->
            Conclude(t, With(s, "failed", "capacity"), {"create"}, "failed", FALSE)
       [] OTHER ->
            Conclude(t, With(s, "unknown", IF s.backend THEN "attach" ELSE "create"),
                     {"create"}, "failed", FALSE)
  /\ UNCHANGED <<ctl, guest, remote, expired>>

(* completeTransitionLocked and failTransitionLocked, for Pause, Resume,   *)
(* Delete and automatic standby.  Neither compares revisions.              *)
Target == [pause |-> "standby", auto |-> "standby", resume |-> "running", delete |-> "deleted"]

TransitionResult(t) ==
  LET kind == task[t].kind IN
  /\ Ends(t, DOMAIN Target)
  /\ IF Succeeded(t)
     THEN Conclude(t, With(task[t].s, Target[kind], "none"), {kind}, "succeeded", FALSE)
     ELSE Conclude(t, With(task[t].s, "unknown", "transition"), {kind}, "failed", TRUE)
  /\ UNCHANGED <<ctl, guest, remote, expired>>

(* The end of reconcileCleanupLocked.                                      *)
GetCleanupResult(t) ==
  LET s == task[t].s IN
  /\ Ends(t, {"getCleanup"})
  /\ IF Succeeded(t)
     THEN Conclude(t, With(s, s.cleanup, "none"),
                   IF s.cleanup = "deleted" /\ op.delete # "none" THEN {"delete"} ELSE {},
                   "succeeded", FALSE)
     ELSE Conclude(t, With(s, "unknown", "cleanup"), {}, "none", FALSE)
  /\ UNCHANGED <<ctl, guest, remote, expired>>

(* The end of GetSandbox's own observation.                                *)
GetResult(t) ==
  LET s == task[t].s IN
  /\ Ends(t, {"get"})
  /\ CASE task[t].seen = "missing" -> Conclude(t, With(s, "failed", "missing"), {}, "none", FALSE)
       [] task[t].seen = "error" -> Conclude(t, With(s, "unknown", "inspection"), {}, "none", FALSE)
       [] task[t].seen = s.state -> Return(t, FALSE)
       [] OTHER -> Conclude(t, With(s, task[t].seen, "none"), {}, "none", FALSE)
  /\ UNCHANGED <<ctl, guest, remote, expired>>

-----------------------------------------------------------------------------
(* The reconciler: one round observes the sandbox, repairs it or cleans it *)
(* up, and then applies the inactivity policy.                             *)

(* Reconcile lists the operations before it looks at the sandbox.          *)
RoundStart ==
  /\ ctl # "down" /\ task[Rec] = Idle
  /\ Becomes(Rec, InRound("begin"))
  /\ round' = [NoRound EXCEPT !.cands = op]
  /\ UNCHANGED <<ctl, sb, op, mu, fence, guest, remote, expired, faults>>

Goto(next) == Becomes(Rec, next) /\ UNCHANGED <<sb, op, fence, mu, round, faults>>

(* Expire from inside a round: on a refusal the round reports an error.    *)
RoundExpire ==
  IF ~CanExpire(sb) THEN Return(Rec, TRUE)
  ELSE /\ UNCHANGED <<fence, mu>>
       /\ \/ /\ Write(Rec, Expiring(sb), {}, "none", InRound("claim"))
             /\ UNCHANGED <<round, faults>>
          \/ /\ Fault("store") /\ Becomes(Rec, Home(Rec)) /\ Report(Rec, {}, TRUE)
             /\ UNCHANGED <<sb, op>>

(* The first region of reconcileSandboxBackendState.  At the expiry it     *)
(* cancels the guest operations, whatever becomes of the write.            *)
Overdue == ~fence /\ ~Terminal(sb.state) /\ sb.cleanup = "none" /\ expired

RoundBegin ==
  /\ MutexFree /\ task[Rec].step = "begin"
  /\ CASE sb.state = "none" \/ Terminal(sb.state) \/ fence -> Goto(InRound("autoStandby"))
       [] sb.cleanup # "none" -> Goto(InRound("claim"))
       [] expired -> RoundExpire
       [] guest # "none" -> Goto(InRound("autoStandby"))
       [] OTHER -> Goto(Start("observe", "look", sb))
  /\ guest' = IF Overdue THEN Cancelled ELSE guest
  /\ UNCHANGED <<ctl, remote, expired>>

(* Fault variant: the reconciler starts a cleanup across another's fence.  *)
RoundClaimUnfenced ==
  /\ MutexFree /\ task[Rec].step = "claim"
  /\ IF Terminal(sb.state) \/ sb.cleanup = "none" \/ guest # "none"
     THEN Return(Rec, FALSE)
     ELSE /\ Becomes(Rec, Start("cleanup", "find", sb)) /\ fence' = TRUE
          /\ UNCHANGED <<sb, op, mu, round, faults>>
  /\ UNCHANGED <<ctl, guest, remote, expired>>

(* The first region of reconcileSandboxCleanup.                            *)
RoundClaim ==
  /\ MutexFree /\ task[Rec].step = "claim"
  /\ IF Terminal(sb.state) \/ sb.cleanup = "none" \/ fence \/ guest # "none"
     THEN Return(Rec, FALSE)
     ELSE /\ Becomes(Rec, Start("cleanup", "find", sb)) /\ fence' = TRUE
          /\ UNCHANGED <<sb, op, mu, round, faults>>
  /\ UNCHANGED <<ctl, guest, remote, expired>>

(* Fault variants: the observation is not compared with the current        *)
(* record, or only with its revision-free part.                            *)
SupersededNever == FALSE

SupersededIfTerminal == Terminal(sb.state) \/ sb.cleanup # "none"

Superseded == ~task[Rec].fresh \/ Terminal(sb.state) \/ sb.cleanup # "none"

(* markUnknownObservationLocked: marking what is already so marked is no   *)
(* write.                                                                  *)
MarkUnknown(s, code) ==
  IF With(s, "unknown", code) = sb THEN Return(Rec, TRUE)
  ELSE Conclude(Rec, With(s, "unknown", code), {}, "none", TRUE)

(* The region between the engine's answer and the look at the route.       *)
RoundRecheck ==
  /\ MutexFree /\ task[Rec].step = "recheck"
  /\ CASE Superseded \/ fence \/ guest # "none" -> Return(Rec, FALSE)
       [] expired -> RoundExpire
       [] task[Rec].seen = "missing" ->
            Goto(Start("observe", "claimMissing", sb))
       [] task[Rec].seen = "error" -> MarkUnknown(sb, "reconcile")
       [] OTHER -> Goto([task[Rec] EXCEPT !.step = "lookRoute"])
  /\ UNCHANGED <<ctl, guest, remote, expired>>

(* The first region of reconcileMissingSandbox.                            *)
RoundClaimMissing ==
  /\ MutexFree /\ task[Rec].step = "claimMissing"
  /\ IF Superseded \/ fence \/ guest # "none" THEN Return(Rec, FALSE)
     ELSE /\ Becomes(Rec, Start("missing", "remove", sb)) /\ fence' = TRUE
          /\ UNCHANGED <<sb, op, mu, round, faults>>
  /\ UNCHANGED <<ctl, guest, remote, expired>>

(* Write `next` together with the operations of the round's list that it   *)
(* settles.  An operation that changed after the list was read either      *)
(* voids the whole write or, being a newer operation, is left alone.       *)
Settle(next, kinds, value, err) ==
  \/ Conclude(Rec, next, kinds \ round.moved, value, err)
  \/ kinds \cap round.moved # {} /\ Return(Rec, FALSE)

SaveObservation ==
  LET observed == With(task[Rec].s, task[Rec].seen, "none")
      kinds == latestReconcileOperations(round.cands, task[Rec].seen)
  IN  IF observed = sb /\ kinds = {} THEN Return(Rec, FALSE)
      ELSE Settle(observed, kinds, "succeeded", FALSE)

RepairKind == [running |-> "repairRunning", standby |-> "repairStandby", unknown |-> "repairUnknown"]

(* The region after the look at the route.                                 *)
RoundApply ==
  /\ MutexFree /\ task[Rec].step = "apply"
  /\ CASE Superseded \/ fence \/ guest # "none" -> Return(Rec, FALSE)
       [] task[Rec].verdict = "error" -> MarkUnknown(task[Rec].s, "route")
       [] task[Rec].verdict = "repair" ->
            /\ Becomes(Rec, [task[Rec] EXCEPT !.kind = RepairKind[task[Rec].seen],
                                              !.step = "settle"])
            /\ fence' = TRUE
            /\ UNCHANGED <<sb, op, mu, round, faults>>
       [] OTHER -> SaveObservation
  /\ UNCHANGED <<ctl, guest, remote, expired>>

RepairResult ==
  /\ Ends(Rec, {"repairRunning", "repairStandby", "repairUnknown"})
  /\ CASE Superseded \/ guest # "none" -> Return(Rec, FALSE)
       [] Succeeded(Rec) -> SaveObservation
       [] OTHER -> MarkUnknown(task[Rec].s, "route")
  /\ UNCHANGED <<ctl, guest, remote, expired>>

CleanupResult ==
  LET s == task[Rec].s
      kinds == IF sb.cleanup = "deleted" THEN Incomplete(round.cands, {"delete"}) ELSE {}
  IN
  /\ Ends(Rec, {"cleanup"})
  /\ CASE ~task[Rec].fresh \/ Terminal(sb.state) \/ sb.cleanup # s.cleanup -> Return(Rec, FALSE)
       [] Succeeded(Rec) -> Settle(With(s, s.cleanup, "none"), kinds, "succeeded", FALSE)
       [] OTHER -> MarkUnknown(s, "cleanup")
  /\ UNCHANGED <<ctl, guest, remote, expired>>

MissingResult ==
  LET s == task[Rec].s IN
  /\ Ends(Rec, {"missing"})
  /\ CASE Superseded -> Return(Rec, FALSE)
       [] Succeeded(Rec) ->
            Settle(With(s, "failed", "missing"), Incomplete(round.cands, OpKinds), "failed", FALSE)
       [] OTHER -> MarkUnknown(s, "missing_route")
  /\ UNCHANGED <<ctl, guest, remote, expired>>

(* The round's context ends (30 seconds, or a termination signal) while a  *)
(* call is in flight: whatever the calls have done, nothing is written and *)
(* the round is over.                                                      *)
RoundDeadline ==
  /\ MutexFree /\ Fault("deadline")
  /\ \/ task[Rec].step \in {"recheck", "apply"}
     \/ task[Rec].kind \in FencedKinds \ {"auto"} /\ task[Rec].step \in {"done", "failed"}
  /\ Unfence(Rec) /\ Becomes(Rec, InRound("end")) /\ Report(Rec, {}, TRUE)
  /\ UNCHANGED <<ctl, sb, op, guest, remote, expired>>

(* Fault variant: automatic standby does not wait for guest operations.    *)
RoundAutoStandbyBusy ==
  /\ MutexFree /\ task[Rec].step = "autoStandby"
  /\ \/ Return(Rec, FALSE) /\ UNCHANGED <<ctl, guest>>
     \/ /\ "auto" \in mix /\ sb.state = "running" /\ ~fence
        /\ Begin(Rec, "auto", "prep", With(sb, "pausing", "none"))
  /\ UNCHANGED <<remote, expired>>

(* pauseIfIdle: whether the sandbox has been idle long enough is up to the *)
(* clock.                                                                  *)
RoundAutoStandby ==
  /\ MutexFree /\ task[Rec].step = "autoStandby"
  /\ \/ Return(Rec, FALSE) /\ UNCHANGED <<ctl, guest>>
     \/ /\ "auto" \in mix /\ sb.state = "running" /\ ~fence /\ guest = "none"
        /\ \/ Begin(Rec, "auto", "prep", With(sb, "pausing", "none"))
           \/ /\ Fault("store") /\ Becomes(Rec, Home(Rec)) /\ Report(Rec, {}, TRUE)
              /\ UNCHANGED <<ctl, sb, op, mu, fence, guest>>
  /\ UNCHANGED <<remote, expired>>

(* The first round decides whether the process comes up at all.            *)
RoundEnd ==
  /\ ctl # "down" /\ task[Rec].step = "end"
  /\ Becomes(Rec, Idle)
  /\ round' = NoRound
  /\ ctl' = IF ctl = "up" THEN "up" ELSE IF round.err THEN "down" ELSE "up"
  /\ UNCHANGED <<sb, op, mu, fence, guest, remote, expired, faults>>

-----------------------------------------------------------------------------
(* The process, the engine and the clock.                                  *)

Crash ==
  /\ ctl # "down" /\ Fault("crash")
  /\ ctl' = "down" /\ mu' = Nobody /\ fence' = FALSE /\ guest' = "none"
  /\ task' = [t \in Threads |-> Idle]
  /\ round' = NoRound
  /\ UNCHANGED <<sb, op, remote, expired>>

Restart ==
  /\ ctl = "down"
  /\ ctl' = "starting"
  /\ UNCHANGED <<sb, op, mu, fence, guest, task, round, remote, expired, faults>>

(* A create that was still at work completes.                              *)
LateCreate ==
  /\ vm = "pending" /\ vm' = "running"
  /\ UNCHANGED <<controller, route, clock, expired, faults>>

(* The microVM dies, and its row with it or not, or the engine ends it at  *)
(* its time limit.                                                         *)
VmLost ==
  /\ \/ vm = "running" /\ vm' \in {"absent", "dead"} /\ Fault("vm_lost")
     \/ vm \in {"running", "dead"} /\ vm' = "absent" /\ expired /\ UNCHANGED faults
  /\ UNCHANGED <<controller, route, clock, expired>>

Expire ==
  /\ ~expired /\ sb.state # "none"
  /\ expired' = TRUE
  /\ UNCHANGED <<controller, remote, faults>>

Init ==
  /\ ctl = "up" /\ sb = NoRecord /\ op = [k \in OpKinds |-> "none"]
  /\ mu = Nobody /\ fence = FALSE /\ guest = "none"
  /\ task = [t \in Threads |-> Idle] /\ round = NoRound
  /\ vm = "absent" /\ route = [state |-> "absent", gen |-> 0] /\ clock = 0
  /\ expired = FALSE
  /\ mix \in Mixes /\ faults = IF "twice" \in mix THEN 2 ELSE 1

Request(t) ==
  CreateSandbox(t) \/ Pause(t) \/ Resume(t) \/ Delete(t) \/ GetSandbox(t)

(* A step of a thread that is inside a procedure.                          *)
Advance(t) ==
  \/ Skip(t) \/ EngineMutation(t) \/ EngineFind(t) \/ EngineLook(t)
  \/ RouteCall(t) \/ RouteRecover(t) \/ RouteLook(t)
  \/ CreateResult(t) \/ TransitionResult(t) \/ GetCleanupResult(t) \/ GetResult(t)

Reconcile ==
  \/ RoundStart \/ RoundBegin \/ RoundClaim \/ RoundRecheck \/ RoundClaimMissing
  \/ RoundApply \/ RepairResult \/ CleanupResult \/ MissingResult
  \/ RoundAutoStandby \/ RoundEnd

Next ==
  /\ \/ \E t \in Api : Request(t)
     \/ AcquireGuestOperation \/ ReleaseGuestOperation
     \/ \E t \in Threads : Advance(t)
     \/ Reconcile \/ RoundDeadline
     \/ Crash \/ Restart \/ LateCreate \/ VmLost \/ Expire
  /\ UNCHANGED mix

Spec == Init /\ [][Next]_<<vars, mix>>

(* Threads run, the reconciler's ticker fires, calls return and guest      *)
(* operations end at their deadline, and the process is restarted.         *)
Fairness ==
  /\ \A t \in Threads : WF_vars(Advance(t))
  /\ WF_vars(Reconcile)
  /\ WF_vars(ReleaseGuestOperation)
  /\ WF_vars(Restart)

FairSpec == Spec /\ Fairness

-----------------------------------------------------------------------------
(* Type correctness of the record, the threads and the outside world.      *)
TypeOK ==
  /\ ctl \in {"down", "starting", "up"}
  /\ sb \in Record
  /\ op \in [OpKinds -> OpStates]
  /\ mu \in Threads \cup {Nobody}
  /\ fence \in BOOLEAN /\ guest \in {"none", "running", "cancelled"} /\ expired \in BOOLEAN
  /\ task \in [Threads -> Task]
  /\ round \in [cands: [OpKinds -> OpStates], moved: SUBSET OpKinds, err: BOOLEAN]
  /\ vm \in {"absent", "pending", "running", "paused", "dead"}
  /\ route \in [state: RouteStates, gen: 0 .. MaxGeneration]
  /\ clock \in 0 .. MaxGeneration
  /\ faults \in 0 .. 2 /\ mix \in Mixes

Mutating(t) == task[t].kind \in FencedKinds \cup {"getCleanup"}

(* At most one thread is changing the engine and the node for the sandbox, *)
(* whether it works behind the fence or under the mutex.                   *)
OneMutator == \A t, u \in Threads : Mutating(t) /\ Mutating(u) => t = u

(* No lost update: a thread that will write its copy of the record back    *)
(* without comparing revisions (CreateSandbox, lifecycleAction, Delete,    *)
(* pauseIfIdle, GetSandbox) holds a copy nobody has written since.         *)
NoLostUpdate ==
  \A t \in Threads :
    task[t].kind \in {"create", "pause", "auto", "resume", "delete", "get", "getCleanup"}
      => task[t].fresh

(* A lifecycle, cleanup or repair procedure behind the fence never runs    *)
(* while a guest operation is registered.  GetSandbox's cleanup, under the *)
(* mutex, may remove the microVM and the route under a registered one, but *)
(* only at the expiry and after it was cancelled (service.go:653).         *)
GuestsUndisturbed ==
  \A t \in Threads :
     /\ task[t].kind \in FencedKinds => guest = "none"
     /\ task[t].kind = "getCleanup" => guest # "running"

(* A deleted or expired sandbox has no microVM and, if Delete or the       *)
(* reconciler cleaned it up, no route, unless a create outlived its caller *)
(* (GetSandbox finishes a cleanup without looking for a route it does not  *)
(* know of).                                                               *)
NothingLeft ==
  "late_create" \notin mix /\ sb.state \in {"deleted", "expired"} =>
    /\ vm = "absent"
    /\ "get" \notin mix => route.state = "absent"

(* A terminal record stays as it is, and a sandbox with a cleanup intent   *)
(* never comes back: no stale observation or late result revives it.       *)
NoRevival ==
  [][/\ Terminal(sb.state) => sb'.state = sb.state
     /\ sb.cleanup # "none" => sb'.cleanup # "none" /\ sb'.state \in {"deleting", "unknown", sb'.cleanup}]_vars

(* An operation becomes succeeded only when the engine and the node are    *)
(* where it was to bring them (a microVM may have died since, and a create *)
(* that outlived its caller may still bring one).                          *)
Confirmed(k) ==
  CASE k \in {"create", "resume"} -> /\ vm \in {"running", "dead", "absent"}
                                     /\ route.state = "ready" /\ sb'.gen = route.gen
    [] k \in {"pause", "auto"} -> vm = "paused" /\ route.state = "standby" /\ sb'.gen = route.gen
    [] k = "delete" -> vm = "absent"

SuccessConfirmed ==
  [][\A k \in OpKinds :
       "late_create" \notin mix /\ op'[k] = "succeeded" /\ op[k] # "succeeded"
         => Confirmed(k)]_vars

(* Every fence comes down again.                                           *)
FenceReleased == fence ~> ~fence

(* A cleanup intent is carried out.                                        *)
CleanupConverges == sb.cleanup # "none" ~> Terminal(sb.state)

(* A sandbox that has passed its expiry reaches a terminal state.          *)
ExpiryConverges == expired ~> Terminal(sb.state)

(* Recovery: an interrupted or unconfirmed transition does not stay so     *)
(* until the expiry, whatever failed or crashed in it.  While the engine   *)
(* goes on calling a microVM running whose guest is dead, every inspection *)
(* fails and the sandbox stays unknown.                                    *)
Unsettled == sb.state \in {"preparing", "pausing", "resuming", "unknown"} /\ sb.cleanup = "none"

RecoveryConverges == Unsettled ~> ~Unsettled \/ expired \/ vm = "dead"

(* A cleanup whose route is already released or removed cannot drain it    *)
(* again, a transition cut short by a crash can no longer expire, and a    *)
(* cleanup that does not know the microVM's identity cannot learn it while *)
(* the engine's row outlives the guest, since Find probes it.              *)
HalfRemoved == sb.cleanup # "none" /\ route.state \in {"released", "absent"}

CutShort == expired /\ sb.cleanup = "none" /\ sb.state \in {"preparing", "pausing", "resuming"}

Unfindable == vm = "dead" /\ ~sb.backend

(* Whatever fails or crashes, a sandbox that has expired or is to be       *)
(* deleted reaches a terminal state, or stays for ever in one of these     *)
(* three situations; there is no fourth way to get stuck.                  *)
DoomedEnds ==
  expired \/ sb.cleanup # "none"
    ~> (Terminal(sb.state) \/ [](HalfRemoved \/ CutShort \/ Unfindable))
=============================================================================
