------------------------------ MODULE WarmPool ------------------------------
(***************************************************************************)
(* The single-use warm pool (src/internal/backend/warm/pool.go).           *)
(*                                                                         *)
(* The pool keeps a durable table of slots, each with one microVM created  *)
(* from the configured template.  A create claims an available slot; a     *)
(* delete destroys the microVM and provisions a new slot.  Four kinds of   *)
(* goroutine work on the table: callers of Create, Find and Delete, the    *)
(* reconciler, maintenance, and one maker for each slot being created.     *)
(* Each transaction on the table is one action, and so is each call to the *)
(* engine.                                                                 *)
(*                                                                         *)
(* Slots are numbered in the order of created_at.  A slot that is not      *)
(* being created has its backend identity.  A microVM is named by its slot *)
(* or, when it was created cold, by its sandbox.  A definition headed      *)
(* "Fault variant" is a plausible slip in the one that follows it.         *)
(***************************************************************************)
EXTENDS Naturals, FiniteSets, FiniteSetsExt

CONSTANTS
  Sandboxes,    \* the sandboxes customers ask for
  Eligible,     \* those with the pool's template, network and lifetime
  Api,          \* goroutines of API requests
  Rec,          \* the reconciler
  Keeper,       \* the goroutine that primes and then maintains the pool
  None,         \* no sandbox, no microVM, no goroutine
  Target,       \* Config.Target
  Concurrency,  \* Config.PrimeConcurrency
  Strict,       \* Config.Strict
  SlowCreates,  \* whether creating a slot may take five minutes
  MaxSlots,     \* bound on the slots ever reserved
  Faults,       \* the kinds of fault and of ageing that can happen
  MaxFaults     \* how many of them happen in one behaviour

ASSUME PoolAssumption ==
  /\ Target \in Nat \ {0} /\ MaxSlots \in Nat /\ MaxFaults \in Nat
  /\ Concurrency \in 1 .. Target
  /\ Eligible \subseteq Sandboxes
  /\ Strict \in BOOLEAN /\ SlowCreates \in BOOLEAN
  /\ Faults \subseteq {"engine_error", "engine_lost", "late_create", "vm_lost",
                       "store", "deadline", "crash", "age"}

VARIABLES
  up,        \* the controller process: down, priming or up
  row,       \* the table warm_slots
  issued,    \* how many slots have been reserved so far
  overdue,   \* slots reserved more than five minutes ago
  old,       \* slots without enough lifetime left for the longest claim
  vm,        \* the engine's microVMs
  task,      \* what each goroutine is doing
  customer,  \* the controller's record of each sandbox
  served,    \* the sandboxes each slot's microVM was handed to
  faults     \* faults that may still happen

engine == <<vm>>
table == <<row, issued>>
age == <<overdue, old>>
vars == <<up, table, age, engine, task, customer, served, faults>>

Slots == 1 .. MaxSlots

Callers == Api \cup {Rec}

Threads == Callers \cup {Keeper} \cup Slots

NoRow == [state |-> "none", claim |-> None]

Rows == {i \in Slots : row[i].state # "none"}

RowStates == {"none", "creating", "available", "claiming", "claimed", "deleting"}

(* job and step say where the goroutine is; id is the microVM or the slot  *)
(* it works on and from the state in which it read that slot; todo is the  *)
(* keeper's list of rows; by is the goroutine that waits for a maker; lost *)
(* says that the engine has reported the claimed microVM missing.          *)
Start(job, step, sbx) ==
  [job |-> job, step |-> step, sbx |-> sbx, id |-> None, from |-> "none",
   todo |-> {}, by |-> None, lost |-> FALSE, out |-> "none"]

Idle == Start("none", "idle", None)

Jobs == {"none", "create", "observe", "cleanup", "maintain", "prime", "make"}

Steps ==
  {"idle", "findClaim", "beginClaim", "setTimeout", "finishClaim", "inspect", "cold",
   "coldFind", "delete", "next", "lookup", "markAvailable", "quarantine", "destroy",
   "remove", "reserve", "wait", "queued", "create", "over"}

Outcomes == {"none", "ok", "capacity", "unavailable", "missing", "error"}

Task ==
  [job: Jobs, step: Steps, sbx: Sandboxes \cup {None}, id: Slots \cup Sandboxes \cup {None},
   from: RowStates, todo: SUBSET [slot: Slots, state: RowStates],
   by: Callers \cup {Keeper, None}, lost: BOOLEAN, out: Outcomes]

-----------------------------------------------------------------------------
(* Steps of a goroutine.                                                   *)

Fault(kind) == kind \in Faults /\ faults > 0 /\ faults' = faults - 1

At(t, step) == up # "down" /\ task[t].step = step

Becomes(t, next) == task' = [task EXCEPT ![t] = next]

Goto(t, step) == Becomes(t, [task[t] EXCEPT !.step = step])

(* The goroutine's call is over, with this outcome.                        *)
Over(t, out) == Becomes(t, [task[t] EXCEPT !.step = "over", !.out = out])

(* An error wraps the one that led to it, so that a caller of Find takes   *)
(* the failure to discard a missing microVM for a report that it is        *)
(* missing.                                                                *)
Fail(t) == Over(t, IF task[t].lost THEN "missing" ELSE "error")

Housekeeping(t) == task[t].job \in {"maintain", "prime"}

(* A transaction that cannot be written fails the call.                    *)
StoreFails(t) == Fault("store") /\ Fail(t) /\ UNCHANGED row

SetRow(i, r) == row' = [row EXCEPT ![i] = r]

(* UPDATE warm_slots SET state                                             *)
SetState(i, state) == SetRow(i, [row[i] EXCEPT !.state = state])

(* What Inspect and Find report of a microVM: its state, an error, or a    *)
(* state the client does not know.                                         *)
Observed(id) ==
  CASE vm[id] = "running" -> "running" [] vm[id] = "paused" -> "standby" [] OTHER -> "missing"

Sees(id, seen) ==
  \/ seen = Observed(id) /\ UNCHANGED faults
  \/ seen \in {"error", "unknown"} /\ Fault("engine_error")

Seen == {"running", "standby", "missing", "unknown", "error"}

-----------------------------------------------------------------------------
(* discard, recoverCreating and the refill, shared by every goroutine.     *)

(* A row is dealt with: the pool is refilled, except while recover is      *)
(* still going through its list.                                           *)
AfterRow(t) ==
  CASE task[t].job = "make" -> "over"
    [] task[t].job = "prime" -> "next"
    [] OTHER -> "reserve"

(* The refill is over.                                                     *)
AfterRefill(t) ==
  CASE Housekeeping(t) /\ task[t].out = "none" -> "next"
    [] task[t].job = "create" /\ task[t].out = "unavailable" /\ ~Strict -> "cold"
    [] OTHER -> "over"

(* Fault variant: the row is quarantined whatever its state is by now.     *)
QuarantineAnyState(t) ==
  /\ At(t, "quarantine")
  /\ SetState(task[t].id, "deleting") /\ Goto(t, "destroy")
  /\ UNCHANGED <<up, issued, age, engine, customer, served, faults>>

(* markDeleting, from the state in which the row was read.  Maintenance    *)
(* passes over a slot that was claimed in the meantime.                    *)
Quarantine(t) ==
  LET i == task[t].id IN
  /\ At(t, "quarantine")
  /\ \/ /\ row[i].state = task[t].from
        /\ SetState(i, "deleting") /\ Goto(t, "destroy") /\ UNCHANGED faults
     \/ /\ row[i].state # task[t].from
        /\ IF task[t].job = "maintain" THEN Goto(t, "next") ELSE Fail(t)
        /\ UNCHANGED <<row, faults>>
     \/ StoreFails(t)
  /\ UNCHANGED <<up, issued, age, engine, customer, served>>

(* Fault variant: an error of the engine counts as success.                *)
EngineDeleteUnchecked(t, id, after) ==
  \/ vm' = [vm EXCEPT ![id] = "absent"] /\ after /\ UNCHANGED faults
  \/ vm' = vm /\ after /\ Fault("engine_error")

(* Delete in the engine: a microVM that is not there counts as deleted.    *)
EngineDelete(t, id, after) ==
  \/ vm' = [vm EXCEPT ![id] = "absent"] /\ after /\ UNCHANGED faults
  \/ vm' = [vm EXCEPT ![id] = "absent"] /\ Fail(t) /\ Fault("engine_lost")
  \/ vm' = vm /\ Fail(t) /\ Fault("engine_error")

Destroy(t) ==
  /\ At(t, "destroy")
  /\ EngineDelete(t, task[t].id, Goto(t, "remove"))
  /\ UNCHANGED <<up, table, age, customer, served>>

RemoveRow(t) ==
  /\ At(t, "remove")
  /\ \/ SetRow(task[t].id, NoRow) /\ Goto(t, AfterRow(t)) /\ UNCHANGED faults
     \/ StoreFails(t)
  /\ UNCHANGED <<up, issued, age, engine, customer, served>>

(* Find for a slot in creating: by recoverCreating, which destroys what is *)
(* there but not usable, and by createSlot after an unconfirmed create.    *)
Lookup(t) ==
  /\ At(t, "lookup")
  /\ \E seen \in Seen :
       /\ Sees(task[t].id, seen)
       /\ CASE seen = "running" -> Goto(t, "markAvailable")
            [] seen = "missing" -> Goto(t, "remove")
            [] seen # "error" /\ task[t].job # "make" -> Goto(t, "destroy")
            [] OTHER -> Fail(t)
  /\ UNCHANGED <<up, table, age, engine, customer, served>>

(* Fault variant: the update does not ask for a row in creating.           *)
MarkAvailableAnyState(t) ==
  /\ At(t, "markAvailable")
  /\ SetState(task[t].id, "available")
  /\ Becomes(t, [task[t] EXCEPT !.step = AfterRow(t),
                                !.out = IF task[t].job = "make" THEN "ok" ELSE @])
  /\ UNCHANGED <<up, issued, age, engine, customer, served, faults>>

(* The slot's microVM is ready, unless somebody has dealt with the row.    *)
MarkAvailable(t) ==
  LET i == task[t].id IN
  /\ At(t, "markAvailable")
  /\ \/ /\ row[i].state = "creating"
        /\ SetState(i, "available")
        /\ Becomes(t, [task[t] EXCEPT !.step = AfterRow(t),
                                      !.out = IF task[t].job = "make" THEN "ok" ELSE @])
        /\ UNCHANGED faults
     \/ row[i].state # "creating" /\ Fail(t) /\ UNCHANGED <<row, faults>>
     \/ StoreFails(t)
  /\ UNCHANGED <<up, issued, age, engine, customer, served>>

(* reserveMissing, and the goroutines that createReserved starts.  Only    *)
(* the keeper minds a failure.                                             *)
Maker(t, i) == [Start("make", "queued", None) EXCEPT !.id = i, !.by = t]

Reserve(t) ==
  LET missing == Target - Cardinality(Rows)
      new == issued + 1 .. issued + missing
  IN
  /\ At(t, "reserve")
  /\ \/ /\ Cardinality(Rows) < Target /\ issued + missing <= MaxSlots
        /\ issued' = issued + missing
        /\ row' = [i \in Slots |-> IF i \in new THEN [NoRow EXCEPT !.state = "creating"] ELSE row[i]]
        /\ task' = [u \in Threads |-> IF u \in new THEN Maker(t, u)
                                      ELSE IF u = t THEN [task[t] EXCEPT !.step = "wait"]
                                      ELSE task[u]]
        /\ UNCHANGED faults
     \/ /\ Cardinality(Rows) >= Target
        /\ Goto(t, AfterRefill(t))
        /\ UNCHANGED <<table, faults>>
     \/ /\ Fault("store")
        /\ IF Housekeeping(t) THEN Fail(t) ELSE Goto(t, AfterRefill(t))
        /\ UNCHANGED table
  /\ UNCHANGED <<up, age, engine, customer, served>>

Makers(t) == {i \in Slots : task[i].by = t}

Wait(t) ==
  /\ At(t, "wait")
  /\ Makers(t) = {}
  /\ Goto(t, AfterRefill(t))
  /\ UNCHANGED <<up, table, age, engine, customer, served, faults>>

-----------------------------------------------------------------------------
(* createSlot.  The engine client reports a created microVM as running or  *)
(* not at all, so that the branch for another state is not reached.        *)

MakerStart(i) ==
  /\ At(i, "queued")
  /\ \/ /\ Cardinality({j \in Makers(task[i].by) : task[j].step # "queued"}) < Concurrency
        /\ Goto(i, "create") /\ UNCHANGED faults
     \/ Fault("deadline") /\ Fail(i)
  /\ UNCHANGED <<up, table, age, engine, customer, served>>

(* Create in the engine.  Without an answer it may still be at work.       *)
EngineCreate(id, answered, unanswered) ==
  \/ vm' = [vm EXCEPT ![id] = "running"] /\ answered /\ UNCHANGED faults
  \/ vm' = [vm EXCEPT ![id] = "running"] /\ unanswered /\ Fault("engine_lost")
  \/ vm' = [vm EXCEPT ![id] = "pending"] /\ unanswered /\ Fault("late_create")
  \/ vm' = vm /\ unanswered /\ Fault("engine_error")

MakerCreate(i) ==
  /\ At(i, "create")
  /\ EngineCreate(i, Goto(i, "markAvailable"),
                  Becomes(i, [task[i] EXCEPT !.step = "lookup", !.out = "error"]))
  /\ UNCHANGED <<up, table, age, customer, served>>

MakerOver(i) ==
  LET t == task[i].by IN
  /\ At(i, "over") /\ task[i].job = "make"
  /\ task' = [task EXCEPT ![i] = Idle,
                          ![t].out = IF task[i].out = "error" /\ Housekeeping(t) THEN "error" ELSE @]
  /\ UNCHANGED <<up, table, age, engine, customer, served, faults>>

-----------------------------------------------------------------------------
(* Create, Find and Delete.                                                *)

(* The claim is settled: cleanup goes on to delete the microVM.            *)
Claimed(t) ==
  Becomes(t, [task[t] EXCEPT !.out = "ok", !.from = "none",
                             !.step = IF task[t].job = "cleanup" THEN "delete" ELSE "over"])

Serve(t, i) == served' = [served EXCEPT ![i] = @ \cup {task[t].sbx}]

FindClaim(t) ==
  LET claims == {i \in Rows : row[i].claim = task[t].sbx /\ row[i].state \in {"claiming", "claimed"}}
  IN
  /\ At(t, "findClaim")
  /\ \/ \E i \in claims :
          Becomes(t, [task[t] EXCEPT
                        !.id = i, !.from = row[i].state,
                        !.step = IF row[i].state = "claiming" THEN "setTimeout" ELSE "inspect"])
     \/ claims = {} /\ Goto(t, IF task[t].job = "create" THEN "beginClaim" ELSE "coldFind")
  /\ UNCHANGED <<up, table, age, engine, customer, served, faults>>

(* Fault variant: a strict pool goes on to the engine.                     *)
WithoutPoolOversubscribed(create) == [create EXCEPT !.step = "cold"]

(* A create that the pool cannot serve is refused in strict mode.          *)
WithoutPool(create) ==
  IF Strict THEN [create EXCEPT !.step = "over", !.out = "capacity"]
  ELSE [create EXCEPT !.step = "cold"]

(* The oldest available slot that lives long enough.  How long a slot that *)
(* is due for rotation still lives is up to the clock.  A sandbox is       *)
(* created once, so that no other row names it.                            *)
BeginClaim(t) ==
  LET s == task[t].sbx
      fits(short) == {i \in Rows : row[i].state = "available" /\ (short \/ i \notin old)}
  IN
  /\ At(t, "beginClaim")
  /\ \/ \E short \in BOOLEAN :
          /\ fits(short) = {}
          /\ Becomes(t, WithoutPool(task[t]))
          /\ UNCHANGED <<row, faults>>
     \/ \E short \in BOOLEAN :
          /\ fits(short) # {}
          /\ LET i == Min(fits(short)) IN
             /\ SetRow(i, [state |-> "claiming", claim |-> s])
             /\ Becomes(t, [task[t] EXCEPT !.id = i, !.from = "claiming", !.step = "setTimeout"])
          /\ UNCHANGED faults
     \/ StoreFails(t)
  /\ UNCHANGED <<up, issued, age, engine, customer, served>>

(* Fault variant: the slot whose timeout could not be set is left alone.   *)
SetTimeoutKeepsClaim(t) ==
  /\ At(t, "setTimeout")
  /\ \/ vm[task[t].id] = "running" /\ Goto(t, "finishClaim") /\ UNCHANGED faults
     \/ Fault("engine_error") /\ Over(t, "capacity")
  /\ UNCHANGED <<up, table, age, engine, customer, served>>

(* completeClaim of a slot in claiming: the engine accepts a timeout only  *)
(* for a running microVM.  A slot whose timeout could not be set is        *)
(* destroyed.                                                              *)
SetTimeout(t) ==
  /\ At(t, "setTimeout")
  /\ \/ vm[task[t].id] = "running" /\ Goto(t, "finishClaim") /\ UNCHANGED faults
     \/ /\ IF vm[task[t].id] = "running" THEN Fault("engine_error") ELSE UNCHANGED faults
        /\ Becomes(t, [task[t] EXCEPT !.out = "capacity", !.step = "quarantine",
                                      !.lost = Observed(task[t].id) = "missing"])
  /\ UNCHANGED <<up, table, age, engine, customer, served>>

FinishClaim(t) ==
  LET i == task[t].id IN
  /\ At(t, "finishClaim")
  /\ \/ /\ row[i] = [state |-> "claiming", claim |-> task[t].sbx]
        /\ SetState(i, "claimed") /\ Serve(t, i) /\ Claimed(t)
        /\ UNCHANGED faults
     \/ /\ row[i] # [state |-> "claiming", claim |-> task[t].sbx]
        /\ Fail(t) /\ UNCHANGED <<row, served, faults>>
     \/ StoreFails(t) /\ UNCHANGED served
  /\ UNCHANGED <<up, issued, age, engine, customer>>

(* completeClaim of a claimed slot, and recover of an available one.       *)
Inspect(t) ==
  /\ At(t, "inspect")
  /\ \E seen \in Seen :
       /\ Sees(task[t].id, seen)
       /\ CASE seen = "running" /\ task[t].job = "prime" -> Goto(t, "next") /\ UNCHANGED served
            [] seen = "running" -> Claimed(t) /\ Serve(t, task[t].id)
            [] seen = "error" /\ task[t].job = "prime" -> Fail(t) /\ UNCHANGED served
            [] OTHER -> /\ Becomes(t, [task[t] EXCEPT
                                         !.out = IF task[t].job = "prime" THEN @ ELSE "unavailable",
                                         !.lost = task[t].job # "prime" /\ seen = "missing",
                                         !.step = "quarantine"])
                        /\ UNCHANGED served
  /\ UNCHANGED <<up, table, age, engine, customer>>

(* Create and Find without the pool.                                       *)
Cold(t) ==
  LET s == task[t].sbx IN
  /\ At(t, "cold")
  /\ EngineCreate(s, Becomes(t, [task[t] EXCEPT !.id = s, !.step = "over", !.out = "ok"]), Fail(t))
  /\ UNCHANGED <<up, table, age, customer, served>>

ColdFind(t) ==
  LET s == task[t].sbx IN
  /\ At(t, "coldFind")
  /\ \E seen \in Seen :
       /\ Sees(s, seen)
       /\ CASE seen = "missing" -> Over(t, "missing")
            [] seen = "error" -> Fail(t)
            [] OTHER -> Becomes(t, [task[t] EXCEPT
                                      !.id = s, !.out = "ok",
                                      !.step = IF task[t].job = "cleanup" THEN "delete" ELSE "over"])
  /\ UNCHANGED <<up, table, age, engine, customer, served>>

(* Delete: a pooled microVM's row is removed and the pool refilled.        *)
Delete(t) ==
  LET id == task[t].id
      pooled == id \in Rows
  IN
  /\ At(t, "delete")
  /\ EngineDelete(t, id, Becomes(t, [task[t] EXCEPT !.out = "ok",
                                                    !.step = IF pooled THEN "remove" ELSE "over"]))
  /\ UNCHANGED <<up, table, age, customer, served>>

-----------------------------------------------------------------------------
(* Prime and Maintain.                                                     *)

(* Fault variant: rows in deleting are not listed.                         *)
ListedWithoutDeleting ==
  {[slot |-> i, state |-> row[i].state] :
     i \in {j \in Rows : row[j].state \in {"creating", "available"}}}

(* Claims are customers' and are not listed.                               *)
Listed ==
  {[slot |-> i, state |-> row[i].state] :
     i \in {j \in Rows : row[j].state \in {"creating", "available", "deleting"}}}

MaintainStart ==
  /\ up = "up" /\ task[Keeper] = Idle
  /\ Becomes(Keeper, [Start("maintain", "next", None) EXCEPT !.todo = Listed])
  /\ UNCHANGED <<up, table, age, engine, customer, served, faults>>

(* The next row of the list, by its state when the list was read: recover  *)
(* looks at every row, Maintain only at those that are due.                *)
KeeperNext ==
  LET todo == task[Keeper].todo
      first == CHOOSE r \in todo : \A q \in todo : r.slot <= q.slot
      priming == task[Keeper].job = "prime"
      step == CASE first.state = "deleting" -> "destroy"
                [] first.state = "creating" ->
                     IF priming \/ first.slot \in overdue THEN "lookup" ELSE "next"
                [] OTHER ->
                     IF first.slot \in old THEN "quarantine"
                     ELSE IF priming THEN "inspect" ELSE "next"
  IN
  /\ At(Keeper, "next")
  /\ \/ /\ todo = {}
        /\ Becomes(Keeper, [task[Keeper] EXCEPT !.out = "ok", !.step = "reserve"])
     \/ /\ todo # {}
        /\ Becomes(Keeper, [task[Keeper] EXCEPT !.todo = @ \ {first}, !.id = first.slot,
                                                !.from = first.state, !.step = step])
  /\ UNCHANGED <<up, table, age, engine, customer, served, faults>>

(* The API is not served before the pool is primed; a failure to prime it  *)
(* ends the process.                                                       *)
KeeperOver ==
  /\ At(Keeper, "over")
  /\ up' = IF task[Keeper].job = "prime" /\ task[Keeper].out = "error" THEN "down" ELSE "up"
  /\ Becomes(Keeper, Idle)
  /\ UNCHANGED <<table, age, engine, customer, served, faults>>

-----------------------------------------------------------------------------
(* The pool's callers, as the lifecycle service uses it: one create or     *)
(* cleanup of a sandbox at a time, Create once in the life of a sandbox, a *)
(* reconciler that looks for a sandbox whose microVM it does not know, and *)
(* no further call for a sandbox that is gone or has failed.               *)

Busy(s) == \E t \in Callers : task[t].sbx = s /\ task[t].job \in {"create", "cleanup"}

CallCreate(t, s) ==
  /\ up = "up" /\ task[t] = Idle /\ ~Busy(s)
  /\ customer[s].state = "new"
  /\ customer' = [customer EXCEPT ![s].state = "preparing"]
  /\ LET create == Start("create", "findClaim", s)
     IN  Becomes(t, IF s \in Eligible THEN create ELSE WithoutPool(create))
  /\ UNCHANGED <<up, table, age, engine, served, faults>>

(* The reconciler: Find for a sandbox without a known microVM.             *)
CallFind(s) ==
  /\ up = "up" /\ task[Rec] = Idle /\ ~Busy(s)
  /\ customer[s].state \in {"preparing", "unknown"} /\ customer[s].id = None
  /\ Becomes(Rec, Start("observe", "findClaim", s))
  /\ UNCHANGED <<up, table, age, engine, customer, served, faults>>

(* Inspect reports a microVM missing: the sandbox has failed for good and  *)
(* the service does not delete it.                                         *)
Missing(s) ==
  /\ up = "up" /\ ~Busy(s)
  /\ customer[s].state = "live" /\ vm[customer[s].id] = "absent"
  /\ customer' = [customer EXCEPT ![s].state = "failed"]
  /\ UNCHANGED <<up, table, age, engine, task, served, faults>>

(* Pause and Resume go straight to the engine.                             *)
PauseResume(s) ==
  /\ up = "up" /\ ~Busy(s) /\ customer[s].state = "live"
  /\ LET id == customer[s].id IN
     \/ vm[id] = "running" /\ vm' = [vm EXCEPT ![id] = "paused"]
     \/ vm[id] = "paused" /\ vm' = [vm EXCEPT ![id] = "running"]
  /\ UNCHANGED <<up, table, age, task, customer, served, faults>>

(* A delete or the expiry begins a cleanup, the reconciler or a read of    *)
(* the sandbox repeats it.                                                 *)
CallCleanup(t, s) ==
  /\ up = "up" /\ task[t] = Idle /\ ~Busy(s)
  /\ customer[s].state \in {"live", "unknown", "closing"}
  /\ customer' = [customer EXCEPT ![s].state = "closing"]
  /\ Becomes(t, IF customer[s].id = None THEN Start("cleanup", "findClaim", s)
                ELSE [Start("cleanup", "delete", s) EXCEPT !.id = customer[s].id])
  /\ UNCHANGED <<up, table, age, engine, served, faults>>

(* The service records the outcome.  An observation that a cleanup has     *)
(* overtaken is dropped.                                                   *)
Record(s, state, id) == customer' = [customer EXCEPT ![s] = [state |-> state, id |-> id]]

CallOver(t) ==
  LET s == task[t].sbx
      out == task[t].out
  IN
  /\ t \in Callers /\ At(t, "over")
  /\ CASE task[t].job = "cleanup" ->
            IF out \in {"ok", "missing"} THEN Record(s, "gone", None)
            ELSE Record(s, "closing", IF task[t].from = "none" THEN task[t].id ELSE None)
       [] task[t].job = "observe" /\ customer[s].state \notin {"preparing", "unknown"} ->
            UNCHANGED customer
       [] out = "ok" -> Record(s, "live", task[t].id)
       [] \/ task[t].job = "observe" /\ out = "missing"
          \/ task[t].job = "create" /\ out \in {"capacity", "unavailable"} ->
            Record(s, "failed", None)
       [] OTHER -> Record(s, "unknown", None)
  /\ Becomes(t, Idle)
  /\ UNCHANGED <<up, table, age, engine, served, faults>>

-----------------------------------------------------------------------------
(* The process, the engine and the clock.                                  *)

Crash ==
  /\ up # "down" /\ Fault("crash")
  /\ up' = "down"
  /\ task' = [t \in Threads |-> Idle]
  /\ UNCHANGED <<table, age, engine, customer, served>>

Restart ==
  /\ up = "down"
  /\ up' = "priming"
  /\ Becomes(Keeper, [Start("prime", "next", None) EXCEPT !.todo = Listed])
  /\ UNCHANGED <<table, age, engine, customer, served, faults>>

LateCreate ==
  \E id \in Slots \cup Sandboxes :
    /\ vm[id] = "pending"
    /\ vm' = [vm EXCEPT ![id] = "running"]
    /\ UNCHANGED <<up, table, age, task, customer, served, faults>>

VmLost ==
  \E id \in Slots \cup Sandboxes :
    /\ vm[id] = "running" /\ Fault("vm_lost")
    /\ vm' = [vm EXCEPT ![id] = "absent"]
    /\ UNCHANGED <<up, table, age, task, customer, served>>

(* Five minutes after the reservation the context of the refill has ended, *)
(* and with it the call to Create.  It matters to maintenance for a slot   *)
(* that is, or was when the list was read, still being created.            *)
Overdue ==
  \E i \in Slots \ overdue :
    /\ \/ row[i].state = "creating"
       \/ SlowCreates /\ [slot |-> i, state |-> "creating"] \in task[Keeper].todo
    /\ IF SlowCreates THEN task[i].step \notin {"queued", "create"} ELSE task[i] = Idle
    /\ overdue' = overdue \cup {i}
    /\ UNCHANGED <<up, table, old, engine, task, customer, served, faults>>

GrowOld ==
  \E i \in Slots \ old :
    /\ row[i].state = "available" /\ Fault("age")
    /\ old' = old \cup {i}
    /\ UNCHANGED <<up, table, overdue, engine, task, customer, served>>

Init ==
  /\ up = "down"
  /\ row = [i \in Slots |-> NoRow] /\ issued = 0
  /\ overdue = {} /\ old = {}
  /\ vm = [id \in Slots \cup Sandboxes |-> "absent"]
  /\ task = [t \in Threads |-> Idle]
  /\ customer = [s \in Sandboxes |-> [state |-> "new", id |-> None]]
  /\ served = [i \in Slots |-> {}]
  /\ faults = MaxFaults

(* A step of a goroutine that is at work.                                  *)
Advance(t) ==
  \/ Quarantine(t) \/ Destroy(t) \/ RemoveRow(t) \/ Lookup(t) \/ MarkAvailable(t)
  \/ Reserve(t) \/ Wait(t)
  \/ FindClaim(t) \/ BeginClaim(t) \/ SetTimeout(t) \/ FinishClaim(t) \/ Inspect(t)
  \/ Cold(t) \/ ColdFind(t) \/ Delete(t) \/ CallOver(t)

Make(i) == MakerStart(i) \/ MakerCreate(i) \/ MakerOver(i)

Keep == MaintainStart \/ KeeperNext \/ KeeperOver

(* The reconciler takes up a sandbox that is not settled.                  *)
Reconcile(s) == CallFind(s) \/ (customer[s].state = "closing" /\ CallCleanup(Rec, s))

Next ==
  \/ \E t \in Threads : Advance(t)
  \/ \E i \in Slots : Make(i)
  \/ Keep
  \/ \E s \in Sandboxes, t \in Api : CallCreate(t, s)
  \/ \E s \in Sandboxes, t \in Callers : CallCleanup(t, s)
  \/ \E s \in Sandboxes : CallFind(s) \/ Missing(s) \/ PauseResume(s)
  \/ Crash \/ Restart \/ LateCreate \/ VmLost \/ Overdue \/ GrowOld

Spec == Init /\ [][Next]_vars

(* Goroutines run and their calls return, maintenance and the reconciler,  *)
(* which goes through all sandboxes in each round, come again and again,   *)
(* the process is restarted, and five minutes pass.                        *)
Fairness ==
  /\ \A t \in Threads : WF_vars(Advance(t))
  /\ \A i \in Slots : WF_vars(Make(i))
  /\ WF_vars(Keep) /\ WF_vars(Restart) /\ WF_vars(Overdue)
  /\ \A s \in Sandboxes : SF_vars(Reconcile(s))

FairSpec == Spec /\ Fairness

-----------------------------------------------------------------------------
(* Type correctness of the table, the goroutines and the engine.           *)
TypeOK ==
  /\ up \in {"down", "priming", "up"}
  /\ row \in [Slots -> [state: RowStates, claim: Sandboxes \cup {None}]]
  /\ issued \in 0 .. MaxSlots
  /\ overdue \subseteq Slots /\ old \subseteq Slots
  /\ vm \in [Slots \cup Sandboxes -> {"absent", "pending", "running", "paused"}]
  /\ task \in [Threads -> Task]
  /\ customer \in [Sandboxes ->
       [state: {"new", "preparing", "unknown", "live", "closing", "gone", "failed"},
        id: Slots \cup Sandboxes \cup {None}]]
  /\ served \in [Slots -> SUBSET Sandboxes]
  /\ faults \in 0 .. MaxFaults

(* A slot serves one sandbox in its whole life, and is never offered again *)
(* once it has served one.                                                 *)
SingleUse ==
  \A i \in Slots :
    /\ \A r, s \in served[i] : r = s
    /\ row[i].state \in {"creating", "available"} => served[i] = {}

(* Customer ownership wins: while a sandbox is live on a slot, the slot is *)
(* claimed for it and nobody is about to destroy it, neither maintenance   *)
(* nor a claim or lookup that has failed.                                  *)
CustomersKeepSlots ==
  \A s \in Sandboxes :
    LET i == customer[s].id IN
    customer[s].state = "live" /\ i \in Slots =>
      /\ row[i] = [state |-> "claimed", claim |-> s]
      /\ \A t \in Threads : ~(task[t].step = "destroy" /\ task[t].id = i)

(* In strict mode the pool is the whole physical budget: there are never   *)
(* more microVMs than the target.                                          *)
StrictBudget ==
  Strict => Cardinality({id \in Slots \cup Sandboxes : vm[id] \in {"running", "paused"}}) <= Target

(* A microVM of the pool is in the table as long as it runs, whatever call *)
(* failed or crashed in between.                                           *)
NoStraySlot == \A i \in Slots : vm[i] \in {"running", "paused"} => i \in Rows

(* Create refuses for lack of capacity only when it leaves nothing behind: *)
(* no microVM of its own and no claim on a slot.                           *)
RefusalLeavesNothing ==
  \A t \in Callers :
    task[t].job = "create" /\ task[t].step = "over" /\ task[t].out \in {"capacity", "unavailable"} =>
      /\ vm[task[t].sbx] = "absent"
      /\ \A i \in Rows : row[i].claim # task[t].sbx

(* The pool comes back to its target, every slot available or claimed.     *)
Full == Cardinality(Rows) = Target /\ \A i \in Rows : row[i].state \notin {"creating", "deleting"}

CapacityRestored == []<>(up = "up" /\ Full)

(* A slot does not outlive the sandbox it was claimed for.                 *)
Finished(s) == customer[s].state \in {"gone", "failed"}

SlotsReclaimed ==
  \A s \in Sandboxes : Finished(s) ~> \A i \in Rows : row[i].claim # s
=============================================================================
