----------------------------- MODULE NodeLedger -----------------------------
(***************************************************************************)
(* The node's durable route generation ledger                              *)
(* (src/internal/nodeledger/ledger.go).                                    *)
(*                                                                         *)
(* A route names one sandbox of one project and points at one private      *)
(* engine identity.  Every assignment carries a generation drawn from a    *)
(* single durable clock.  Administrative calls compare-and-swap on the     *)
(* generation and the state; data-path operations hold process-local       *)
(* leases on the exact assignment that admitted them.                      *)
(*                                                                         *)
(* `state` is the ledger in memory, `disk` the ledger file a new process   *)
(* would read, and `durable` the versions of that file a host crash may    *)
(* leave behind: a rename whose directory was not synced may be undone.    *)
(* A call that fails without touching the file changes nothing and is a    *)
(* stuttering step.                                                        *)
(***************************************************************************)
EXTENDS Naturals, FiniteSets, FiniteSetsExt

CONSTANTS
  Routes,         \* opaque route identities
  Owners,         \* (project, sandbox) pairs
  Engines,        \* private engine identities
  Ops,            \* data-path operations
  NoOwner,        \* the owner of a route that does not exist
  NoEngine,       \* the empty engine identity
  MaxGeneration,  \* the largest generation the clock can issue
  MaxTime,        \* the largest activity time
  maxRoutes,      \* the routes the ledger may hold, tombstones included
  maxLedgerBytes, \* the size of the file, without its envelope
  IdentityBytes,  \* what an entry takes beside its state and engine
  EngineBytes,    \* what the field engine_id takes, left out when empty
  MaxVersions,    \* bound on the versions a host crash may leave behind
  LosesRenames    \* whether a host crash may undo an unsynced rename

ASSUME BoundsAssumption ==
  /\ MaxGeneration \in Nat \ {0}
  /\ MaxTime \in Nat
  /\ MaxVersions \in Nat \ {0}
  /\ maxRoutes \in Nat /\ maxLedgerBytes \in Nat
  /\ IdentityBytes \in Nat /\ EngineBytes \in Nat /\ EngineBytes > 1
  /\ LosesRenames \in BOOLEAN

ASSUME NullAssumption == NoOwner \notin Owners /\ NoEngine \notin Engines

VARIABLES
  state,    \* Ledger.state: the routes and the generation clock in memory
  disk,     \* the ledger file
  durable,  \* the versions of the file that a host crash may restore
  open,     \* the relay process has the ledger open
  lease     \* the OperationLease each operation holds, if any

vars == <<state, disk, durable, open, lease>>

RouteStates == {"attaching", "ready", "draining", "standby", "released"}

Entry ==
  [owner: Owners \cup {NoOwner}, engine: Engines \cup {NoEngine},
   generation: 0 .. MaxGeneration, state: RouteStates \cup {"absent"},
   activity: 0 .. MaxTime]

Absent ==
  [owner |-> NoOwner, engine |-> NoEngine, generation |-> 0,
   state |-> "absent", activity |-> 0]

DiskState == [routes: [Routes -> Entry], lastGeneration: 0 .. MaxGeneration]

(* An OperationLease: the key that AcquireOperation counts, the engine of  *)
(* the Binding it returned, and whether the key is still counted.          *)
NoLease == [route |-> "none", owner |-> NoOwner, generation |-> 0,
            engine |-> NoEngine, status |-> "none"]

Lease ==
  [route: Routes, owner: Owners, generation: 1 .. MaxGeneration,
   engine: Engines \cup {NoEngine}, status: {"live", "leaked"}] \cup {NoLease}

-----------------------------------------------------------------------------
(* The checks every update runs on the state it is about to publish.       *)

Present(l) == {r \in Routes : l.routes[r].state # "absent"}

Assigned(l) == {r \in Present(l) : l.routes[r].state # "released"}

(* validateDiskState, but for the number of routes.                        *)
Consistent(l) ==
  /\ \A r \in Present(l) :
       /\ l.routes[r].owner \in Owners
       /\ l.routes[r].generation \in 1 .. l.lastGeneration
       /\ (l.routes[r].state = "released") <=> (l.routes[r].engine = NoEngine)
       /\ \A q \in Present(l) \ {r} :
            l.routes[q].generation # l.routes[r].generation
  /\ \A r, q \in Assigned(l) : r # q =>
       /\ l.routes[r].engine # l.routes[q].engine
       /\ l.routes[r].owner # l.routes[q].owner

ValidateDiskState(l) == Consistent(l) /\ Cardinality(Present(l)) <= maxRoutes

(* The size of the encoded file: a state is written as its name.  The      *)
(* digits of generations and times are taken to be of one length.          *)
StateBytes ==
  [attaching |-> 9, ready |-> 5, draining |-> 8, standby |-> 7, released |-> 8]

EntryBytes(entry) ==
  IdentityBytes + StateBytes[entry.state]
    + IF entry.engine = NoEngine THEN 0 ELSE EngineBytes

EncodedBytes(l) == MapThenSumSet(LAMBDA r : EntryBytes(l.routes[r]), Present(l))

(* What persist writes and Open reads.                                     *)
Storable(l) == ValidateDiskState(l) /\ EncodedBytes(l) <= maxLedgerBytes

(* Fault: two routes of one owner do not conflict.                         *)
AssignmentConflictsByEngine(l, except, owner, engine) ==
  \E r \in Assigned(l) \ except : l.routes[r].engine = engine

AssignmentConflicts(l, except, owner, engine) ==
  \E r \in Assigned(l) \ except :
    l.routes[r].engine = engine \/ l.routes[r].owner = owner

AllowedTransition(from, to) ==
  \/ from = "attaching" /\ to \in {"ready", "released"}
  \/ from = "ready" /\ to = "draining"
  \/ from = "draining" /\ to \in {"ready", "standby", "released"}
  \/ from = "standby" /\ to = "released"

Counted(op) == lease[op].status # "none"

HasActiveOperations(r) ==
  \E op \in Ops :
    /\ Counted(op)
    /\ lease[op].route = r
    /\ lease[op].owner = state.routes[r].owner
    /\ lease[op].generation = state.routes[r].generation

(* Validate, encode, write a temporary file, rename it over the ledger,    *)
(* sync the directory, publish in memory.  When the directory sync fails   *)
(* the caller sees an error and memory keeps the old state, but the file   *)
(* is new.                                                                 *)
Update(next) ==
  /\ open
  /\ Storable(next)
  /\ disk' = next
  /\ \/ state' = next /\ durable' = {next}
     \/ /\ Cardinality(durable) < MaxVersions
        /\ state' = state /\ durable' = durable \cup {next}
  /\ UNCHANGED <<open, lease>>

-----------------------------------------------------------------------------
(* What the administrative calls propose, and when they propose it.        *)

WithRoute(r, entry) == [state EXCEPT !.routes[r] = entry]

WithNewGeneration(r, entry) ==
  [routes |-> [state.routes EXCEPT ![r] = entry],
   lastGeneration |-> entry.generation]

(* Fault: the exhausted clock is not refused.                              *)
CanBindExhausted(r, o, e) ==
  r \notin Present(state) /\ ~AssignmentConflicts(state, {}, o, e)

CanBind(r, o, e) ==
  /\ r \notin Present(state)
  /\ ~AssignmentConflicts(state, {}, o, e)
  /\ state.lastGeneration < MaxGeneration

Bound(r, o, e, at) ==
  WithNewGeneration(r,
    [owner |-> o, engine |-> e, generation |-> state.lastGeneration + 1,
     state |-> "attaching", activity |-> at])

CanRebind(r, g, e, at) ==
  /\ r \in Present(state)
  /\ state.routes[r].generation = g
  /\ state.routes[r].state = "standby"
  /\ at >= state.routes[r].activity
  /\ ~AssignmentConflicts(state, {r}, state.routes[r].owner, e)
  /\ state.lastGeneration < MaxGeneration

(* Fault: a rebind keeps the generation of the assignment it replaces.     *)
ReboundSameGeneration(r, e, at) ==
  WithRoute(r, [state.routes[r] EXCEPT
                  !.engine = e, !.state = "attaching", !.activity = at])

Rebound(r, e, at) ==
  WithNewGeneration(r,
    [owner |-> state.routes[r].owner, engine |-> e,
     generation |-> state.lastGeneration + 1, state |-> "attaching",
     activity |-> at])

(* Fault: a drain does not wait for the operations it fenced.              *)
CanTransitUndrained(r, g, from, to) ==
  /\ r \in Present(state)
  /\ state.routes[r].generation = g
  /\ state.routes[r].state = from
  /\ AllowedTransition(from, to)

CanTransit(r, g, from, to) ==
  /\ r \in Present(state)
  /\ state.routes[r].generation = g
  /\ state.routes[r].state = from
  /\ AllowedTransition(from, to)
  /\ ~(from = "draining" /\ to \in {"standby", "released"} /\ HasActiveOperations(r))

Transited(r, to) ==
  WithRoute(r, [state.routes[r] EXCEPT
                  !.state = to,
                  !.engine = IF to = "released" THEN NoEngine ELSE @])

CanTouch(r, g, from, at) ==
  /\ r \in Present(state)
  /\ from \in {"ready", "draining"}
  /\ state.routes[r].generation = g
  /\ state.routes[r].state = from
  /\ at >= state.routes[r].activity

CanRemove(r, g) ==
  /\ r \in Present(state)
  /\ state.routes[r].generation = g
  /\ state.routes[r].state = "released"

-----------------------------------------------------------------------------
(* The ledger's operations.  A caller may name any generation and state it *)
(* once saw; the compare-and-swap decides.                                 *)

Bind(r, o, e, at) ==
  CanBind(r, o, e) /\ Update(Bound(r, o, e, at))

Rebind(r, g, e, at) ==
  CanRebind(r, g, e, at) /\ Update(Rebound(r, e, at))

Transition(r, g, from, to) ==
  CanTransit(r, g, from, to) /\ Update(Transited(r, to))

Touch(r, g, from, at) ==
  CanTouch(r, g, from, at)
  /\ Update(WithRoute(r, [state.routes[r] EXCEPT !.activity = at]))

Remove(r, g) ==
  CanRemove(r, g) /\ Update(WithRoute(r, Absent))

(* Admit one data-path operation against the current assignment.           *)
AcquireOperation(op, r, o, g) ==
  /\ open
  /\ lease[op] = NoLease
  /\ r \in Present(state)
  /\ state.routes[r].owner = o
  /\ state.routes[r].generation = g
  /\ state.routes[r].state = "ready"
  /\ lease' = [lease EXCEPT ![op] =
                 [route |-> r, owner |-> o, generation |-> g,
                  engine |-> state.routes[r].engine, status |-> "live"]]
  /\ UNCHANGED <<state, disk, durable, open>>

(* Fault: a lease is uncounted only while its route is still ready.        *)
ReleaseOperationReadyOnly(op) ==
  LET entry == state.routes[lease[op].route]
      matches == /\ entry.owner = lease[op].owner
                 /\ entry.generation = lease[op].generation
                 /\ entry.state = "ready"
  IN
  /\ open
  /\ lease[op].status = "live"
  /\ lease' = [lease EXCEPT
                 ![op] = IF matches THEN NoLease ELSE [@ EXCEPT !.status = "leaked"]]
  /\ UNCHANGED <<state, disk, durable, open>>

(* The lease's key is uncounted only while the route still carries the     *)
(* assignment.  Otherwise Release reports a conflict and, because Release  *)
(* runs once, the key stays counted for the life of the process.           *)
ReleaseOperation(op) ==
  LET entry == state.routes[lease[op].route]
      matches == /\ entry.owner = lease[op].owner
                 /\ entry.generation = lease[op].generation
                 /\ entry.state \in {"ready", "draining"}
  IN
  /\ open
  /\ lease[op].status = "live"
  /\ lease' = [lease EXCEPT
                 ![op] = IF matches THEN NoLease ELSE [@ EXCEPT !.status = "leaked"]]
  /\ UNCHANGED <<state, disk, durable, open>>

(* Close refuses while an operation is counted.                            *)
Close ==
  /\ open
  /\ \A op \in Ops : ~Counted(op)
  /\ open' = FALSE
  /\ UNCHANGED <<state, disk, durable, lease>>

(* Open takes the file as it is.  `state` keeps the last ledger the        *)
(* previous process published until then.                                  *)
Open ==
  /\ ~open
  /\ Storable(disk)
  /\ open' = TRUE
  /\ state' = disk
  /\ UNCHANGED <<disk, durable, lease>>

(* The relay process dies: its leases die with it, the file stays.         *)
ProcessCrash ==
  /\ open
  /\ open' = FALSE
  /\ lease' = [op \in Ops |-> NoLease]
  /\ UNCHANGED <<state, disk, durable>>

(* The host dies: where the file system allows it, an unsynced rename is   *)
(* undone.                                                                 *)
HostCrash ==
  /\ open' = FALSE
  /\ lease' = [op \in Ops |-> NoLease]
  /\ disk' \in IF LosesRenames THEN durable ELSE {disk}
  /\ durable' = {disk'}
  /\ state' = state

EmptyLedger == [routes |-> [r \in Routes |-> Absent], lastGeneration |-> 0]

Init ==
  /\ state = EmptyLedger
  /\ disk = EmptyLedger
  /\ durable = {EmptyLedger}
  /\ open = TRUE
  /\ lease = [op \in Ops |-> NoLease]

Next ==
  \/ \E r \in Routes, o \in Owners, e \in Engines, at \in 0 .. MaxTime :
       Bind(r, o, e, at)
  \/ \E r \in Routes, g \in 1 .. MaxGeneration, e \in Engines, at \in 0 .. MaxTime :
       Rebind(r, g, e, at)
  \/ \E r \in Routes, g \in 1 .. MaxGeneration, from, to \in RouteStates :
       Transition(r, g, from, to)
  \/ \E r \in Routes, g \in 1 .. MaxGeneration, from \in RouteStates, at \in 0 .. MaxTime :
       Touch(r, g, from, at)
  \/ \E r \in Routes, g \in 1 .. MaxGeneration : Remove(r, g)
  \/ \E op \in Ops, r \in Routes, o \in Owners, g \in 1 .. MaxGeneration :
       AcquireOperation(op, r, o, g)
  \/ \E op \in Ops : ReleaseOperation(op)
  \/ Close
  \/ Open
  \/ ProcessCrash
  \/ HostCrash

Spec == Init /\ [][Next]_vars

-----------------------------------------------------------------------------
(* Type correctness of the ledger, its file and the leases.                *)
TypeOK ==
  /\ state \in DiskState
  /\ disk \in DiskState
  /\ durable \subseteq DiskState
  /\ open \in BOOLEAN
  /\ lease \in [Ops -> Lease]

(* A live lease pins its assignment: while an admitted operation has not   *)
(* released, its route still has the owner, the generation and the engine  *)
(* that admitted it, and is ready or draining.  No standby, release,       *)
(* rebind, removal, failed write or restart moves the route under it.      *)
LeasePinsAssignment ==
  \A op \in Ops : lease[op].status = "live" =>
    LET entry == state.routes[lease[op].route] IN
    /\ open
    /\ entry.owner = lease[op].owner
    /\ entry.generation = lease[op].generation
    /\ entry.engine = lease[op].engine
    /\ entry.state \in {"ready", "draining"}

(* releaseOperation never takes its conflict path: no key stays counted    *)
(* after its lease was released, so no route is stuck in draining and      *)
(* Close is not refused forever.                                           *)
NoLeakedLease == \A op \in Ops : lease[op].status # "leaked"

(* What Bind, Rebind, Transition and Remove propose after their own checks *)
(* is consistent: of what update validates once more, only the two limits  *)
(* can still refuse the call.                                              *)
OnlyLimitsRefuse ==
  \A r \in Routes :
    /\ \A o \in Owners, e \in Engines :
         CanBind(r, o, e) => Consistent(Bound(r, o, e, 0))
    /\ \A e \in Engines :
         CanRebind(r, state.routes[r].generation, e, MaxTime)
           => Consistent(Rebound(r, e, MaxTime))
    /\ \A to \in RouteStates :
         CanTransit(r, state.routes[r].generation, state.routes[r].state, to)
           => Consistent(Transited(r, to))
    /\ CanRemove(r, state.routes[r].generation)
         => Consistent(WithRoute(r, Absent))

(* A full ledger can be emptied and what is under way in it finished: the  *)
(* limits refuse no removal and no transition other than the one to        *)
(* draining, whose name is longer than the one it replaces (at the byte    *)
(* limit a drain is refused until another route is released).              *)
FullLedgerDrains ==
  \A r \in Routes :
    /\ \A to \in RouteStates \ {"draining"} :
         CanTransit(r, state.routes[r].generation, state.routes[r].state, to)
           => Storable(Transited(r, to))
    /\ CanRemove(r, state.routes[r].generation) => Storable(WithRoute(r, Absent))

(* The second validation, in update and persist, refuses a call that the   *)
(* first checks accepted only at the route or the byte limit, and there    *)
(* only what makes the ledger grow.                                        *)
LimitsOnlyRefuseGrowth == OnlyLimitsRefuse /\ FullLedgerDrains

(* The generation clock the process publishes never runs backwards, across *)
(* failed writes, crashes that keep the renamed file, and restarts.        *)
ClockNeverBack == [][state'.lastGeneration >= state.lastGeneration]_vars

(* An assignment that appears, or that changes its owner or engine while   *)
(* the route exists, carries a generation above every one published        *)
(* before: no generation ever names two assignments.                       *)
FreshAssignment(r) ==
  LET old == state.routes[r]
      new == state'.routes[r]
  IN  new.state = "absent"
      \/ new.generation > state.lastGeneration
      \/ /\ old.generation = new.generation
         /\ old.owner = new.owner
         /\ new.engine \in {old.engine, NoEngine}

GenerationsNeverReused == [][\A r \in Routes : FreshAssignment(r)]_vars
=============================================================================
