# A formal model of brezel

brezel runs sandboxes: Firecracker microVMs on one host, owned by projects and
driven over an HTTP API. This directory holds TLA+ modules that model how it
keeps its promises, TLC configurations that check them on small instances, and
proofs of some of them that TLAPS checks for every instance. Everything is
translated from the Go code under `src/`; `PROJECT.json` gives, for each
definition, the lines it stands for.

## 1. The system

`brezeld`, the controller, serves the API. Its service keeps sandboxes,
operations, workspaces, checkpoints and connectors in a SQLite database and
drives an engine (an external Firecracker service), optionally through a pool of
warm microVMs. `brezel-node` runs beside the engine: it keeps a ledger of routes
and relays commands, files and port streams into the guest for whoever presents
a capability for the current generation of a route.

| Part | Source | State | Operations | What makes it hard |
|---|---|---|---|---|
| Route generation ledger | `internal/nodeledger` | routes with owner, engine, generation, state; a generation clock; a file; leases in memory | Bind, Rebind, Transition, Touch, Remove, AcquireOperation, Release, Open, Close | a write that fails after its rename; leases that outlive a drain; crashes of process or host |
| Lifecycle service | `internal/service/service.go` | durable record and operations; in-memory fence; guest registrations | Create, Pause, Resume, Delete, GetSandbox, Reconcile, automatic standby, expiry | the mutex is given up around every remote call; answers are lost; the process dies between intent and result |
| Route procedures | `internal/service/node_routes.go` | none of their own | attach, prepare pause, standby, resume, remove, reconcile, observe | each is several remote calls, and is repeated from wherever an earlier attempt stopped |
| Guest operations | `internal/service/guest.go`, `port.go` | registrations per sandbox, activity time | acquire, exact binding check, capability, request, release | race with pause, delete, expiry and automatic standby; requests that arrive late or twice |
| Warm pool | `internal/backend/warm` | a table of slots | Prime, Maintain, Create, Find, Delete | four goroutines on one table, crashes, single use |
| Relay and capabilities | `internal/node` | replay cache, sessions, leases | admission of a data-path request | clock skew, full cache, drain |
| Route administration | `internal/node/route_admin_*` | none of its own | bind, transition, rebind, remove with replays | an answer that is lost and a request that is repeated |
| Workspaces | `internal/service/workspace.go` | workspace rows, attachment index | create, delete, reconcile | deletion against attachment |
| Admission and idempotency | `internal/service/*_admission.go`, `internal/store/*admission.go` | capacity counters, operation keys | admit a create | replay before quota, counters kept incrementally |
| Store | `internal/store` | SQLite tables, capacity counters, mount table, lifecycle operation heads | scoped transactions | derived tables that must agree with the rows |
| Checkpoints | `service.go` | checkpoint rows | Checkpoint, DeleteCheckpoint, restore | same fence as the lifecycle |
| Engine client | `internal/backend/e2b` | live proof, guest and port credentials, in memory | guest, port and lifecycle calls | overlapping calls write into the maps that a lifecycle call clears |
| Guest process protocol | `internal/backend/e2b/guest.go`, envd patch 0009 | journal in the guest, cursor in the client | Run, reconnect, replay | streams that die at any event, a bounded journal |
| Connector broker | `internal/connector` | none | Issue, Renew, Verify, proxy | – |
| HTTP API | `internal/httpapi` | port and browser leases, admission semaphore | request handlers | limits under concurrency |
| The rest | command line, telemetry, benchmarks, TLS identities, receipts, root devices, SDKs | – | – | I/O and measurement; not modelled |

How they meet: a lifecycle call writes its intent, puts up a fence, gives up the
mutex, calls engine and node one call at a time, takes the mutex back and writes
the result. The reconciler observes each sandbox in the same way and repairs it.
A guest operation registers with the service, carries the route's generation to
the node, and holds a lease there while it runs; a drain of the route waits for
that lease.

## 2. Modules

| Module | Models | Checked by |
|---|---|---|
| `NodeLedger` | `internal/nodeledger/ledger.go` | `MCNodeLedger` with `MCNodeLedger.cfg`; as the ledger of `NodeRelay` |
| `NodeLedgerProofs` | theorems about `NodeLedger` | TLAPS |
| `NodeRelay` | `internal/node` (server side), `cmd/brezel-node`; instantiates `NodeLedger` | through `DataPath` |
| `GuestOps` | `internal/service/guest.go`, `port.go`, `internal/node/relay_client.go`; extends `NodeRelay` | through `DataPath` |
| `DataPath` | the composition: guest operations, relay, ledger and the lifecycle procedures that move the route | `MCDataPath.cfg` |
| `SandboxRecord` | the durable record, its state machine, the operations a state completes (`internal/domain`, `service.go`) | through `SandboxLifecycle` |
| `NodeRoutes` | `internal/service/node_routes.go` with the answers of `route_admin_server.go` | through `SandboxLifecycle` and `DataPath` |
| `SandboxLifecycle` | `internal/service/service.go`, the registrations of `guest.go`, `cmd/brezeld`'s reconcile loop, the engine client | `MCSandboxLifecycle` with `MCLifecycle*.cfg` |
| `StateStore` | `internal/store`: transactions and the tables derived from the rows | through `ControlPlane` |
| `ControlPlane` | admission, workspaces, checkpoints, environments, connectors and the reconciliation of workspaces | `MCControlPlane` with `MCControl.cfg` |
| `ResourceContract` | abstract specification of workspaces, checkpoints and requests | implemented by `ControlPlane` (`Contract`) |
| `ContractProofs` | theorem about `ResourceContract` | TLAPS |
| `WarmPool` | `internal/backend/warm/pool.go`, `cmd/brezeld`'s priming and maintenance loop, the service as the pool's caller | `MCWarmPool` with `MCWarmPool*.cfg` |
| `GuestProcess` | `Client.Run` of `internal/backend/e2b/guest.go` and envd's journal (patch 0009) | through `PreviewLeases` |
| `EngineClient` | the client's live proof and credentials (`client.go`, `guest.go`, `port.go`); extends `GuestProcess` | through `PreviewLeases` |
| `PreviewLeases` | port and browser leases of `internal/httpapi/server.go`; extends `EngineClient` | `MCPreview.cfg` |

In several modules a behaviour begins by choosing a *mix*: the calls that
clients make and the faults that happen in it. Every mix starts from the same
state and runs the same actions; what a mix leaves out is a call nobody makes.
The mixes of a configuration are chosen so that each hazard has one in which all
its actors are present, where all calls and all faults together would be out of
reach.

### NodeLedger

`state` is `Ledger.state`, `disk` the file on disk, `durable` the versions a
host crash may leave, `open` whether a process has the ledger open, `lease` the
operation leases. Each public method of `Ledger` is an action. `Update` is the
method of the same name: validate, encode, write a temporary file, rename, sync
the directory, publish in memory; its second disjunct is the failure of the
directory sync, where the caller gets an error, memory keeps the old ledger and
the file is already new. Failures before the rename change nothing and are
stuttering steps. `ProcessCrash` forgets memory and leases, `HostCrash` also
picks one of the versions the disk may still hold. Callers may pass any
generation and any expected state; the compare-and-swap decides.

What `Update` is given has passed the checks of its caller and is validated once
more. `Consistent` is that validation but for the limits; `Storable` adds the
number of routes and the size of the file, which the model counts by what
changes it: the name of the state and the engine identity, left out of a
released entry. Digits of generations and times are of one length.

Bounds: two owners, engines and operations are enough for every conflict rule
(each compares two routes); three routes for a limit of two, and a file that two
attaching routes do not fit into together, so that both limits refuse; three
generations allow a bind, a rebind and an exhausted clock; `MaxVersions = 2`
allows one unsynced rename at a time.

### SandboxRecord, NodeRoutes, SandboxLifecycle

One sandbox, because no lifecycle procedure reads the record of another. The
variables `sb` and `op` are durable; `fence` (`activeBackendMutations`), `guest`
(`activeGuestOps`), `mu`, `task` and `round` are memory and die with the
process; `vm`, `route` and `clock` belong to the engine and the node.

A thread's `task` is its program counter and its local copy of the record.
`Plan` gives the order of a procedure's calls, `RouteMove` the call that each
route procedure makes in each state of the route. Each region under the mutex is
one action and each remote call is one action, so that everything that can
interleave does. Revisions are not numbers: `fresh` says whether a thread's copy
is still the newest, which is all the code asks of a revision, and `round.moved`
says which operations changed after the reconciler listed them.

`guest` is "cancelled" from the expiry, which cancels the registered operation,
until the operation has gone. A microVM that dies is "absent" or "dead": the
engine's row still says running, the health probe of an inspection fails, and
only a recent proof hides it. Such a row goes at the latest after the expiry.

A mix says what clients call, which faults happen (an engine call fails or its
answer is lost, a create completes after its caller gave up, a microVM dies, a
route call fails or its answer is lost, a store write fails, a round's deadline
passes, the controller crashes), whether two API calls may be in progress at
once (`overlap`) and whether two faults may happen in place of one (`twice`).
`MaxGeneration` bounds the resumes. In `lifecycle_recovery`, where liveness is
the cost, GetSandbox meets every fault beside pause and delete, but only
crashes beside resume. In `lifecycle_safety` two faults in a row happen without
guest operations and automatic standby.

Simplifications: reads of the store do not fail; a round that only settles
operations counts as a write of the record; a failed write of the activity time
at the end of a guest operation is left out, as is the one-time upgrade of
records without an activity time; the engine client's short cache of guests
known to be alive appears only as what an inspection may answer; failure codes
that say only which call of a transition failed are one code; events, receipts,
quotas and idempotent replays (which return a stored result) are left out.

Fairness: `FairSpec` assumes that goroutines run, that the reconcile ticker
fires (every ten seconds), that remote calls return and guest operations end
(every one has a deadline), and that a dead controller is started again
(systemd). It does not assume that clients do anything, that the sandbox
expires, or that faults happen or stop other than by the budget.

### WarmPool

`row` is the table `warm_slots`, in the order of `created_at`; `vm` holds the
engine's microVMs, named by their slot or, for a cold create, by their sandbox;
`customer` is what the service has recorded of each sandbox; `served` remembers
which sandboxes a slot's microVM was handed to. `task` is the program counter of
the API goroutines, the reconciler, the keeper (which primes and then maintains)
and the maker that `createReserved` starts for each new slot. Each transaction
under the pool's mutex is one action and each engine call is one action; a
goroutine keeps the state in which it read a row (`from`), as the code does, and
the keeper its whole list (`todo`).

Time appears as what it decides: `overdue` slots were reserved more than five
minutes ago, `old` ones are due for rotation. Both contexts that refill a pool in
service end within five minutes, so that a slot that is overdue has no create
call in progress; `SlowCreates` says whether the maker may still be between that
call and its update of the row. The caller is the lifecycle service: it creates
a sandbox once, has one create or cleanup of a sandbox in progress, and looks
for a sandbox without a known microVM. The branch of `Create` that meets an
earlier claim of the same sandbox is therefore translated but not exercised.
Close, the guest calls that pass through the pool and the unreachable branch of
`createSlot` for a created microVM that is not running are left out.

Bounds: with one slot and two sandboxes every claim competes; one sandbox and
two faults let recovery itself fail. `MaxSlots` leaves room for
every replacement that the faults of an instance can cause, so that it never
blocks a refill (deadlock is checked). Fairness: goroutines run and calls return,
maintenance (every minute) and reconciliation recur, the process is restarted,
and a slot that stays in creating becomes overdue.

### NodeRelay, GuestOps, DataPath

One sandbox with one route. `NodeRelay` instantiates `NodeLedger`, so that every
lease, drain, rebind, failed sync and crash of the ledger is the one checked and
proved there. A handler of the relay is a program of a few steps (authenticate,
read the body, take the lease, read the clock, use the identifier, verify
(`Dispatch`), start in the engine, release), and a step ends wherever another
goroutine can run. The engine adapter may look the sandbox up between the last
check and the start, for as long as it takes: `NeverAdmittedLate` is about the
check, `RunsWhereAdmitted` and `SingleUse` about the start.
A guest operation is a program of the controller; its request is a message in
`copies`, which may arrive late, twice or never. The lifecycle procedures are
lists of engine calls and of the route procedures of `NodeRoutes`; they run
behind the fence, one administrative call at a time.

A binding's revision is `fresh`: every write of the row makes the bindings
stale that have not been checked. `engine` in a capability is the microVM the
operation was admitted for; no code reads it and `RunsWhereAdmitted` is about it.

Bounds: two handlers and a replay cache for one live identifier, so that it
fills; a clock of three instants, within which capability, binding and sandbox
expire in this order or together; three boots of the relay, three generations,
two faults. Each mix has at most two guest operations. Simplifications:
controller and node share one clock; the transport resends only requests
without a body; a restart of the controller is one step (its start-up
reconciliation is `Reconcile`); bind and attach are in `SandboxLifecycle`.
Fairness: handlers and operations end by their deadlines, the relay is restarted
and the reconciler keeps running.

### StateStore, ControlPlane, ResourceContract

`rows` are the resources, operations and idempotency claims of the database,
`index` the derived tables: counters, the owner of each mounted workspace, the
head operation of each family. A transaction changes rows and brings the index
after them incrementally, as `syncEncodedState` does; `Rebuilt` is what opening
the database computes from a scan. `held` is the call that keeps the mutex
across its engine call (CreateWorkspace, DeleteWorkspace, DeleteCheckpoint),
`shot` a checkpoint behind its fence, `rec` the reconciler with the lists it has
read ahead. What becomes of a sandbox after its admission is in
`SandboxLifecycle`; here `SandboxWrite` stands for any of those writes.

`ResourceContract` states the promise without mutex, fences, counters, lists,
operations or crashes: every condition is about the resources as they are at
the instant of the step. `MCControlPlane` gives the refinement mapping, with the
volumes and snapshots of the engine as what they are and the rest as a function
of the rows.

Bounds: four request keys, two workspaces, four sandboxes, limits of one to
three, so that each limit is met and each refused once; two projects where
limits are per project; two connectors for a limit of one; two faults in each
mix, three in the one that is marked "again", where an older deletion is
completed after a newer one was asked for. A workspace alone meets every kind of
fault but the upgrade, two of them lost answers, crashes and the deadline
between them, a workspace with sandboxes lost answers, crashes and upgrades, a
checkpoint all but the deadline. Simplifications: a key stands for one input;
reads of the store do not fail; the engine carries nothing out after its caller
has given up. Fairness: a call that holds the mutex returns, the controller is
restarted, the reconcile ticker fires.

### GuestProcess, EngineClient, PreviewLeases

`proc` is a process in the guest with its journal, `stream` the stream between
envd and the client, `run` the client's recovery state. A stream may die at any
event, losing any suffix of what was on its way and, if nothing arrived, its
headers. envd may be upgraded in place, which starts a new journal, and may
have evicted what is asked for. A data event is its place in the output; one of
them carries no bytes, which matters because the client counts it and does not
pass it on.

`cache` holds, for each client, its three proofs of a sandbox with their expiry,
`job` the calls in progress, `engine` the microVM. A credential is `fresh` until
a lifecycle call begins after it was asked for. `box` is the state the service
has recorded; together with the calls it has registered it decides which calls
it makes. `leases` is the API's table.

`deploy` is the deployment. Without nodes the service makes all calls with one
client. With nodes, guest and port calls go through a client in the node's
process, whose maps no Pause or Resume of the controller clears: what it holds
lives out its second (half a minute for a port credential), which the comment at
`guestCredentialTTL` ("an API restart, lifecycle mutation, or expiry always
forces a fresh engine read") does not say of it. `FreshReadAfterLifecycle` is
therefore about the first deployment. A restart of the controller forgets which
calls are registered, while the node goes on serving them and the engine may
still carry out a pause, a resume or a deletion.

A health probe is two steps, the guest's answer and the client's `rememberLive`:
the guest may be lost in between, and `LivenessProofBounded` allows for that with
the deadline of a probe.

Bounds: three data events and a journal of two records, two reconnections (three
in the code), one upgrade; two calls at the same time; a clock of five instants,
a live proof and a guest credential that last two, a probe of one, a port
credential of three; two leases for each of two sandboxes and three overall, so
that each limit binds. Simplifications: what the client does locally after an
answer is one step; a command does not survive the restart of its client and is
not followed past it; the sandbox has no inactivity policy; the other sandbox
appears only by its leases; envd's events are well formed. Fairness: the client
and envd's stream go on; processes need not end, and streams may die at any
time.

## 3. Runs

| Run | Question | Result |
|---|---|---|
| `ledger` | leases, limits and clock over failed writes and crashes of process and host, on a file system that keeps renames (`data_path` and the proofs about leases have one that may lose them) | holds |
| `data_path` | does a request run only where it was admitted, once and under a lease, and is it admitted in time; does a pause complete only when nothing runs, and complete at all; with restarts of relay, controller and host | holds |
| `lifecycle_safety` | mutual exclusion, lost updates, revival, unconfirmed success and leftovers, with two API threads and one or two faults of any kind | holds |
| `lifecycle_recovery` | do fences come down, does recovery end, does every cleanup and expiry end but for three ways to get stuck, two of them shown below | holds |
| `lifecycle_cleanup_stuck` | does cleanup end when a route call fails? | no |
| `lifecycle_expiry_stuck` | does an expired sandbox end after a crash? | no |
| `pool_strict` | single use, the physical budget, stray microVMs and honest refusals of a strict pool, one fault | holds |
| `pool_refill` | do customers keep their slots and does the pool come back to its target, two faults without the loss of a microVM | holds |
| `pool_slow_create` | do customers keep their slots when a create is slow? | no |
| `pool_leak` | is the slot of a lost microVM reclaimed? | no |
| `control` | are the derived tables exact, heads the latest operations, limits kept, engine resources accounted for, unsettled workspaces settled, and is `ResourceContract` implemented | holds |
| `preview` | is a command's output exact over reconnections, how long does a client vouch for a lost guest, is a credential from before a pause ever used, are lease limits kept | holds |

The four negative results are disagreements between the code and what its
documents or comments say; `PROJECT.json` quotes the lines.

* **Cleanup** – cleanup begins by preparing the route for a pause, which is an
  error for a route that is already released or removed. When a removal stops
  half way, every later attempt of the reconciler fails at that step.
* **Expiry** – a sandbox that a crash left in preparing, pausing or resuming may
  not expire, and an expired one is not observed. The initial reconciliation
  reports the refusal and the controller does not come up.
* **Slow create** – maintenance repairs a slot by the state in which it read it.
  When the create took close to five minutes, the slot can have been claimed and
  paused in the meantime, and maintenance destroys it without the guarded update
  that protects every other destruction.
* **Leak** – a sandbox whose microVM is lost fails, and nobody deletes a failed
  sandbox; its claimed slot is in no list and counts against the target for ever.

`DoomedEnds` closes the first two: whatever fails, a sandbox with a cleanup
intent or past its expiry reaches a terminal state unless it stays for ever in
`HalfRemoved` or in `CutShort`, the states of these two findings, or in
`Unfindable`: the identity of its microVM was never recorded, and the engine
keeps the row of a guest that is dead, which Find can only report as an error.

Some positive results hold only in the environment their run names, and each
exclusion is needed:

* `LimitsOnlyRefuseGrowth` excepts one transition: "draining" is a longer word
  than "ready", so that a ledger within three bytes of its limit refuses to drain
  a route until another is released or removed.
* `HeadsExact` gives up the newest operation once an upgrade has rebuilt the
  heads, which goes by the time of the last update. It does not say that every
  operation is completed: a round that read its operations before the latest one
  may settle the workspace, whose head is then dropped, and the operation stays
  running for ever.
* `GuestsUndisturbed` allows GetSandbox's cleanup, which runs under the mutex,
  to take place under an operation that the expiry has cancelled.
* `RecoveryConverges` exempts a sandbox whose engine row outlives its guest; it
  stays unknown until that row or the sandbox expires.
* `GenerationsNeverReused` is checked and proved for a file system on which a
  host crash keeps what was renamed (`LosesRenames` is FALSE). A rename whose
  directory sync failed is served after a process restart, and a later host
  crash can undo it together with the generations issued from it.
* `NothingLeft` speaks of the route only while nobody calls GetSandbox. The
  cleanup that GetSandbox carries out does not look for a route whose bind was
  never saved.
* `PauseSettles` exempts a ledger file that a host crash has taken back behind
  the generation the controller recorded, which every route procedure refuses,
  an exhausted generation clock, and `CutShort`.
* `NothingLeft`, `SuccessConfirmed`, `NoStraySlot` and `StrictBudget` are checked
  without `late_create`, the create that completes after its caller has given up
  and a lookup has found nothing. Service and pool take that lookup as proof of
  absence.

Create is the only engine call that a model lets take effect after its caller
has given up (`SandboxLifecycle`, `WarmPool`). Every other call has taken effect
by the time it fails, or never does, except that in `EngineClient` a lifecycle
call may reach the engine after the restart of its caller.

Each specification that is run has a type invariant, `TypeOK`, which TLC finds
true in every instance above; only that of the ledger is listed as a result,
because it is also proved.

Definitions headed "Fault" or "Fault variant" are single slips in the definition
below them, one for each property; substituting one makes TLC report that
property violated under the configuration of its run.

## 4. Proofs

`NodeLedgerProofs` proves, for any sets of routes, owners, engines and
operations and any bounds (`BoundsAssumption`, `NullAssumption`):

* `TypeCorrect`: `Spec => []TypeOK`. The clock's guard in Bind and Rebind is what
  keeps generations in range.
* `LeasesPinAssignments`: `Spec => [](LeasePinsAssignment /\ NoLeakedLease)`, host
  crashes included. The invariant is `LeaseInv`, types with both properties:
  neither is inductive alone, since a release finds its count because the
  assignment is pinned, and a drain may end because no count is left over.
* `GenerationsAreFresh`: when a host crash keeps what was renamed,
  `Spec => ClockNeverBack /\ GenerationsNeverReused`. The invariant `FileInv` says
  that the file is ahead of memory: its clock is not behind, and each of its
  assignments is memory's own or carries a generation memory has not reached.
  That is what makes a restart safe after a write that reported failure.

* `OnlyLimitsRefuseCalls`: `Spec => []OnlyLimitsRefuse`, the first half of
  `LimitsOnlyRefuseGrowth`. The invariant is that memory is `Consistent`;
  `ReplacedIsConsistent` says when a ledger with one entry replaced is so again,
  and `ChecksSuffice` that each call's checks give that: the conflict check
  (`AssignmentConflicts`), the fresh generation, and the engine identity that
  goes with the release. The other half, `FullLedgerDrains`, is a sum over the
  routes and stays with TLC.

Each is split by operation; `UpdateKeepsLeases` and `UpdateAhead` treat the write
path once for all of them.

`ContractProofs` proves `AttachmentIsExclusive`: `ContractSpec => []Attached`, for
any sandboxes, workspaces, requests and capacity. At most one live sandbox uses a
workspace, and what it uses exists and is not condemned. The invariant adds to
`Attached` that what is offered has its volume and is neither condemned nor
closed, which makes an admission safe, and that a closed workspace has no
volume; a workspace in use stays so because `Condemn` asks that it be free. Run
`control` shows on its instance that the control plane implements the contract;
that step is not proved.

Liveness under fairness, ENABLED and induction over data are out of the prover's
reach and stay with TLC. So do, for now, all safety properties of
`SandboxLifecycle`, `DataPath`, `ControlPlane`, `WarmPool` and `PreviewLeases`.

## 5. Not modelled

* Connector broker: it has no state; a lease is a signed value and every request
  is checked against one or two reads of the store.
* Identities, access policy, receipts, secure files: cryptography and file modes.
* Telemetry, benchmarks, conformance, qualification, command line, SDKs, root
  devices: measurement and I/O outside the request path.
* SQL, encodings, the file store, migration of rows, generated code under
  `backend/e2b/wire`.
* Of the modelled parts: events and receipts, payloads and sizes, signatures and
  digests, the request semaphore of the API, late effects of the engine outside
  `SandboxLifecycle`, `WarmPool` and `EngineClient`.

Next: the inductive invariants of `DataPath` (leases and generations, with the
theorems of `NodeLedgerProofs`), `OneMutator` and `NoLostUpdate` of the
lifecycle, `IndexExact`, and the refinement of `ResourceContract` as theorems.
