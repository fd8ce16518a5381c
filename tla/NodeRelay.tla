----------------------------- MODULE NodeRelay ------------------------------
(***************************************************************************)
(* The node relay (src/internal/node/relay_server.go, replay.go,           *)
(* capability.go, dataplane.go), the process that runs guest operations    *)
(* against the engine, on top of the route ledger it owns.                 *)
(*                                                                         *)
(* One route of one sandbox is followed.  A handler serves one request at  *)
(* a time; its place in the handler is `handler[h].at`, and a step is what *)
(* the code does between two points where another goroutine can run: the   *)
(* ledger's and the replay cache's mutexes, and every reading of the       *)
(* clock.  The replay cache reads the clock before it takes its mutex, so  *)
(* the reading is kept in `handler[h].now`.  Signatures, digests and size  *)
(* bounds are left out: a request carries the capability it was issued.    *)
(***************************************************************************)
EXTENDS Integers, FiniteSets

CONSTANTS
  Engines,         \* engine identities a route may point at
  Handlers,        \* the relay's in-flight slots (MaxInFlight of them)
  ReplayCapacity,  \* live identifiers the replay cache holds
  MaxClock,        \* bound: the clock stops here
  MaxBoots,        \* bound: how often the relay process starts
  MaxGeneration,   \* bound: generations the ledger's clock can issue
  MaxVersions,     \* bound: ledger files a host crash may choose from
  LosesRenames     \* whether a host crash may undo an unsynced rename

ASSUME RelayAssumption ==
  /\ ReplayCapacity \in Nat \ {0}
  /\ MaxClock \in Nat /\ MaxBoots \in Nat \ {0}
  /\ "no engine" \notin Engines

(* The handlers' programs: which of their steps a request goes through.    *)
(* Only a handler that takes a body waits for the client before it         *)
(* authorizes; only the port handlers may refuse a port after it; a        *)
(* WebSocket's connection is hijacked, so Shutdown does not wait for it.   *)
command   == [body |-> TRUE,  port |-> FALSE, hijacked |-> FALSE]
writeFile == [body |-> TRUE,  port |-> FALSE, hijacked |-> FALSE]
readFile  == [body |-> FALSE, port |-> FALSE, hijacked |-> FALSE]
proxyPort == [body |-> TRUE,  port |-> TRUE,  hijacked |-> FALSE]
webSocket == [body |-> FALSE, port |-> TRUE,  hijacked |-> TRUE]

(* A guest operation is named after its kind and issued one capability.    *)
routes ==
  [command |-> command, write |-> writeFile, read |-> readFile,
   port |-> proxyPort, socket |-> webSocket]

Calls == DOMAIN routes

VARIABLES
  clock,    \* seconds; the controller and the node share it
  state, disk, durable, open, lease,  \* the ledger (module NodeLedger)
  boot,     \* the boot epoch the running relay process drew
  draining, \* RelayServer.draining
  used,     \* ReplayCache.used: the live identifiers with their expiry
  handler,  \* what each in-flight slot is doing
  ran       \* how often the engine was asked to perform each call

ledgerVars == <<state, disk, durable, open, lease>>
relayVars == <<ledgerVars, boot, draining, used, handler, ran>>

Route == "route"
Owner == "sandbox"

(* The limits of the ledger's file leave room for the one route.           *)
Ledger == INSTANCE NodeLedger WITH
  Routes <- {Route}, Owners <- {Owner}, Ops <- Handlers, NoOwner <- "no owner",
  NoEngine <- "no engine", MaxTime <- 0,
  maxRoutes <- 1, IdentityBytes <- 0, EngineBytes <- 2, maxLedgerBytes <- 11

(* What a CapabilityClaims and its request carry.  `engine` is the engine  *)
(* the operation was admitted for; no code reads it.                       *)
Capability ==
  [call: Calls, boot: 1 .. MaxBoots, generation: 1 .. MaxGeneration,
   expires: 0 .. MaxClock + 1, engine: Engines]

Idle == [at |-> "idle"]

HandlerStates ==
  {Idle}
  \cup [at: {"authenticated", "leased", "consumed", "bound", "running"}, cap: Capability]
  \cup [at: {"timed"}, cap: Capability, now: 0 .. MaxClock]

InFlight == {h \in Handlers : handler[h] # Idle}

-----------------------------------------------------------------------------
(* A new relay process draws a boot epoch no earlier process had.          *)

(* Fault variant: the boot epoch survives the process.                     *)
newRelayBootEpochKept == boot

newRelayBootEpoch == boot + 1

(* RelayServer.authenticate with CapabilityVerifier.Authenticate: all that *)
(* is decided before the body is read.                                     *)
authenticate(cap) ==
  /\ ~draining
  /\ clock < cap.expires
  /\ cap.boot = boot

(* ServeHTTP and a handler up to the reading of the body.  A data request  *)
(* that finds no free slot, or that is not authentic, is answered and      *)
(* leaves nothing behind.                                                  *)
ServeHTTP(h, cap) ==
  /\ open
  /\ handler[h] = Idle
  /\ handler' = [handler EXCEPT ![h] =
       IF authenticate(cap) THEN [at |-> "authenticated", cap |-> cap] ELSE Idle]
  /\ UNCHANGED <<ledgerVars, boot, draining, used, ran>>

(* The body is malformed, too large or never arrives, or AcquireOperation  *)
(* refuses the generation or the state.                                    *)
RefuseRequest(h) ==
  /\ handler[h].at = "authenticated"
  /\ \/ routes[handler[h].cap.call].body
     \/ state.routes[Route].generation # handler[h].cap.generation
     \/ state.routes[Route].state # "ready"
  /\ handler' = [handler EXCEPT ![h] = Idle]
  /\ UNCHANGED <<ledgerVars, boot, draining, used, ran>>

(* authorize, first part: the lease on the exact ready generation.  Match  *)
(* then compares the claims with the binding the lease returned.           *)
AcquireLease(h) ==
  /\ handler[h].at = "authenticated"
  /\ Ledger!AcquireOperation(h, Route, Owner, handler[h].cap.generation)
  /\ handler' = [handler EXCEPT ![h].at = "leased"]
  /\ UNCHANGED <<boot, draining, used, ran>>

(* Every later refusal gives the lease back.                               *)
GiveUp(h) ==
  /\ Ledger!ReleaseOperation(h)
  /\ handler' = [handler EXCEPT ![h] = Idle]
  /\ UNCHANGED <<boot, draining, ran>>

(* ReplayCache.Use before its mutex: read the clock, refuse the expired.   *)
ReadClock(h) ==
  LET cap == handler[h].cap IN
  /\ handler[h].at = "leased"
  /\ IF clock < cap.expires
     THEN /\ handler' = [handler EXCEPT ![h] = [at |-> "timed", cap |-> cap, now |-> clock]]
          /\ UNCHANGED <<ledgerVars, boot, draining, ran>>
     ELSE GiveUp(h)
  /\ UNCHANGED used

(* The identifiers Use keeps: those unexpired at the reading it took.      *)
LiveAt(now) == {c \in DOMAIN used : now < used[c]}

(* ReplayCache.Use under its mutex.  A saturated cache refuses.            *)
Use(h) ==
  LET cap  == handler[h].cap
      live == LiveAt(handler[h].now)
      kept == [c \in live |-> used[c]]
  IN
  /\ handler[h].at = "timed"
  /\ IF cap.call \in live \/ Cardinality(live) >= ReplayCapacity
     THEN used' = kept /\ GiveUp(h)
     ELSE /\ used' = [c \in live \cup {cap.call} |-> IF c = cap.call THEN cap.expires ELSE used[c]]
          /\ handler' = [handler EXCEPT ![h] = [at |-> "consumed", cap |-> cap]]
          /\ UNCHANGED <<ledgerVars, boot, draining, ran>>

(* The verify closure of authorize: the route still carries the binding.   *)
verify(h) ==
  LET entry == state.routes[Route] IN
  /\ entry.generation = lease[h].generation
  /\ entry.engine = lease[h].engine
  /\ entry.state \in {"ready", "draining"}

(* authorize, last part, and the check before the engine adapter is        *)
(* called: BindAuthorizedSandbox and SandboxBinding.validate both ask for  *)
(* an unexpired capability, and validate for a current route.              *)
Dispatch(h) ==
  /\ handler[h].at = "consumed"
  /\ IF clock < handler[h].cap.expires /\ verify(h)
     THEN /\ handler' = [handler EXCEPT ![h].at = "bound"]
          /\ UNCHANGED <<ledgerVars, boot, draining, ran>>
     ELSE GiveUp(h)
  /\ UNCHANGED used

(* The adapter looks up, or connects to, the sandbox at the engine and     *)
(* then starts the operation in it.  Nothing is checked again in between:  *)
(* no deadline of the capability or of the sandbox bounds the lookup.      *)
StartInEngine(h) ==
  /\ handler[h].at = "bound"
  /\ handler' = [handler EXCEPT ![h].at = "running"]
  /\ ran' = [ran EXCEPT ![handler[h].cap.call] = @ + 1]
  /\ UNCHANGED <<ledgerVars, boot, draining, used>>

(* The engine answers, the lookup or the call fails, or its deadline or    *)
(* the client's disconnect ends the call.  The handler revokes its binding *)
(* and releases its lease.                                                 *)
(* A port handler may end after the identifier was consumed, when the      *)
(* engine adapter does not accept the port.                                *)
Finish(h) ==
  /\ \/ handler[h].at \in {"bound", "running"}
     \/ handler[h].at = "consumed" /\ routes[handler[h].cap.call].port
  /\ GiveUp(h)
  /\ UNCHANGED used

-----------------------------------------------------------------------------
(* The relay process (src/cmd/brezel-node/main.go).                        *)

BeginDrain ==
  /\ open /\ ~draining
  /\ draining' = TRUE
  /\ UNCHANGED <<ledgerVars, boot, used, handler, ran>>

(* Shutdown waits for the handlers that are not hijacked and the ledger is *)
(* closed last: Close refuses while a WebSocket holds a lease, and the     *)
(* exit of the process then drops the handler and the lease.               *)
Shutdown ==
  /\ draining
  /\ \A h \in InFlight :
       handler[h].at = "running" /\ routes[handler[h].cap.call].hijacked
  /\ IF InFlight = {} THEN Ledger!Close ELSE Ledger!ProcessCrash
  /\ handler' = [h \in Handlers |-> Idle]
  /\ UNCHANGED <<boot, draining, used, ran>>

(* The process or its host crashes, or the shutdown timeout passes with    *)
(* handlers in flight.                                                     *)
Killed ==
  /\ Ledger!ProcessCrash \/ Ledger!HostCrash
  /\ handler' = [h \in Handlers |-> Idle]
  /\ UNCHANGED <<boot, draining, used, ran>>

(* run() up to serving: a fresh replay cache, ledger and relay.            *)
Start ==
  /\ boot < MaxBoots
  /\ Ledger!Open
  /\ boot' = newRelayBootEpoch
  /\ draining' = FALSE
  /\ used' = <<>>
  /\ UNCHANGED <<handler, ran>>

HandlerStep(h) ==
  RefuseRequest(h) \/ AcquireLease(h) \/ ReadClock(h) \/ Use(h) \/ Dispatch(h)
    \/ StartInEngine(h) \/ Finish(h)
=============================================================================
