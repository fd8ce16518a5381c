---------------------------- MODULE PreviewLeases ---------------------------
(***************************************************************************)
(* Port and browser leases of the HTTP API (src/internal/httpapi/          *)
(* server.go) on top of the E2B client: a lease is created for a sandbox   *)
(* that takes guest operations and lets its holder reach a port until it   *)
(* expires.  Leases of another sandbox share the table.                    *)
(***************************************************************************)
EXTENDS EngineClient, FiniteSets

CONSTANTS
  Tokens,            \* lease tokens
  maxPortLeases, maxSandboxLeases,
  LeaseTTL,          \* seconds a lease is asked for
  Mixes              \* the calls of a behaviour

ASSUME LeaseAssumption ==
  /\ IsFiniteSet(Tokens) /\ LeaseTTL \in Nat \ {0}
  /\ maxPortLeases \in Nat /\ maxSandboxLeases \in Nat

VARIABLES
  leases,   \* Server.leases
  asking,   \* createPortLease handlers past ValidatePortAccess
  mix

vars == <<clientVars, processVars, leases, asking, mix>>

Sandboxes == {"this", "other"}

Lease  == [kind: {"port", "browser"}, of: Sandboxes, until: 0 .. MaxClock + LeaseTTL]
Leases == UNION {[T -> Lease] : T \in SUBSET Tokens}

(* Types, and no reconnection beyond the client's limit.                   *)
TypeOK ==
  /\ clock \in 0 .. MaxClock
  /\ engine \in [state: {"running", "paused", "gone"}, alive: BOOLEAN, stopped: 0 .. MaxClock]
  /\ cache \in [Clients -> Caches] /\ job \in [Jobs -> JobStates] /\ deploy \in Deployment
  /\ box \in {"running", "standby", "unknown", "deleting", "gone"}
  /\ proc \in EventJournal /\ stream \in Streams /\ run \in Runs
  /\ leases \in Leases /\ asking \subseteq Jobs \X Sandboxes /\ mix \in Mixes

Expired(t) == clock >= leases[t].until

removeExpiredLeasesLocked == {t \in DOMAIN leases : ~Expired(t)}

sandboxLeaseCountLocked(kept, of) == Cardinality({t \in kept : leases[t].of = of})

(* The critical section at the end of both handlers: drop what has         *)
(* expired, refuse at a limit, or store the lease under a new token.       *)
Grant(kind, of) ==
  LET kept == removeExpiredLeasesLocked
      new  == CHOOSE t \in Tokens : t \notin kept
      full == Cardinality(kept) >= maxPortLeases
                \/ sandboxLeaseCountLocked(kept, of) >= maxSandboxLeases
  IN leases' = [t \in kept \cup (IF full THEN {} ELSE {new}) |->
                  IF t \in kept THEN leases[t]
                  ELSE [kind |-> kind, of |-> of, until |-> clock + LeaseTTL]]

(* createPortLease: ValidatePortAccess acquires and releases a guest       *)
(* operation; the lock comes later.                                        *)
CreatePortLease(room(_), grant(_)) ==
  /\ \E of \in Sandboxes :
       \/ /\ IF of = "this" THEN acquireGuestOperation ELSE "other" \in mix
          /\ room(of)
          /\ \E r \in Jobs : /\ \A b \in Sandboxes : <<r, b>> \notin asking
                             /\ asking' = asking \cup {<<r, of>>}
          /\ UNCHANGED leases
       \/ \E r \in Jobs : /\ <<r, of>> \in asking /\ asking' = asking \ {<<r, of>>}
                          /\ grant(of)
  /\ UNCHANGED <<clientVars, processVars, mix>>

(* Fault variant: the limits are looked at before the lock.                *)
createPortLeaseCheckedEarly ==
  CreatePortLease(
    LAMBDA of : /\ Cardinality(removeExpiredLeasesLocked) < maxPortLeases
                /\ sandboxLeaseCountLocked(removeExpiredLeasesLocked, of) < maxSandboxLeases,
    LAMBDA of : \E t \in Tokens \ DOMAIN leases :
       leases' = [u \in DOMAIN leases \cup {t} |->
                    IF u = t THEN [kind |-> "port", of |-> of, until |-> clock + LeaseTTL]
                    ELSE leases[u]])

createPortLease == CreatePortLease(LAMBDA of : TRUE, LAMBDA of : Grant("port", of))

(* createBrowserLease asks the browser for its endpoint through the port,  *)
(* and holds that operation until the lease is stored or refused.          *)
createBrowserLease(j) ==
  /\ \/ portConnection(j, "probe") /\ UNCHANGED leases
     \/ /\ job[j].at = "using" /\ job[j].kind = "probe"
        /\ Grant("browser", "this") \/ UNCHANGED leases
        /\ Leave(j)
        /\ UNCHANGED <<clock, engine, cache, box, deploy, processVars>>
  /\ UNCHANGED <<asking, mix>>

(* The handlers of a lease: it must exist and not have expired; an expired *)
(* one is removed.  The sandbox must still take guest operations.          *)
Proxy(j, kind) ==
  /\ Free(j)
  /\ \E t \in DOMAIN leases :
       /\ leases[t].kind = kind /\ leases[t].of = "this"
       /\ \/ ~Expired(t) /\ portConnection(j, "port") /\ UNCHANGED leases
          \/ /\ Expired(t)
             /\ leases' = [u \in DOMAIN leases \ {t} |-> leases[u]]
             /\ UNCHANGED <<clientVars, processVars>>
  /\ UNCHANGED <<asking, mix>>

proxyPort(j) == Proxy(j, "port")

proxyBrowserWebSocket(j) == Proxy(j, "browser")

(* The leases are in the memory of the API's process.                      *)
APIRestart ==
  /\ Restart("api")
  /\ leases' = <<>> /\ asking' = {}
  /\ UNCHANGED mix

-----------------------------------------------------------------------------
Init ==
  /\ ClientInit
  /\ leases = <<>> /\ asking = {}
  /\ mix \in Mixes
  /\ deploy = [relayed |-> "node" \in mix, autoResume |-> "autoResume" \in mix]
  /\ IF "run" \in mix THEN ~cachedPortCredential(cache["api"]) ELSE proc.replay

Client(A) == A /\ UNCHANGED <<leases, asking, mix>>

Call ==
  \/ "port" \in mix /\ createPortLease
  \/ \E j \in Jobs :
       \/ "browser" \in mix /\ createBrowserLease(j)
       \/ "port" \in mix /\ proxyPort(j)
       \/ "browser" \in mix /\ proxyBrowserWebSocket(j)
       \/ Client("file" \in mix /\ guestConnectionFor(j, "file"))
       \/ Client("run" \in mix /\ guestConnectionFor(j, "run"))
       \/ Client("inspect" \in mix /\ Inspect(j))
       \/ Client("pause" \in mix /\ Pause(j))
       \/ Client("pause" \in mix /\ Resume(j))
       \/ Client("delete" \in mix /\ Delete(j))

Progress ==
  \/ \E j \in Jobs : Client(Answer(j)) \/ Client(RunGuest(j))
  \/ Client(ClientStep /\ UNCHANGED clientVars)

Environment ==
  \/ Client(streamJournal /\ UNCHANGED clientVars)
  \/ Client((Output \/ Evict \/ Break \/ Upgrade) /\ UNCHANGED clientVars)
  \/ "cancel" \in mix /\ Client(Cancel /\ UNCHANGED clientVars)
  \/ "crash" \in mix /\ Client(HostCrash)
  \/ "restart" \in mix /\ (APIRestart \/ Client(Restart("node")))
  \/ "tick" \in mix /\ Client(Tick)

Next == Call \/ Progress \/ Environment

Spec == Init /\ [][Next]_vars

(* Handlers run to their end, and envd goes on sending.                    *)
FairSpec ==
  /\ Spec
  /\ WF_vars(Client(ClientStep /\ UNCHANGED clientVars))
  /\ WF_vars(Client(streamJournal /\ UNCHANGED clientVars))

-----------------------------------------------------------------------------
(* The limits on leases hold however many handlers pass the validation     *)
(* before they reach the lock: no sandbox has more than maxSandboxLeases   *)
(* leases, and the table no more than maxPortLeases entries.               *)
LeaseQuota ==
  /\ Cardinality(DOMAIN leases) <= maxPortLeases
  /\ \A of \in Sandboxes :
       sandboxLeaseCountLocked(removeExpiredLeasesLocked, of) <= maxSandboxLeases
=============================================================================
