------------------------------ MODULE GuestOps ------------------------------
(***************************************************************************)
(* Guest operations of the controller (src/internal/service/guest.go and   *)
(* port.go) and its relay client (src/internal/node/relay_client.go), on   *)
(* top of the node relay.                                                  *)
(*                                                                         *)
(* An operation acquires the sandbox under the service mutex, binds to the *)
(* revision it saw, checks that binding, resolves the route at the node,   *)
(* issues a capability for exactly that boot and generation, sends the     *)
(* request and gives the sandbox back when the answer, or the reader of    *)
(* the answer, is done.  A revision is modelled by who still holds the     *)
(* current one: every write of the sandbox row clears `fresh` of the       *)
(* operations that read an earlier row.                                    *)
(***************************************************************************)
EXTENDS NodeRelay

CONSTANTS
  Expiry,         \* Sandbox.ExpiresAt
  BindingTTL,     \* authorizedNodeDataPlane: five minutes
  CapabilityTTL,  \* MaxCapabilityTTL: thirty seconds
  MaxGuestOps,    \* MaxConcurrentGuestOpsPerProject
  RecordsActivity,\* the sandbox has a standby window
  AutoResume      \* and its policy lets an operation reach it in standby

ASSUME GuestAssumption ==
  /\ Expiry \in 1 .. MaxClock
  /\ BindingTTL \in Nat \ {0} /\ CapabilityTTL \in Nat \ {0}
  /\ MaxGuestOps \in Nat \ {0}
  /\ RecordsActivity \in BOOLEAN /\ AutoResume \in BOOLEAN

VARIABLES
  box,     \* the sandbox row: state, engine identity, recorded generation
  fence,   \* activeBackendMutations: the lifecycle procedure that runs
  call,    \* the guest operations
  copies   \* requests on their way to the relay

guestVars == <<call, copies>>

(* The operations.  The HTTP transport sends a request without a body that *)
(* is a GET again when its connection dies, a WebSocket's handshake        *)
(* included; a port response and a          *)
(* WebSocket keep the operation until their reader closes them.            *)
RunCommand        == [resent |-> FALSE, held |-> FALSE]
WriteFile         == [resent |-> FALSE, held |-> FALSE]
ReadFile          == [resent |-> TRUE,  held |-> FALSE]
RoundTripPort     == [resent |-> TRUE,  held |-> TRUE]
OpenPortWebSocket == [resent |-> TRUE,  held |-> TRUE]

operation ==
  [command |-> RunCommand, write |-> WriteFile, read |-> ReadFile,
   port |-> RoundTripPort, socket |-> OpenPortWebSocket]

(* An operation's SandboxBinding: whether its revision is still current,   *)
(* its node generation and its expiry.  `engine` is the engine of the row  *)
(* it was made from; no code reads it.                                     *)
Binding ==
  [fresh: BOOLEAN, generation: 1 .. MaxGeneration, until: 1 .. Expiry, engine: Engines]

CallStates ==
  [at: {"idle", "ending", "done"}]
  \cup [at: {"acquired", "checked"}, binding: Binding]
  \cup [at: {"resolved"}, binding: Binding, boot: 1 .. MaxBoots]
  \cup [at: {"sent", "open"}, cap: Capability]

Active == {c \in Calls : call[c].at \notin {"idle", "done"}}

Reachable == box.state = "running" \/ (box.state = "standby" /\ AutoResume)

Least(a, b) == IF a < b THEN a ELSE b

(* A write of the sandbox row makes the binding of every operation stale   *)
(* that has not been checked yet; it is checked once.                      *)
Stale(calls) ==
  [c \in Calls |-> IF calls[c].at = "acquired"
                   THEN [calls[c] EXCEPT !.binding.fresh = FALSE] ELSE calls[c]]

(* RecordSandboxActivity writes the row only in these states.              *)
Recorded(calls) ==
  IF RecordsActivity /\ box.state \in {"running", "standby"} THEN Stale(calls) ELSE calls

-----------------------------------------------------------------------------
(* acquireGuestOperation and authorizedNodeDataPlane.  The operation holds *)
(* the row it has just written.                                            *)
acquireGuestOperation(c) ==
  /\ call[c].at = "idle"
  /\ fence = <<>>
  /\ clock < Expiry
  /\ Reachable
  /\ box.generation # 0
  /\ Cardinality(Active) < MaxGuestOps
  /\ call' = [Recorded(call) EXCEPT ![c] =
       [at |-> "acquired",
        binding |-> [fresh |-> TRUE, generation |-> box.generation,
                     until |-> Least(clock + BindingTTL, Expiry), engine |-> box.engine]]]
  /\ UNCHANGED copies

(* ValidatePortAccess and ValidateWebSocketAccess: a lease request         *)
(* acquires the sandbox and gives it back at once.                         *)
ValidatePortAccess ==
  /\ fence = <<>> /\ clock < Expiry /\ Reachable
  /\ Cardinality(Active) < MaxGuestOps
  /\ call' = Recorded(call)
  /\ call' # call
  /\ UNCHANGED copies

(* SandboxBinding.validate with nodeBindingIsCurrent, under the mutex.     *)
nodeBindingIsCurrent(b) ==
  /\ b.fresh
  /\ clock < b.until
  /\ clock < Expiry
  /\ Reachable

CheckBinding(c) ==
  /\ call[c].at = "acquired"
  /\ call' = [call EXCEPT ![c] = IF nodeBindingIsCurrent(call[c].binding)
                                 THEN [@ EXCEPT !.at = "checked"] ELSE [at |-> "ending"]]
  /\ UNCHANGED copies

(* RelayDataPlane.authorizedRoute: the route the node reports must be      *)
(* ready and of the generation the binding names.  The report also says    *)
(* which boot of the relay answered.                                       *)
authorizedRoute(c) ==
  LET b == call[c].binding
      current == /\ open
                 /\ state.routes[Route].state = "ready"
                 /\ state.routes[Route].generation = b.generation
  IN
  /\ call[c].at = "checked"
  /\ call' = [call EXCEPT ![c] =
       IF current THEN [at |-> "resolved", binding |-> b, boot |-> boot] ELSE [at |-> "ending"]]
  /\ UNCHANGED copies

(* Fault variant: the capability always gets the full lifetime.            *)
issueFull(c, b) ==
  [call |-> c, boot |-> call[c].boot, generation |-> b.generation,
   expires |-> clock + CapabilityTTL, engine |-> b.engine]

(* RelayDataPlane.issue and CapabilitySigner.Issue: a capability names the *)
(* boot and the generation the node reported, and never outlives the       *)
(* binding.                                                                *)
issue(c, b) ==
  [call |-> c, boot |-> call[c].boot, generation |-> b.generation,
   expires |-> Least(clock + CapabilityTTL, b.until), engine |-> b.engine]

(* The capability is issued and the request sent.                          *)
Send(c) ==
  LET b == call[c].binding IN
  /\ call[c].at = "resolved"
  /\ IF clock < b.until
     THEN /\ call' = [call EXCEPT ![c] = [at |-> "sent", cap |-> issue(c, b)]]
          /\ copies' = copies \cup {issue(c, b)}
     ELSE /\ call' = [call EXCEPT ![c] = [at |-> "ending"]]
          /\ UNCHANGED copies

(* The answer arrives, after the engine performed the call.                *)
Answered(c) ==
  /\ call[c].at = "sent" /\ ~operation[c].held
  /\ ran[c] > 0
  /\ call' = [call EXCEPT ![c] = [at |-> "ending"]]
  /\ UNCHANGED copies

(* A port's response or a WebSocket is handed to its reader.               *)
HandOver(c) ==
  /\ call[c].at = "sent" /\ operation[c].held
  /\ ran[c] > 0
  /\ call' = [call EXCEPT ![c].at = "open"]
  /\ UNCHANGED copies

(* The relay refuses, the connection fails, the client's context ends, or  *)
(* the reader of a held response closes it.                                *)
Ended(c) ==
  /\ call[c].at \in {"acquired", "checked", "resolved", "sent", "open"}
  /\ call' = [call EXCEPT ![c] = [at |-> "ending"]]
  /\ UNCHANGED copies

(* The release closure: cancel, record the activity, leave the counters.   *)
Release(c) ==
  /\ call[c].at = "ending"
  /\ call' = [Recorded(call) EXCEPT ![c] = [at |-> "done"]]
  /\ UNCHANGED copies

(* The transport sends the request again while the operation waits.        *)
Resend(c) ==
  /\ call[c].at = "sent"
  /\ operation[c].resent
  /\ clock < call[c].cap.expires
  /\ copies' = copies \cup {call[c].cap}
  /\ UNCHANGED call

(* A request reaches a free slot of the relay, early, late or never.  One  *)
(* that finds no slot is refused, as if it never arrived.                  *)
Deliver(h, cap) ==
  /\ cap \in copies
  /\ ServeHTTP(h, cap)
  /\ copies' = copies \ {cap}
  /\ UNCHANGED call

(* A second passes.  An expired request is refused whenever it arrives, so *)
(* it is dropped here.                                                     *)
Tick ==
  /\ clock < MaxClock
  /\ clock' = clock + 1
  /\ copies' = {cap \in copies : clock' < cap.expires}
  /\ UNCHANGED call

GuestStep(c) ==
  CheckBinding(c) \/ authorizedRoute(c) \/ Send(c) \/ Answered(c) \/ HandOver(c)
    \/ Ended(c) \/ Release(c)
=============================================================================
