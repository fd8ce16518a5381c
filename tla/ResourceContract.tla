-------------------------- MODULE ResourceContract --------------------------
(***************************************************************************)
(* What the control plane promises about workspaces, checkpoints and       *)
(* requests (ADR 0005, ARCHITECTURE.md): an abstract specification with no *)
(* mutex, no fence, no counters, no operations and no crashes.  Every      *)
(* condition is about the resources as they are at the instant of the      *)
(* step.  ControlPlane implements it (Contract in MCControlPlane).         *)
(***************************************************************************)
EXTENDS Naturals, FiniteSets

CONSTANTS
  Sandboxes, Workspaces, Requests,   \* identities; 0 is none of them
  Capacity                           \* live sandboxes at any time

VARIABLES
  phase,      \* phase[s]: "none", "live" or "ended"
  mount,      \* mount[s]: the workspace s uses, or 0
  source,     \* source[s]: the checkpoint s came from, or 0
  known,      \* workspaces asked for
  offered,    \* workspaces that may be attached
  condemned,  \* workspaces whose deletion was asked for
  closed,     \* workspaces that are gone for good
  volumes,    \* volumes of the engine
  saved,      \* snapshots of the engine, by the request that made them
  origin,     \* origin[c]: the sandbox that c is a snapshot of
  taken       \* requests that were accepted

contract == <<phase, mount, source, known, offered, condemned, closed,
              volumes, saved, origin, taken>>

sandboxVars == <<phase, mount, source>>
workspaceVars == <<known, offered, condemned, closed, volumes>>
checkpointVars == <<saved, origin>>

Live == {s \in Sandboxes : phase[s] = "live"}

Free(w) == \A s \in Live : mount[s] # w

ContractTypeOK ==
  /\ phase \in [Sandboxes -> {"none", "live", "ended"}]
  /\ mount \in [Sandboxes -> Workspaces \cup {0}]
  /\ source \in [Sandboxes -> Requests \cup {0}]
  /\ known \subseteq Workspaces /\ offered \subseteq Workspaces
  /\ condemned \subseteq Workspaces /\ closed \subseteq Workspaces
  /\ volumes \subseteq Workspaces
  /\ saved \subseteq Requests /\ origin \in [Requests -> Sandboxes \cup {0}]
  /\ taken \subseteq Requests

ContractInit ==
  /\ phase = [s \in Sandboxes |-> "none"]
  /\ mount = [s \in Sandboxes |-> 0] /\ source = [s \in Sandboxes |-> 0]
  /\ known = {} /\ offered = {} /\ condemned = {} /\ closed = {} /\ volumes = {}
  /\ saved = {} /\ origin = [c \in Requests |-> 0] /\ taken = {}

(* A request is accepted once.                                             *)
Accept(r) == r \notin taken /\ taken' = taken \cup {r}

(* A sandbox is admitted with a workspace that is offered and free.        *)
Admit(r, s, w, c) ==
  /\ Accept(r)
  /\ phase[s] = "none" /\ Cardinality(Live) < Capacity
  /\ w # 0 => w \in offered /\ Free(w)
  /\ phase' = [phase EXCEPT ![s] = "live"]
  /\ mount' = [mount EXCEPT ![s] = w] /\ source' = [source EXCEPT ![s] = c]
  /\ UNCHANGED <<workspaceVars, checkpointVars>>

End(s) ==
  /\ phase[s] = "live" /\ phase' = [phase EXCEPT ![s] = "ended"]
  /\ UNCHANGED <<mount, source, workspaceVars, checkpointVars, taken>>

(* A workspace is asked for, and only then made.                           *)
Announce(r, w) ==
  /\ Accept(r) /\ w \notin known /\ known' = known \cup {w}
  /\ UNCHANGED <<sandboxVars, offered, condemned, closed, volumes, checkpointVars>>

Provision(w) ==
  /\ w \in known \ (condemned \cup closed) /\ volumes' = volumes \cup {w}
  /\ UNCHANGED <<sandboxVars, known, offered, condemned, closed, checkpointVars, taken>>

Offer(w) ==
  /\ w \in volumes \ condemned /\ offered' = offered \cup {w}
  /\ UNCHANGED <<sandboxVars, known, condemned, closed, volumes, checkpointVars, taken>>

Withdraw(w) ==
  /\ offered' = offered \ {w}
  /\ UNCHANGED <<sandboxVars, known, condemned, closed, volumes, checkpointVars, taken>>

(* Deletion is asked for only while nobody uses the workspace, and only    *)
(* then is the volume destroyed.                                           *)
Condemn(r, w) ==
  /\ Accept(r) /\ w \in known \ closed /\ Free(w)
  /\ offered' = offered \ {w} /\ condemned' = condemned \cup {w}
  /\ UNCHANGED <<sandboxVars, known, closed, volumes, checkpointVars>>

Destroy(w) ==
  /\ w \in condemned /\ volumes' = volumes \ {w}
  /\ UNCHANGED <<sandboxVars, known, offered, condemned, closed, checkpointVars, taken>>

(* A workspace is reported gone only when its volume is, for good.         *)
Close(w) ==
  /\ w \in known \ volumes /\ closed' = closed \cup {w} /\ offered' = offered \ {w}
  /\ UNCHANGED <<sandboxVars, known, condemned, volumes, checkpointVars, taken>>

(* A snapshot is made of a live sandbox for an accepted request, and is    *)
(* dropped only when neither that sandbox nor one made from it is live.    *)
Save(r, s) ==
  /\ r \in taken /\ s \in Live
  /\ saved' = saved \cup {r} /\ origin' = [origin EXCEPT ![r] = s]
  /\ UNCHANGED <<sandboxVars, workspaceVars, taken>>

Drop(c) ==
  /\ c \in saved /\ origin[c] \notin Live /\ \A s \in Live : source[s] # c
  /\ saved' = saved \ {c} /\ origin' = [origin EXCEPT ![c] = 0]
  /\ UNCHANGED <<sandboxVars, workspaceVars, taken>>

(* A request that concerns none of these resources.                        *)
Other(r) ==
  /\ Accept(r) /\ UNCHANGED <<sandboxVars, workspaceVars, checkpointVars>>

ContractNext ==
  \/ \E r \in Requests : Other(r)
  \/ \E r \in Requests, s \in Sandboxes, w \in Workspaces \cup {0}, c \in Requests \cup {0} :
       Admit(r, s, w, c)
  \/ \E s \in Sandboxes : End(s)
  \/ \E r \in Requests, w \in Workspaces : Announce(r, w) \/ Condemn(r, w)
  \/ \E w \in Workspaces :
       Provision(w) \/ Offer(w) \/ Withdraw(w) \/ Destroy(w) \/ Close(w)
  \/ \E r \in Requests, s \in Sandboxes : Save(r, s)
  \/ \E c \in Requests : Drop(c)

ContractSpec == ContractInit /\ [][ContractNext]_contract

(* At most one live sandbox uses a workspace, and what it uses is there:   *)
(* the volume exists, nobody has asked for its deletion, and it has not    *)
(* been reported gone (ADR 0005).                                          *)
Attached ==
  \A s \in Live : mount[s] # 0 =>
    /\ \A t \in Live : mount[t] = mount[s] => t = s
    /\ mount[s] \in volumes \ (condemned \cup closed)
=============================================================================
