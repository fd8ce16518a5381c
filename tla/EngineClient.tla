---------------------------- MODULE EngineClient ----------------------------
(***************************************************************************)
(* The process-local state of the E2B client: the proof that a guest was   *)
(* alive, the guest credential and the port credential                     *)
(* (src/internal/backend/e2b/client.go, guest.go and port.go), under       *)
(* concurrent calls for one sandbox.                                       *)
(*                                                                         *)
(* A call is a job: it looks into its client's maps, waits for the engine  *)
(* or the guest, and handles the answer.  `box` is the state the service   *)
(* has recorded, which decides with its registered calls which ones it     *)
(* makes.                                                                  *)
(*                                                                         *)
(* Two deployments are modelled.  Without a node the service makes every   *)
(* call with one client; with nodes (cmd/brezel-node/main.go) the guest    *)
(* and port calls go through a client in the node's process, which the     *)
(* lifecycle calls of the service's own client never touch.                *)
(***************************************************************************)
EXTENDS GuestProcess

CONSTANTS
  Jobs,               \* calls at the same time
  guestLiveTTL,       \* also guestCredentialTTL
  guestHealthTimeout,
  portCredentialTTL,
  MaxClock

ASSUME ClientAssumption ==
  /\ guestLiveTTL \in Nat \ {0} /\ portCredentialTTL \in Nat \ {0}
  /\ guestHealthTimeout \in Nat /\ MaxClock \in Nat

VARIABLES
  clock, engine,
  cache,   \* liveUntil, guestCredentials and portCredentials of the sandbox
  job, box,
  deploy   \* with a node or without, and the sandbox's Lifecycle.AutoResume

clientVars == <<clock, engine, cache, job, box, deploy>>

Ports     == {"port", "probe"}
Guest     == {"run", "file"} \cup Ports
Lifecycle == {"pause", "resume", "delete"}
Kinds     == Guest \cup Lifecycle \cup {"inspect"}

Clients    == {"api", "node"}
Deployment == [relayed: BOOLEAN, autoResume: BOOLEAN]

(* The client that makes a call.                                           *)
Own(kind) == IF deploy.relayed /\ kind \in Guest THEN "node" ELSE "api"

(* ~fresh: a lifecycle call came after the credential was asked for.       *)
Credential == [until: Nat, fresh: BOOLEAN]
Nothing    == [until |-> 0, fresh |-> FALSE]
Empty      == [live |-> 0, guest |-> Nothing, port |-> Nothing]

Caches == [live: Nat, guest: Credential, port: Credential]

(* A call waits for the engine ("asked"), has its answer ("answered"),     *)
(* waits for the guest's health since `since` ("probing") or has it        *)
(* ("proved"); a guest operation then holds a connection ("using").        *)
(* ~fresh: a lifecycle call came in between.  `registered`: the service    *)
(* knows of the call, as it does until it restarts.  The engine's answer   *)
(* has a state, "other" than running or paused perhaps, or is "bad": of    *)
(* another sandbox or without its credential.                              *)
JobStates ==
  [at: {"idle"}]
  \cup [at: {"asked", "answered", "kept", "using", "probing", "proved"}, kind: Kinds,
        state: {"none", "running", "paused", "other", "bad"}, since: 0 .. MaxClock,
        fresh: BOOLEAN, registered: BOOLEAN]

Busy(kinds) == {j \in Jobs : job[j].at # "idle" /\ job[j].kind \in kinds}

(* activeGuestOps and activeBackendMutations                               *)
Active(kinds) == {j \in Busy(kinds) : job[j].registered}

Idle == [at |-> "idle"]

(* Jobs are interchangeable: a call takes the first free one.              *)
Free(j) == job[j].at = "idle" /\ j = CHOOSE i \in Jobs : job[i].at = "idle"

Begin(j, kind, at) ==
  job' = [i \in Jobs |->
            IF i = j THEN [at |-> at, kind |-> kind, state |-> "none", since |-> 0,
                           fresh |-> TRUE, registered |-> TRUE]
            ELSE IF kind \in Lifecycle /\ job[i].at # "idle"
                 THEN [job[i] EXCEPT !.fresh = FALSE] ELSE job[i]]

Leave(j) == job' = [job EXCEPT ![j] = Idle]

ToStep(j, at) == job' = [job EXCEPT ![j].at = at]

Probe(j) == job' = [job EXCEPT ![j].at = "probing", ![j].since = clock]

-----------------------------------------------------------------------------
(* The maps of a client.                                                   *)

rememberLive(c) == [c EXCEPT !.live = clock + guestLiveTTL]

recentlyLive(c) == clock < c.live

rememberGuestConnection(c, fresh) ==
  [c EXCEPT !.guest = [until |-> clock + guestLiveTTL, fresh |-> fresh]]

cachedGuestConnection(c) == clock < c.guest.until

rememberPortCredential(c, fresh) ==
  [c EXCEPT !.port = [until |-> clock + portCredentialTTL, fresh |-> fresh]]

cachedPortCredential(c) == clock < c.port.until

(* Fault variant: the port credential stays.                               *)
forgetGuestStateButPort(c) == [c EXCEPT !.live = 0, !.guest = Nothing]

forgetGuestState(c) == Empty

Put(c, maps) == cache' = [cache EXCEPT ![c] = maps]

Forget(c) == Put(c, forgetGuestState(cache[c]))

(* A guest is alive when the engine runs the sandbox and its microVM was   *)
(* not lost with the host.  `stopped` is when that was last so.            *)
Alive == engine.state = "running" /\ engine.alive

Resumed == [state |-> "running", alive |-> TRUE, stopped |-> 0]

Stopped(state) == [engine EXCEPT !.state = state, !.stopped = IF Alive THEN clock ELSE @]

-----------------------------------------------------------------------------
(* acquireGuestOperation: a running sandbox, or one in standby that may    *)
(* resume for traffic, and no lifecycle call.                              *)
acquireGuestOperation ==
  /\ box = "running" \/ (box = "standby" /\ deploy.autoResume)
  /\ Active(Lifecycle) = {}

(* A node serves only a ready route, which a sandbox in standby has not.   *)
Served == acquireGuestOperation /\ (deploy.relayed => box = "running")

(* guestConnectionFor: a hit, or a read of the sandbox's detail.  One      *)
(* command is followed into the guest.                                     *)
guestConnectionFor(j, kind) ==
  /\ kind \in {"run", "file"} /\ Free(j) /\ Served
  /\ kind = "run" => run.at = "idle" /\ Busy({"run"}) = {}
  /\ Begin(j, kind, IF cachedGuestConnection(cache[Own(kind)]) THEN "using" ELSE "asked")
  /\ UNCHANGED <<clock, engine, cache, box, deploy, processVars>>

(* portConnection.  The engine gives the traffic credential only with      *)
(* connect, which also resumes a paused sandbox.                           *)
portConnection(j, kind) ==
  /\ kind \in Ports /\ Free(j) /\ Served
  /\ Begin(j, kind, IF cachedPortCredential(cache[Own(kind)]) THEN "using" ELSE "asked")
  /\ UNCHANGED <<clock, engine, cache, box, deploy, processVars>>

(* The service records what an inspection says if nothing came in between: *)
(* no lifecycle call since, no guest operation now.  A failed inspection   *)
(* leaves the sandbox unknown, one at its deadline leaves it as it is.     *)
Conclude(j, said) ==
  /\ box' = IF job[j].fresh /\ Active(Guest \cup Lifecycle) = {} THEN said ELSE box
  /\ Leave(j)

Unobserved(j) == Conclude(j, "unknown") \/ Conclude(j, box)

(* The engine's answer to a read or a connect, or the call's failure.      *)
EngineAnswers(j) ==
  /\ job[j].at = "asked" /\ job[j].kind \in Guest \cup {"inspect"}
  /\ \/ /\ engine.state # "gone"
        /\ engine' = IF job[j].kind \in Ports /\ engine.state = "paused" THEN Resumed ELSE engine
        /\ \E state \in {engine'.state, "bad"}
                          \cup (IF job[j].kind = "inspect" THEN {"other"} ELSE {}) :
             job' = [job EXCEPT ![j].at = "answered", ![j].state = state]
        /\ UNCHANGED box
     \/ /\ IF job[j].kind = "inspect" THEN Unobserved(j) ELSE Leave(j) /\ UNCHANGED box
        /\ UNCHANGED engine
  /\ UNCHANGED <<clock, cache, deploy, processVars>>

(* A guest operation keeps the credential and goes on with it.  The port   *)
(* credential is looked up again after it was stored.  An answer that is   *)
(* no good ends the call; only guestConnectionFor then forgets.            *)
Remember(j) ==
  /\ job[j].at = "answered" /\ job[j].kind \in Guest
  /\ LET own == Own(job[j].kind)
     IN \/ /\ job[j].state # "bad" /\ job[j].kind \in Ports
           /\ Put(own, rememberPortCredential(cache[own], job[j].fresh))
           /\ ToStep(j, "kept")
        \/ /\ job[j].state # "bad" /\ job[j].kind \notin Ports
           /\ Put(own, rememberGuestConnection(cache[own], job[j].fresh))
           /\ ToStep(j, "using")
        \/ /\ job[j].state = "bad" /\ Leave(j)
           /\ IF job[j].kind \in Ports THEN UNCHANGED cache ELSE Forget(own)
  /\ UNCHANGED <<clock, engine, box, deploy, processVars>>

LookUp(j) ==
  /\ job[j].at = "kept"
  /\ IF cachedPortCredential(cache[Own(job[j].kind)]) THEN ToStep(j, "using") ELSE Leave(j)
  /\ UNCHANGED <<clock, engine, cache, box, deploy, processVars>>

(* The operation itself: a file request and its answer, a port request     *)
(* whose response or WebSocket is closed, or a command that has returned.  *)
FileRequest(j) == job[j].kind = "file"

PortRequest(j) == job[j].kind = "port"

CommandOver(j) == job[j].kind = "run" /\ run.result # "none"

Use(j) ==
  /\ job[j].at = "using"
  /\ FileRequest(j) \/ PortRequest(j) \/ CommandOver(j)
  /\ Leave(j)
  /\ UNCHANGED <<clock, engine, cache, box, deploy, processVars>>

RunGuest(j) ==
  /\ job[j].at = "using" /\ job[j].kind = "run"
  /\ StartProcess
  /\ Alive \/ (proc'.kept = "no" /\ run'.result = "failed")
  /\ UNCHANGED clientVars

(* With autoResume the engine resumes a paused sandbox for its traffic.    *)
AutoResume(j) ==
  /\ job[j].at = "using" /\ engine.state = "paused" /\ deploy.autoResume
  /\ engine' = Resumed
  /\ UNCHANGED <<clock, cache, job, box, deploy, processVars>>

-----------------------------------------------------------------------------
(* Inspect, by the reconciler or a read of the sandbox.                    *)
Inspect(j) ==
  /\ Free(j) /\ box \notin {"deleting", "gone"} /\ Active(Guest \cup Lifecycle) = {}
  /\ Begin(j, "inspect", "asked")
  /\ UNCHANGED <<clock, engine, cache, box, deploy, processVars>>

(* observedSandbox: a running row counts only with a recent proof that the *)
(* guest is alive, or a new one.  What else the engine may say of the      *)
(* sandbox clears the maps, except an answer that is no good.              *)
Observed(j, onUse) ==
  /\ j \in Busy({"inspect"})
  /\ \/ /\ job[j].at = "answered" /\ job[j].state = "running" /\ recentlyLive(cache["api"])
        /\ Conclude(j, "running") /\ onUse
     \/ /\ job[j].at = "answered" /\ job[j].state = "running" /\ ~recentlyLive(cache["api"])
        /\ Probe(j) /\ UNCHANGED <<cache, box>>
     \/ /\ job[j].at = "answered" /\ job[j].state = "paused"
        /\ Forget("api") /\ Conclude(j, "standby")
     \/ /\ job[j].at = "answered" /\ job[j].state = "other"
        /\ Forget("api") /\ Conclude(j, "unknown")
     \/ /\ job[j].at = "answered" /\ job[j].state = "bad"
        /\ Unobserved(j) /\ UNCHANGED cache
     \/ /\ job[j].at = "proved"
        /\ Put("api", rememberLive(cache["api"])) /\ Conclude(j, "running")
     \/ /\ job[j].at \in {"probing", "proved"}
        /\ Forget("api") /\ Unobserved(j)
  /\ UNCHANGED <<clock, engine, deploy, processVars>>

(* Fault variant: a proof that is used is renewed.                         *)
observedSandboxRenews(j) == Observed(j, Put("api", rememberLive(cache["api"])))

observedSandbox(j) == Observed(j, UNCHANGED cache)

(* The guest answers a health probe (probeGuestHealth); the answer is on   *)
(* its way until the client handles it.                                    *)
GuestAnswers(j) ==
  /\ job[j].at = "probing" /\ Alive
  /\ ToStep(j, "proved")
  /\ UNCHANGED <<clock, engine, cache, box, deploy, processVars>>

-----------------------------------------------------------------------------
(* Pause, Resume and Delete forget the sandbox's proofs and credentials    *)
(* before they ask the engine.  What the node's client has stays there.    *)
Mutate(j, kind) ==
  /\ Free(j) /\ Active(Lifecycle) = {}
  /\ cache' = [c \in Clients |->
       LET old == [cache[c] EXCEPT !.guest.fresh = FALSE, !.port.fresh = FALSE]
       IN IF c = "api" THEN forgetGuestState(old) ELSE old]
  /\ Begin(j, kind, "asked")

(* Fault variant: a pause does not look for guest operations.              *)
PauseUnderOperations(j) ==
  /\ box = "running" /\ Mutate(j, "pause")
  /\ UNCHANGED <<clock, engine, box, deploy, processVars>>

(* Pause and Resume are refused under a registered guest operation; the    *)
(* expiry deletes the sandbox in any state.                                *)
Pause(j) ==
  /\ box = "running" /\ Active(Guest) = {} /\ Mutate(j, "pause")
  /\ UNCHANGED <<clock, engine, box, deploy, processVars>>

Resume(j) ==
  /\ box = "standby" /\ Active(Guest) = {} /\ Mutate(j, "resume")
  /\ UNCHANGED <<clock, engine, box, deploy, processVars>>

Delete(j) ==
  /\ box # "gone" /\ box' = "deleting" /\ Mutate(j, "delete")
  /\ IF run.at \in {"idle", "done"} \/ run.cancelled THEN UNCHANGED processVars ELSE Cancel
  /\ UNCHANGED <<clock, engine, deploy>>

(* The guest and everything in it is gone.                                 *)
GuestLost ==
  /\ proc' = [proc EXCEPT !.kept = IF @ = "no" THEN @ ELSE "gone"]
  /\ IF Open THEN Broken("broken") ELSE UNCHANGED stream
  /\ UNCHANGED run

(* The answer to a lifecycle call.  A call that fails has changed the      *)
(* sandbox or has not.  Pause and Delete forget once more; Resume keeps    *)
(* what a healthy guest was resumed with, in which the traffic credential  *)
(* may be missing.  The route, or the write of the result, may still fail  *)
(* after the engine's success.                                             *)
PauseAnswer(j) ==
  /\ job[j].at = "asked" /\ job[j].kind = "pause" /\ job[j].registered
  /\ \/ Alive /\ engine' = Stopped("paused") /\ box' \in {"standby", "unknown"}
     \/ box' = "unknown" /\ UNCHANGED engine
  /\ Forget("api")
  /\ Leave(j)
  /\ UNCHANGED <<clock, deploy, processVars>>

ResumeAnswer(j) ==
  /\ j \in Active({"resume"})
  /\ \/ /\ job[j].at = "asked" /\ engine.state = "paused"
        /\ engine' = Resumed
        /\ \/ Probe(j) /\ UNCHANGED box
           \/ Leave(j) /\ box' = "unknown"
        /\ UNCHANGED cache
     \/ /\ job[j].at = "asked" /\ Leave(j) /\ box' = "unknown" /\ UNCHANGED <<engine, cache>>
     \/ /\ job[j].at = "proved"
        /\ LET c == rememberGuestConnection(rememberLive(cache["api"]), job[j].fresh)
           IN Put("api", c) \/ Put("api", rememberPortCredential(c, job[j].fresh))
        /\ Leave(j) /\ box' \in {"running", "unknown"} /\ UNCHANGED engine
     \/ /\ job[j].at \in {"probing", "proved"}
        /\ Forget("api")
        /\ Leave(j) /\ box' = "unknown" /\ UNCHANGED engine
  /\ UNCHANGED <<clock, deploy, processVars>>

DeleteAnswer(j) ==
  /\ job[j].at = "asked" /\ job[j].kind = "delete" /\ job[j].registered
  /\ \/ engine' = Stopped("gone") /\ GuestLost /\ box' \in {"gone", "deleting"}
     \/ UNCHANGED <<box, engine, processVars>>
  /\ Forget("api")
  /\ Leave(j)
  /\ UNCHANGED <<clock, deploy>>

(* A lifecycle call whose caller has restarted still reaches the engine,   *)
(* or never does.                                                          *)
LateMutation(j) ==
  /\ job[j].at = "asked" /\ job[j].kind \in Lifecycle /\ ~job[j].registered
  /\ \/ job[j].kind = "pause" /\ Alive /\ engine' = Stopped("paused") /\ UNCHANGED processVars
     \/ job[j].kind = "resume" /\ engine.state = "paused" /\ engine' = Resumed
          /\ UNCHANGED processVars
     \/ job[j].kind = "delete" /\ engine' = Stopped("gone") /\ GuestLost
     \/ UNCHANGED <<engine, processVars>>
  /\ Leave(j)
  /\ UNCHANGED <<clock, cache, box, deploy>>

-----------------------------------------------------------------------------
(* The process of a client restarts, with empty maps.  Its calls are gone; *)
(* a lifecycle call may be on its way to the engine, and what the node     *)
(* serves for a controller that restarts goes on, unregistered.  A command *)
(* of the process itself has no caller left, and is not followed.          *)
Restart(c) ==
  /\ c = "node" => deploy.relayed
  /\ \A j \in Busy({"run"}) : Own("run") # c
  /\ cache' = [cache EXCEPT ![c] = Empty]
  /\ job' = [j \in Jobs |->
       CASE job[j].at = "idle" -> Idle
         [] job[j].at = "asked" /\ job[j].kind \in Lifecycle /\ c = "api" ->
              [job[j] EXCEPT !.registered = FALSE]
         [] job[j].at # "idle" /\ Own(job[j].kind) # c ->
              [job[j] EXCEPT !.registered = @ /\ c = "node"]
         [] OTHER -> Idle]
  /\ box' = IF c = "api" /\ Active({"pause", "resume"}) # {} THEN "unknown" ELSE box
  /\ UNCHANGED <<clock, engine, deploy, processVars>>

(* The microVM is lost: the engine's row still says running.               *)
HostCrash ==
  /\ Alive
  /\ engine' = [engine EXCEPT !.alive = FALSE, !.stopped = clock]
  /\ GuestLost
  /\ UNCHANGED <<clock, cache, job, box, deploy>>

(* Time passes.  No health probe outlives its deadline; an entry that has  *)
(* expired is as good as none.                                             *)
Tick ==
  /\ clock < MaxClock /\ clock' = clock + 1
  /\ \A j \in Jobs : job[j].at \in {"probing", "proved"} =>
                       clock < job[j].since + guestHealthTimeout
  /\ cache' = [c \in Clients |->
       [live  |-> IF cache[c].live > clock' THEN cache[c].live ELSE 0,
        guest |-> IF cache[c].guest.until > clock' THEN cache[c].guest ELSE Nothing,
        port  |-> IF cache[c].port.until > clock' THEN cache[c].port ELSE Nothing]]
  /\ UNCHANGED <<engine, job, box, deploy, processVars>>

(* A sandbox that Create has just published.                               *)
ClientInit ==
  /\ clock = 0 /\ engine = Resumed
  /\ LET c == rememberGuestConnection(rememberLive(Empty), TRUE)
     IN \E api \in {c, rememberPortCredential(c, TRUE)} :
          cache = [api |-> api, node |-> Empty]
  /\ job = [j \in Jobs |-> Idle]
  /\ box = "running"
  /\ ProcessInit

Answer(j) ==
  \/ EngineAnswers(j) \/ Remember(j) \/ LookUp(j) \/ Use(j) \/ AutoResume(j)
  \/ observedSandbox(j) \/ GuestAnswers(j)
  \/ PauseAnswer(j) \/ ResumeAnswer(j) \/ DeleteAnswer(j) \/ LateMutation(j)

-----------------------------------------------------------------------------
(* A client vouches for a guest that is no longer there, lost or paused    *)
(* while the answer of its health probe was on the way, only for a bounded *)
(* time: the deadline of a probe and the life of the proof (guestHealth-   *)
(* Timeout, guestLiveTTL), however inspections, lifecycle calls and        *)
(* restarts overlap and however often the proof is used (observedSandbox,  *)
(* recentlyLive).                                                          *)
LivenessProofBounded ==
  \A c \in Clients :
     recentlyLive(cache[c]) =>
        Alive \/ clock < engine.stopped + guestHealthTimeout + guestLiveTTL

(* "an API restart, lifecycle mutation, or expiry always forces a fresh    *)
(* engine read" (guest.go, guestCredentialTTL): where the service makes    *)
(* the guest calls itself, no credential the client would use without      *)
(* asking was asked for before the last Pause or Resume, whatever calls    *)
(* overlapped with it.  It rests on the fence and the registrations of the *)
(* service, not on the client's maps alone.  The client of a node keeps    *)
(* its credentials across a pause for as long as they live.                *)
FreshReadAfterLifecycle ==
  ~deploy.relayed /\ box \notin {"deleting", "gone"} =>
     /\ cachedGuestConnection(cache["api"]) => cache["api"].guest.fresh
     /\ cachedPortCredential(cache["api"]) => cache["api"].port.fresh
=============================================================================
