-------------------------- MODULE NodeLedgerProofs --------------------------
(* Theorems about the route generation ledger, for every set of routes,    *)
(* owners, engines and operations and every bound.                         *)
EXTENDS NodeLedger, TLAPS

-----------------------------------------------------------------------------
(* What an operation proposes has the type of a ledger.                    *)
LEMMA ProposalTypes ==
  ASSUME TypeOK, NEW r \in Routes, NEW at \in 0 .. MaxTime
  PROVE  /\ \A o \in Owners, e \in Engines :
              CanBind(r, o, e) => Bound(r, o, e, at) \in DiskState
         /\ \A g \in 1 .. MaxGeneration, e \in Engines :
              CanRebind(r, g, e, at) => Rebound(r, e, at) \in DiskState
         /\ \A to \in RouteStates : Transited(r, to) \in DiskState
         /\ WithRoute(r, [state.routes[r] EXCEPT !.activity = at]) \in DiskState
         /\ WithRoute(r, Absent) \in DiskState
<1> USE BoundsAssumption, NullAssumption
<1>0. /\ state \in DiskState
      /\ state.routes \in [Routes -> Entry]
      /\ state.lastGeneration \in 0 .. MaxGeneration
      /\ state.routes[r] \in Entry
  BY DEF TypeOK, DiskState
<1>1. \A entry \in Entry : WithRoute(r, entry) \in DiskState
  BY <1>0 DEF WithRoute, DiskState
<1>2. \A entry \in Entry : WithNewGeneration(r, entry) \in DiskState
  BY <1>0 DEF WithNewGeneration, DiskState, Entry
<1>3. ASSUME NEW o \in Owners, NEW e \in Engines, CanBind(r, o, e)
      PROVE  Bound(r, o, e, at) \in DiskState
  <2>1. state.lastGeneration + 1 \in 0 .. MaxGeneration
    BY <1>0, <1>3 DEF CanBind
  <2> QED BY <2>1, <1>2 DEF Bound, Entry, RouteStates
<1>4. ASSUME NEW g \in 1 .. MaxGeneration, NEW e \in Engines, CanRebind(r, g, e, at)
      PROVE  Rebound(r, e, at) \in DiskState
  <2>1. state.lastGeneration + 1 \in 0 .. MaxGeneration
    BY <1>0, <1>4 DEF CanRebind
  <2>2. state.routes[r].owner \in Owners \cup {NoOwner}
    BY <1>0 DEF Entry
  <2> QED BY <2>1, <2>2, <1>2 DEF Rebound, Entry, RouteStates
<1>5. ASSUME NEW to \in RouteStates PROVE Transited(r, to) \in DiskState
  BY <1>0, <1>1, Zenon DEF Transited, Entry
<1>6. WithRoute(r, [state.routes[r] EXCEPT !.activity = at]) \in DiskState
  BY <1>0, <1>1 DEF Entry
<1>7. WithRoute(r, Absent) \in DiskState
  BY <1>1 DEF Absent, Entry
<1> QED BY <1>3, <1>4, <1>5, <1>6, <1>7

(* An update to a well-typed ledger keeps every variable well typed.       *)
LEMMA UpdateType ==
  ASSUME TypeOK, NEW next \in DiskState, Update(next)
  PROVE  TypeOK'
BY DEF TypeOK, Update

(* The ledger, its file and its leases stay well typed along every run of *)
(* the ledger's operations, crashes included.                              *)
THEOREM TypeCorrect == Spec => []TypeOK
<1> USE BoundsAssumption, NullAssumption
<1>1. Init => TypeOK
  BY DEF Init, TypeOK, EmptyLedger, DiskState, Entry, Absent, Lease
<1>2. TypeOK /\ [Next]_vars => TypeOK'
  <2> SUFFICES ASSUME TypeOK, [Next]_vars PROVE TypeOK'
    OBVIOUS
  <2>1. ASSUME NEW r \in Routes, NEW o \in Owners, NEW e \in Engines,
               NEW at \in 0 .. MaxTime, Bind(r, o, e, at)
        PROVE  TypeOK'
    BY <2>1, ProposalTypes, UpdateType, Zenon DEF Bind
  <2>2. ASSUME NEW r \in Routes, NEW g \in 1 .. MaxGeneration, NEW e \in Engines,
               NEW at \in 0 .. MaxTime, Rebind(r, g, e, at)
        PROVE  TypeOK'
    BY <2>2, ProposalTypes, UpdateType, Zenon DEF Rebind
  <2>3. ASSUME NEW r \in Routes, NEW g \in 1 .. MaxGeneration,
               NEW from \in RouteStates, NEW to \in RouteStates,
               Transition(r, g, from, to)
        PROVE  TypeOK'
    <3>1. 0 \in 0 .. MaxTime
      OBVIOUS
    <3> QED BY <2>3, <3>1, ProposalTypes, UpdateType, Zenon DEF Transition
  <2>4. ASSUME NEW r \in Routes, NEW g \in 1 .. MaxGeneration,
               NEW from \in RouteStates, NEW at \in 0 .. MaxTime,
               Touch(r, g, from, at)
        PROVE  TypeOK'
    BY <2>4, ProposalTypes, UpdateType DEF Touch
  <2>5. ASSUME NEW r \in Routes, NEW g \in 1 .. MaxGeneration, Remove(r, g)
        PROVE  TypeOK'
    <3>1. 0 \in 0 .. MaxTime
      OBVIOUS
    <3> QED BY <2>5, <3>1, ProposalTypes, UpdateType, Zenon DEF Remove
  <2>6. ASSUME NEW op \in Ops, NEW r \in Routes, NEW o \in Owners,
               NEW g \in 1 .. MaxGeneration, AcquireOperation(op, r, o, g)
        PROVE  TypeOK'
    BY <2>6 DEF AcquireOperation, TypeOK, Lease, DiskState, Entry
  <2>7. ASSUME NEW op \in Ops, ReleaseOperation(op) PROVE TypeOK'
    BY <2>7 DEF ReleaseOperation, TypeOK, Lease, NoLease
  <2>8. CASE Close
    BY <2>8, Zenon DEF Close, TypeOK
  <2>9. CASE Open
    BY <2>9 DEF Open, TypeOK
  <2>10. CASE ProcessCrash
    BY <2>10, Zenon DEF ProcessCrash, TypeOK, Lease
  <2>11. CASE HostCrash
    BY <2>11, Zenon DEF HostCrash, TypeOK, Lease
  <2>12. CASE UNCHANGED vars
    BY <2>12 DEF vars, TypeOK
  <2> QED
    BY <2>1, <2>2, <2>3, <2>4, <2>5, <2>6, <2>7, <2>8, <2>9, <2>10, <2>11, <2>12
    DEF Next
<1> QED BY <1>1, <1>2, PTL DEF Spec

-----------------------------------------------------------------------------
(* Leases.  Together the two invariants are inductive: draining is left    *)
(* only when no counted lease names the current assignment, and every      *)
(* other step that would move a route starts from a state in which no live *)
(* lease can name it.                                                      *)

LeaseInv == TypeOK /\ LeasePinsAssignment /\ NoLeakedLease

(* A step of Update that leaves every pinned assignment in place keeps     *)
(* the lease invariants.                                                   *)
LEMMA UpdateKeepsLeases ==
  ASSUME LeaseInv, TypeOK', NEW r \in Routes, NEW next \in DiskState, Update(next),
         \A q \in Routes \ {r} : next.routes[q] = state.routes[q],
         \A op \in Ops : lease[op].status = "live" /\ lease[op].route = r =>
           /\ next.routes[r].owner = state.routes[r].owner
           /\ next.routes[r].generation = state.routes[r].generation
           /\ next.routes[r].engine = state.routes[r].engine
           /\ next.routes[r].state \in {"ready", "draining"}
  PROVE  LeaseInv'
<1>1. open' = open /\ lease' = lease /\ state' \in {state, next}
  BY DEF Update
<1>2. NoLeakedLease'
  BY <1>1 DEF LeaseInv, NoLeakedLease
<1>3. ASSUME NEW op \in Ops, lease[op].status = "live"
      PROVE  /\ lease[op].route \in Routes
             /\ open
             /\ state'.routes[lease[op].route].owner = lease[op].owner
             /\ state'.routes[lease[op].route].generation = lease[op].generation
             /\ state'.routes[lease[op].route].engine = lease[op].engine
             /\ state'.routes[lease[op].route].state \in {"ready", "draining"}
  <2>1. lease[op].route \in Routes
    BY <1>3 DEF LeaseInv, TypeOK, Lease, NoLease
  <2> QED BY <1>1, <1>3, <2>1 DEF LeaseInv, LeasePinsAssignment
<1>4. LeasePinsAssignment'
  BY <1>1, <1>3 DEF LeasePinsAssignment
<1> QED BY <1>2, <1>4 DEF LeaseInv

(* Every step of the node preserves the lease invariants: one case for     *)
(* each ledger operation, for closing, opening and the two crashes.        *)
LEMMA LeaseInvInductive == LeaseInv /\ TypeOK' /\ [Next]_vars => LeaseInv'
<1> SUFFICES ASSUME LeaseInv, TypeOK', [Next]_vars PROVE LeaseInv'
  OBVIOUS
<1> USE BoundsAssumption, NullAssumption
<1>0. TypeOK /\ 0 \in 0 .. MaxTime /\ state.routes \in [Routes -> Entry]
  BY DEF LeaseInv, TypeOK, DiskState
<1>1. ASSUME NEW r \in Routes, NEW o \in Owners, NEW e \in Engines,
             NEW at \in 0 .. MaxTime, Bind(r, o, e, at)
      PROVE  LeaseInv'
  <2>1. Bound(r, o, e, at) \in DiskState
    BY <1>0, <1>1, ProposalTypes, Zenon DEF Bind
  <2>2. \A op \in Ops : lease[op].status = "live" => lease[op].route # r
    BY <1>1 DEF Bind, CanBind, Present, LeaseInv, LeasePinsAssignment
  <2>3. \A q \in Routes \ {r} : Bound(r, o, e, at).routes[q] = state.routes[q]
    BY <1>0 DEF Bound, WithNewGeneration
  <2> QED BY <1>1, <2>1, <2>2, <2>3, UpdateKeepsLeases DEF Bind
<1>2. ASSUME NEW r \in Routes, NEW g \in 1 .. MaxGeneration, NEW e \in Engines,
             NEW at \in 0 .. MaxTime, Rebind(r, g, e, at)
      PROVE  LeaseInv'
  <2>1. Rebound(r, e, at) \in DiskState
    BY <1>0, <1>2, ProposalTypes, Zenon DEF Rebind
  <2>2. \A op \in Ops : lease[op].status = "live" => lease[op].route # r
    BY <1>2 DEF Rebind, CanRebind, LeaseInv, LeasePinsAssignment
  <2>3. \A q \in Routes \ {r} : Rebound(r, e, at).routes[q] = state.routes[q]
    BY <1>0 DEF Rebound, WithNewGeneration
  <2> QED BY <1>2, <2>1, <2>2, <2>3, UpdateKeepsLeases DEF Rebind
<1>3. ASSUME NEW r \in Routes, NEW g \in 1 .. MaxGeneration,
             NEW from \in RouteStates, NEW to \in RouteStates,
             Transition(r, g, from, to)
      PROVE  LeaseInv'
  <2> DEFINE next == Transited(r, to)
  <2>1. next \in DiskState
    BY <1>0, ProposalTypes, Zenon
  <2>2. /\ \A q \in Routes \ {r} : next.routes[q] = state.routes[q]
        /\ next.routes[r].owner = state.routes[r].owner
        /\ next.routes[r].generation = state.routes[r].generation
        /\ next.routes[r].state = to
        /\ to # "released" => next.routes[r].engine = state.routes[r].engine
    BY <1>0 DEF Transited, WithRoute, DiskState, Entry
  <2>3. ASSUME NEW op \in Ops, lease[op].status = "live", lease[op].route = r
        PROVE  to \in {"ready", "draining"}
    <3>1. from \in {"ready", "draining"}
      BY <1>3, <2>3 DEF Transition, CanTransit, LeaseInv, LeasePinsAssignment
    <3>2. HasActiveOperations(r)
      BY <2>3 DEF HasActiveOperations, Counted, LeaseInv, LeasePinsAssignment
    <3> QED BY <1>3, <3>1, <3>2 DEF Transition, CanTransit, AllowedTransition
  <2> HIDE DEF next
  <2>4. Update(next)
    BY <1>3 DEF Transition, next
  <2> QED BY <2>1, <2>2, <2>3, <2>4, UpdateKeepsLeases
<1>4. ASSUME NEW r \in Routes, NEW g \in 1 .. MaxGeneration,
             NEW from \in RouteStates, NEW at \in 0 .. MaxTime,
             Touch(r, g, from, at)
      PROVE  LeaseInv'
  <2> DEFINE next == WithRoute(r, [state.routes[r] EXCEPT !.activity = at])
  <2>1. next \in DiskState
    BY <1>0, ProposalTypes
  <2>2. /\ \A q \in Routes \ {r} : next.routes[q] = state.routes[q]
        /\ next.routes[r].owner = state.routes[r].owner
        /\ next.routes[r].generation = state.routes[r].generation
        /\ next.routes[r].engine = state.routes[r].engine
        /\ next.routes[r].state = state.routes[r].state
    BY <1>0 DEF WithRoute, DiskState, Entry
  <2>3. state.routes[r].state \in {"ready", "draining"}
    BY <1>4 DEF Touch, CanTouch
  <2>4. Update(next)
    BY <1>4 DEF Touch
  <2> HIDE DEF next
  <2> QED BY <2>1, <2>2, <2>3, <2>4, UpdateKeepsLeases
<1>5. ASSUME NEW r \in Routes, NEW g \in 1 .. MaxGeneration, Remove(r, g)
      PROVE  LeaseInv'
  <2>1. WithRoute(r, Absent) \in DiskState
    BY <1>0, ProposalTypes, Zenon
  <2>2. \A op \in Ops : lease[op].status = "live" => lease[op].route # r
    BY <1>5 DEF Remove, CanRemove, LeaseInv, LeasePinsAssignment
  <2>3. \A q \in Routes \ {r} : WithRoute(r, Absent).routes[q] = state.routes[q]
    BY <1>0 DEF WithRoute, LeaseInv, TypeOK, DiskState
  <2> QED BY <1>5, <2>1, <2>2, <2>3, UpdateKeepsLeases DEF Remove
<1>6. ASSUME NEW op \in Ops, NEW r \in Routes, NEW o \in Owners,
             NEW g \in 1 .. MaxGeneration, AcquireOperation(op, r, o, g)
      PROVE  LeaseInv'
  <2> DEFINE new == [route |-> r, owner |-> o, generation |-> g,
                     engine |-> state.routes[r].engine, status |-> "live"]
  <2>1. lease'[op] = new /\ \A p \in Ops \ {op} : lease'[p] = lease[p]
    BY <1>0, <1>6 DEF AcquireOperation, TypeOK
  <2>2. /\ open' = open /\ state' = state /\ open
        /\ state.routes[r].owner = o /\ state.routes[r].generation = g
        /\ state.routes[r].state = "ready"
    BY <1>6 DEF AcquireOperation
  <2>3. NoLeakedLease'
    BY <2>1 DEF LeaseInv, NoLeakedLease
  <2>4. LeasePinsAssignment'
    BY <2>1, <2>2 DEF LeaseInv, LeasePinsAssignment
  <2> QED BY <2>3, <2>4 DEF LeaseInv
<1>7. ASSUME NEW op \in Ops, ReleaseOperation(op)
      PROVE  LeaseInv'
  <2>1. lease' = [lease EXCEPT ![op] = NoLease]
    BY <1>7, Zenon DEF ReleaseOperation, LeaseInv, LeasePinsAssignment
  <2>2. /\ lease'[op].status = "none"
        /\ \A p \in Ops \ {op} : lease'[p] = lease[p]
    BY <1>0, <2>1 DEF TypeOK, NoLease
  <2>3. state' = state /\ open' = open
    BY <1>7 DEF ReleaseOperation
  <2>4. NoLeakedLease'
    BY <2>2 DEF LeaseInv, NoLeakedLease
  <2>5. LeasePinsAssignment'
    BY <2>2, <2>3 DEF LeaseInv, LeasePinsAssignment
  <2> QED BY <2>4, <2>5 DEF LeaseInv
<1>8. CASE Close
  BY <1>8 DEF Close, Counted, LeaseInv, LeasePinsAssignment, NoLeakedLease
<1>9. CASE Open
  BY <1>9 DEF Open, LeaseInv, LeasePinsAssignment, NoLeakedLease
<1>10. CASE ProcessCrash
  BY <1>10 DEF ProcessCrash, LeaseInv, LeasePinsAssignment, NoLeakedLease, NoLease
<1>11. CASE HostCrash
  BY <1>11 DEF HostCrash, LeaseInv, LeasePinsAssignment, NoLeakedLease, NoLease
<1>12. CASE UNCHANGED vars
  BY <1>12 DEF vars, LeaseInv, LeasePinsAssignment, NoLeakedLease
<1> QED
  BY <1>1, <1>2, <1>3, <1>4, <1>5, <1>6, <1>7, <1>8, <1>9, <1>10, <1>11, <1>12
  DEF Next

(* A live lease pins its assignment and no lease leaks, with process and   *)
(* host crashes, whatever the number of routes and operations              *)
(* (AcquireOperation, releaseOperation and the drain check of Transition). *)
THEOREM LeasesPinAssignments == Spec => [](LeasePinsAssignment /\ NoLeakedLease)
<1>1. Init => LeaseInv
  BY BoundsAssumption, NullAssumption
  DEF Init, LeaseInv, TypeOK, EmptyLedger, DiskState, Entry, Absent, Lease,
      LeasePinsAssignment, NoLeakedLease, NoLease
<1>2. LeaseInv => LeasePinsAssignment /\ NoLeakedLease
  BY DEF LeaseInv
<1> QED BY <1>1, <1>2, LeaseInvInductive, TypeCorrect, PTL DEF Spec

-----------------------------------------------------------------------------
(* Generations.  While only the process may crash, the file a restart will *)
(* read is at most one accepted call ahead of memory: its clock is not     *)
(* behind, and each of its assignments is either the one in memory or      *)
(* fresh.                                                                  *)

Fresh(old, new, last) ==
  \/ new.state = "absent"
  \/ new.generation > last
  \/ /\ old.generation = new.generation
     /\ old.owner = new.owner
     /\ new.engine \in {old.engine, NoEngine}

Ahead(next) ==
  /\ next.lastGeneration >= state.lastGeneration
  /\ \A r \in Routes : Fresh(state.routes[r], next.routes[r], state.lastGeneration)

FileInv == TypeOK /\ Ahead(disk)

(* Every call proposes a ledger that is ahead of memory.                   *)
LEMMA ProposalsAhead ==
  ASSUME TypeOK, NEW r \in Routes
  PROVE  /\ \A o \in Owners, e \in Engines, at \in 0 .. MaxTime : Ahead(Bound(r, o, e, at))
         /\ \A e \in Engines, at \in 0 .. MaxTime : Ahead(Rebound(r, e, at))
         /\ \A to \in RouteStates : Ahead(Transited(r, to))
         /\ \A at \in 0 .. MaxTime :
              Ahead(WithRoute(r, [state.routes[r] EXCEPT !.activity = at]))
         /\ Ahead(WithRoute(r, Absent))
<1>0. /\ state.routes \in [Routes -> Entry]
      /\ state.lastGeneration \in Nat
      /\ state.routes[r] \in Entry
      /\ state \in DiskState
  BY BoundsAssumption DEF TypeOK, DiskState
<1>1. ASSUME NEW entry, entry.generation = state.lastGeneration + 1
      PROVE  Ahead(WithNewGeneration(r, entry))
  BY <1>0, <1>1 DEF Ahead, Fresh, WithNewGeneration
<1>2. ASSUME NEW entry, Fresh(state.routes[r], entry, state.lastGeneration)
      PROVE  Ahead(WithRoute(r, entry))
  <2>1. /\ WithRoute(r, entry).lastGeneration = state.lastGeneration
        /\ WithRoute(r, entry).routes = [state.routes EXCEPT ![r] = entry]
    BY <1>0 DEF WithRoute, DiskState
  <2>2. \A q \in Routes :
          Fresh(state.routes[q], [state.routes EXCEPT ![r] = entry][q], state.lastGeneration)
    BY <1>0, <1>2 DEF Fresh
  <2> QED BY <1>0, <2>1, <2>2 DEF Ahead
<1>3. /\ \A o \in Owners, e \in Engines, at \in 0 .. MaxTime : Ahead(Bound(r, o, e, at))
      /\ \A e \in Engines, at \in 0 .. MaxTime : Ahead(Rebound(r, e, at))
  BY <1>1 DEF Bound, Rebound
<1>4. ASSUME NEW to \in RouteStates PROVE Ahead(Transited(r, to))
  BY <1>0, <1>2, Zenon DEF Transited, Fresh, Entry
<1>5. ASSUME NEW at \in 0 .. MaxTime
      PROVE  Ahead(WithRoute(r, [state.routes[r] EXCEPT !.activity = at]))
  BY <1>0, <1>2 DEF Fresh, Entry
<1>6. Ahead(WithRoute(r, Absent))
  BY <1>2 DEF Fresh, Absent
<1> QED BY <1>3, <1>4, <1>5, <1>6

(* Publishing, or failing to publish, a ledger that is ahead of memory     *)
(* keeps the file ahead and moves memory forward.                          *)
LEMMA UpdateAhead ==
  ASSUME FileInv, TypeOK', NEW next \in DiskState, Update(next), Ahead(next)
  PROVE  FileInv' /\ Ahead(state')
<1>1. disk' = next /\ (state' = next \/ state' = state)
  BY DEF Update
<1>2. state \in DiskState
  BY DEF FileInv, TypeOK
<1>3. \A l \in DiskState : l.lastGeneration >= l.lastGeneration
  BY BoundsAssumption DEF DiskState
<1>4. \A l \in DiskState, r \in Routes : Fresh(l.routes[r], l.routes[r], l.lastGeneration)
  BY DEF Fresh
<1>5. CASE state' = next
  BY <1>1, <1>3, <1>4, <1>5 DEF FileInv, Ahead
<1>6. CASE state' = state
  BY <1>1, <1>2, <1>3, <1>4, <1>6 DEF FileInv, Ahead
<1> QED BY <1>1, <1>5, <1>6

(* Every step keeps the file ahead of memory and moves memory forward, as  *)
(* long as a crash of the host keeps what was renamed.                     *)
LEMMA FileInvInductive ==
  ~LosesRenames /\ FileInv /\ TypeOK' /\ [Next]_vars => FileInv' /\ Ahead(state')
<1> SUFFICES ASSUME ~LosesRenames, FileInv, TypeOK', [Next]_vars
             PROVE  FileInv' /\ Ahead(state')
  OBVIOUS
<1> USE BoundsAssumption
<1>0. TypeOK /\ 0 \in 0 .. MaxTime
  BY DEF FileInv
<1>a. Ahead(state)
  BY DEF FileInv, TypeOK, DiskState, Ahead, Fresh
<1>1. ASSUME NEW r \in Routes, NEW o \in Owners, NEW e \in Engines,
             NEW at \in 0 .. MaxTime, Bind(r, o, e, at)
      PROVE  FileInv' /\ Ahead(state')
  BY <1>0, <1>1, ProposalTypes, ProposalsAhead, UpdateAhead, Zenon DEF Bind
<1>2. ASSUME NEW r \in Routes, NEW g \in 1 .. MaxGeneration, NEW e \in Engines,
             NEW at \in 0 .. MaxTime, Rebind(r, g, e, at)
      PROVE  FileInv' /\ Ahead(state')
  <2>1. Rebound(r, e, at) \in DiskState
    BY <1>0, <1>2, ProposalTypes, Zenon DEF Rebind
  <2>2. Ahead(Rebound(r, e, at))
    BY <1>0, ProposalsAhead
  <2> QED BY <1>2, <2>1, <2>2, UpdateAhead DEF Rebind
<1>3. ASSUME NEW r \in Routes, NEW g \in 1 .. MaxGeneration,
             NEW from \in RouteStates, NEW to \in RouteStates,
             Transition(r, g, from, to)
      PROVE  FileInv' /\ Ahead(state')
  BY <1>0, <1>3, ProposalTypes, ProposalsAhead, UpdateAhead, Zenon DEF Transition
<1>4. ASSUME NEW r \in Routes, NEW g \in 1 .. MaxGeneration,
             NEW from \in RouteStates, NEW at \in 0 .. MaxTime,
             Touch(r, g, from, at)
      PROVE  FileInv' /\ Ahead(state')
  BY <1>0, <1>4, ProposalTypes, ProposalsAhead, UpdateAhead DEF Touch
<1>5. ASSUME NEW r \in Routes, NEW g \in 1 .. MaxGeneration, Remove(r, g)
      PROVE  FileInv' /\ Ahead(state')
  BY <1>0, <1>5, ProposalTypes, ProposalsAhead, UpdateAhead, Zenon DEF Remove
<1>6. CASE UNCHANGED <<state, disk>>
  BY <1>6, <1>a DEF FileInv, Ahead
<1>7. CASE Open
  <2>1. state' = disk /\ disk' = disk /\ Ahead(disk)
    BY <1>7 DEF Open, FileInv
  <2>2. /\ disk.lastGeneration >= disk.lastGeneration
        /\ \A r \in Routes : Fresh(disk.routes[r], disk.routes[r], disk.lastGeneration)
    BY <1>0 DEF TypeOK, DiskState, Fresh
  <2> QED BY <2>1, <2>2 DEF FileInv, Ahead
<1>8. ASSUME NEW op \in Ops, NEW r \in Routes, NEW o \in Owners,
             NEW g \in 1 .. MaxGeneration, AcquireOperation(op, r, o, g)
      PROVE  UNCHANGED <<state, disk>>
  BY <1>8 DEF AcquireOperation
<1>9. ASSUME NEW op \in Ops, ReleaseOperation(op)
      PROVE  UNCHANGED <<state, disk>>
  BY <1>9 DEF ReleaseOperation
<1>10. Close \/ ProcessCrash \/ UNCHANGED vars => UNCHANGED <<state, disk>>
  BY DEF Close, ProcessCrash, vars
<1>11. HostCrash => UNCHANGED <<state, disk>>
  BY DEF HostCrash
<1> QED
  BY <1>1, <1>2, <1>3, <1>4, <1>5, <1>6, <1>7, <1>8, <1>9, <1>10, <1>11 DEF Next

(* Where a crash of the host keeps what was renamed, the published clock   *)
(* never runs backwards and no generation names two assignments, whatever  *)
(* writes fail after their rename (Bind, Rebind, Transition, persist and   *)
(* Open).                                                                  *)
THEOREM GenerationsAreFresh ==
  ASSUME ~LosesRenames
  PROVE  Spec => ClockNeverBack /\ GenerationsNeverReused
<1>1. Init => FileInv
  BY BoundsAssumption, NullAssumption
  DEF Init, FileInv, TypeOK, EmptyLedger, DiskState, Entry, Absent, Lease, Ahead, Fresh
<1>2. Ahead(state') => /\ state'.lastGeneration >= state.lastGeneration
                       /\ \A r \in Routes : FreshAssignment(r)
  BY DEF Ahead, Fresh, FreshAssignment
<1>3. FileInv /\ TypeOK' /\ [Next]_vars
        => /\ FileInv'
           /\ [state'.lastGeneration >= state.lastGeneration]_vars
           /\ [\A r \in Routes : FreshAssignment(r)]_vars
  BY <1>2, FileInvInductive
<1> QED
  BY <1>1, <1>3, TypeCorrect, PTL DEF Spec, ClockNeverBack, GenerationsNeverReused

-----------------------------------------------------------------------------
(* Validation.  The published ledger is always consistent, because update *)
(* and Open validate before they publish; from a consistent ledger the     *)
(* checks of each call are enough for its proposal to be consistent again. *)

(* Replacing one entry of a consistent one by an entry with a generation of  *)
(* its own that conflicts with no other assignment keeps it consistent.    *)
LEMMA ReplacedIsConsistent ==
  ASSUME NEW l \in DiskState, NEW next \in DiskState, NEW r \in Routes,
         Consistent(l),
         \A q \in Routes \ {r} : next.routes[q] = l.routes[q],
         next.lastGeneration >= l.lastGeneration,
         next.routes[r].state # "absent" =>
           /\ next.routes[r].owner \in Owners
           /\ next.routes[r].generation \in 1 .. next.lastGeneration
           /\ (next.routes[r].state = "released") <=> (next.routes[r].engine = NoEngine)
           /\ \A q \in Present(l) \ {r} :
                l.routes[q].generation # next.routes[r].generation,
         next.routes[r].state \notin {"absent", "released"} =>
           \A q \in Assigned(l) \ {r} :
             /\ l.routes[q].engine # next.routes[r].engine
             /\ l.routes[q].owner # next.routes[r].owner
  PROVE  Consistent(next)
<1>1. /\ l.lastGeneration \in Nat /\ next.lastGeneration \in Nat
      /\ \A q \in Routes : l.routes[q].generation \in Nat
  BY BoundsAssumption DEF DiskState, Entry
<1>2. Present(next) \ {r} = Present(l) \ {r}
  BY DEF Present
<1>3. Assigned(next) \ {r} = Assigned(l) \ {r}
  BY DEF Assigned, Present
<1>4. ASSUME NEW q \in Present(next)
      PROVE  /\ next.routes[q].owner \in Owners
             /\ next.routes[q].generation \in 1 .. next.lastGeneration
             /\ (next.routes[q].state = "released") <=> (next.routes[q].engine = NoEngine)
  BY <1>1 DEF Present, Consistent
<1>5. ASSUME NEW q \in Present(next), NEW p \in Present(next) \ {q}
      PROVE  next.routes[p].generation # next.routes[q].generation
  BY <1>2 DEF Present, Consistent
<1>6. ASSUME NEW p \in Assigned(next), NEW q \in Assigned(next), p # q
      PROVE  /\ next.routes[p].engine # next.routes[q].engine
             /\ next.routes[p].owner # next.routes[q].owner
  BY <1>3, <1>6 DEF Present, Assigned, Consistent
<1> QED BY <1>4, <1>5, <1>6, Zenon DEF Consistent

(* The checks of Bind, Rebind, Transition and Remove on a consistent       *)
(* ledger imply that what they propose is consistent.                      *)
LEMMA ChecksSuffice ==
  ASSUME TypeOK, Consistent(state)
  PROVE  OnlyLimitsRefuse
<1> USE BoundsAssumption, NullAssumption
<1>0. /\ state \in DiskState
      /\ state.routes \in [Routes -> Entry]
      /\ state.lastGeneration \in Nat
      /\ 0 \in 0 .. MaxTime /\ MaxTime \in 0 .. MaxTime
  BY DEF TypeOK, DiskState
<1>1. ASSUME NEW q \in Present(state)
      PROVE  /\ state.routes[q].owner \in Owners
             /\ state.routes[q].generation \in 1 .. state.lastGeneration
             /\ (state.routes[q].state = "released") <=> (state.routes[q].engine = NoEngine)
             /\ \A p \in Present(state) \ {q} :
                  state.routes[p].generation # state.routes[q].generation
  BY DEF Consistent
<1>2. ASSUME NEW p \in Assigned(state), NEW q \in Assigned(state), p # q
      PROVE  /\ state.routes[p].engine # state.routes[q].engine
             /\ state.routes[p].owner # state.routes[q].owner
  BY <1>2 DEF Consistent
<1>3. ASSUME NEW r \in Routes, NEW o \in Owners, NEW e \in Engines, CanBind(r, o, e)
      PROVE  Consistent(Bound(r, o, e, 0))
  <2> DEFINE next == Bound(r, o, e, 0)
  <2>1. next \in DiskState
    BY <1>0, <1>3, ProposalTypes, Zenon
  <2>2. /\ \A q \in Routes \ {r} : next.routes[q] = state.routes[q]
        /\ next.lastGeneration = state.lastGeneration + 1
        /\ next.routes[r] = [owner |-> o, engine |-> e, activity |-> 0,
             generation |-> state.lastGeneration + 1, state |-> "attaching"]
    BY <1>0, Zenon DEF Bound, WithNewGeneration
  <2>3. \A q \in Assigned(state) : state.routes[q].engine # e /\ state.routes[q].owner # o
    BY <1>3 DEF CanBind, AssignmentConflicts
  <2>4. \A q \in Present(state) : state.routes[q].generation # state.lastGeneration + 1
    BY <1>0, <1>1
  <2> HIDE DEF next
  <2>5. Consistent(next)
    BY <1>0, <2>1, <2>2, <2>3, <2>4, ReplacedIsConsistent
  <2> QED BY <2>5 DEF next
<1>4. ASSUME NEW r \in Routes, NEW e \in Engines,
             CanRebind(r, state.routes[r].generation, e, MaxTime)
      PROVE  Consistent(Rebound(r, e, MaxTime))
  <2> DEFINE next == Rebound(r, e, MaxTime)
  <2>1. r \in Present(state) /\ state.routes[r].generation \in 1 .. MaxGeneration
    BY <1>0, <1>1, <1>4 DEF CanRebind, Entry
  <2>2. next \in DiskState
    BY <1>0, <1>4, <2>1, ProposalTypes, Zenon
  <2>3. /\ \A q \in Routes \ {r} : next.routes[q] = state.routes[q]
        /\ next.lastGeneration = state.lastGeneration + 1
        /\ next.routes[r] = [owner |-> state.routes[r].owner, engine |-> e,
             generation |-> state.lastGeneration + 1, state |-> "attaching",
             activity |-> MaxTime]
    BY <1>0, Zenon DEF Rebound, WithNewGeneration
  <2>4. \A q \in Assigned(state) \ {r} :
          state.routes[q].engine # e /\ state.routes[q].owner # state.routes[r].owner
    BY <1>4 DEF CanRebind, AssignmentConflicts
  <2>5. \A q \in Present(state) : state.routes[q].generation # state.lastGeneration + 1
    BY <1>0, <1>1
  <2> HIDE DEF next
  <2>6. Consistent(next)
    BY <1>0, <1>1, <2>1, <2>2, <2>3, <2>4, <2>5, ReplacedIsConsistent
  <2> QED BY <2>6 DEF next
<1>5. ASSUME NEW r \in Routes, NEW to \in RouteStates,
             CanTransit(r, state.routes[r].generation, state.routes[r].state, to)
      PROVE  Consistent(Transited(r, to))
  <2> DEFINE next == Transited(r, to)
  <2>1. next \in DiskState
    BY <1>0, ProposalTypes, Zenon
  <2>2. /\ \A q \in Routes \ {r} : next.routes[q] = state.routes[q]
        /\ next.lastGeneration = state.lastGeneration
        /\ next.routes[r].owner = state.routes[r].owner
        /\ next.routes[r].generation = state.routes[r].generation
        /\ next.routes[r].state = to
        /\ next.routes[r].engine = IF to = "released" THEN NoEngine ELSE state.routes[r].engine
    BY <1>0 DEF Transited, WithRoute, DiskState, Entry
  <2>3. r \in Assigned(state)
    BY <1>5 DEF CanTransit, AllowedTransition, Assigned
  <2>4. r \in Present(state) /\ state.routes[r].engine # NoEngine
    BY <1>1, <2>3 DEF Assigned
  <2> HIDE DEF next
  <2>5. Consistent(next)
    BY <1>0, <1>1, <1>2, <2>1, <2>2, <2>3, <2>4, ReplacedIsConsistent
  <2> QED BY <2>5 DEF next
<1>6. ASSUME NEW r \in Routes PROVE Consistent(WithRoute(r, Absent))
  <2> DEFINE next == WithRoute(r, Absent)
  <2>1. next \in DiskState
    BY <1>0, ProposalTypes, Zenon
  <2>2. /\ \A q \in Routes \ {r} : next.routes[q] = state.routes[q]
        /\ next.lastGeneration = state.lastGeneration
        /\ next.routes[r].state = "absent"
    BY <1>0 DEF WithRoute, DiskState, Absent
  <2> HIDE DEF next
  <2>3. Consistent(next)
    BY <1>0, <2>1, <2>2, ReplacedIsConsistent
  <2> QED BY <2>3 DEF next
<1> QED BY <1>3, <1>4, <1>5, <1>6 DEF OnlyLimitsRefuse

(* The validation inside update refuses what the checks of Bind, Rebind,   *)
(* Transition and Remove accepted for nothing but the ledger's two limits, *)
(* after any history of calls, failed writes, crashes and restarts.        *)
THEOREM OnlyLimitsRefuseCalls == Spec => []OnlyLimitsRefuse
<1> DEFINE Valid == Consistent(state)
<1>1. Init => Valid
  BY DEF Init, EmptyLedger, Absent, Consistent, Present, Assigned
<1>2. ASSUME Valid, [Next]_vars PROVE Valid'
  <2>1. \A next : Update(next) => Valid'
    BY <1>2 DEF Update, Storable, ValidateDiskState
  <2>2. state' = state => Valid'
    BY <1>2
  <2>3. Open => Valid'
    BY DEF Open, Storable, ValidateDiskState
  <2> HIDE DEF Valid
  <2> QED BY <1>2, <2>1, <2>2, <2>3, Zenon
       DEF Next, Bind, Rebind, Transition, Touch, Remove, AcquireOperation,
           ReleaseOperation, Close, ProcessCrash, HostCrash, vars
<1>3. TypeOK /\ Valid => OnlyLimitsRefuse
  BY ChecksSuffice
<1> HIDE DEF Valid
<1> QED BY <1>1, <1>2, <1>3, TypeCorrect, PTL DEF Spec
=============================================================================
