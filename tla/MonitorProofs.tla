----------------------------- MODULE MonitorProofs -----------------------------
(***************************************************************************)
(* Theorems about the two ends of a registration: the monitor's table, for *)
(* every set of names, PIDs and identities, every lease and every          *)
(* capacity, and the client inside a node, for all periods.                *)
(***************************************************************************)
EXTENDS MonitorRegistry, MonitorClient, FiniteSetTheorems, TLAPS

-------------------------------------------------------------------------------

\* The type invariant without the size of the table.
Typed ==
  /\ start \in [Pid -> Nat]
  /\ up \in [Pid -> BOOLEAN]
  /\ owner \in [Name -> Identity \cup {None}]
  /\ age \in [Name -> 0..MaxAge]
  /\ tombstones \subseteq Identity
  /\ CallType
  /\ confirmed \subseteq Identity

\* The table of tombstones is finite and within its capacity.
Bounded ==
  /\ IsFiniteSet(tombstones)
  /\ Cardinality(tombstones) <= MaxTombstones

\* A record stands under its own name.
NamedRight == \A n \in Name : owner[n] # None => owner[n].name = n

\* Only processes that have run were confirmed to be gone.
ConfirmedRan == \A i \in confirmed : i.start <= start[i.pid]

\* A confirmed identity keeps its tombstone while its process lives.
LiveConfirmedBuried == \A i \in confirmed : IsLiveIdentity(i) => i \in tombstones

\* No record belongs to an identity with a tombstone.
BuriedOwnNothing == \A i \in tombstones : owner[i.name] # i

\* After the prune of a sample no record of a confirmed identity is left.
SampleIsClean == SamplesShowNoEnded

Inv ==
  /\ Typed
  /\ Bounded
  /\ NamedRight
  /\ ConfirmedRan
  /\ LiveConfirmedBuried
  /\ BuriedOwnNothing
  /\ SampleIsClean

USE IdentityAssumption, LeaseAssumption

\* The table starts empty and well formed.
LEMMA InitInv == Init => Inv
<1> SUFFICES ASSUME Init PROVE Inv
  OBVIOUS
<1>1. Typed
  BY DEF Init, Typed, CallType, Idle, MaxAge
<1>2. Bounded
  BY FS_EmptySet DEF Init, Bounded
<1>3. NamedRight /\ ConfirmedRan /\ LiveConfirmedBuried /\ BuriedOwnNothing /\ SampleIsClean
  BY DEF Init, NamedRight, ConfirmedRan, LiveConfirmedBuried, BuriedOwnNothing, SampleIsClean,
         SamplesShowNoEnded, GetsAllNodeInfo, Idle
<1> QED
  BY <1>1, <1>2, <1>3 DEF Inv

\* Processes that exit or take over a PID make identities dead, never alive.
LEMMA WorldKeepsInv ==
  ASSUME Inv, NEW p \in Pid, Exit(p) \/ Spawn(p)
  PROVE  Inv'
<1> USE DEF Inv
<1>1. start' \in [Pid -> Nat] /\ up' \in [Pid -> BOOLEAN]
  <2>1. CASE Exit(p)
    BY <2>1 DEF Typed, Exit
  <2>2. CASE Spawn(p)
    <3>1. start[p] + 1 \in Nat
      BY DEF Typed
    <3> QED
      BY <2>2, <3>1 DEF Typed, Spawn
  <2> QED
    BY <2>1, <2>2
<1>2. \A r \in Pid : start[r] <= start'[r]
  BY DEF Typed, Exit, Spawn
<1>3. Typed'
  <2>1. CallType'
    BY <1>1, <1>2 DEF Typed, CallType, Exit, Spawn, Idle, table
  <2> QED
    BY <1>1, <2>1 DEF Typed, Exit, Spawn, table, MaxAge
<1>4. ConfirmedRan'
  BY <1>1, <1>2 DEF Typed, ConfirmedRan, Exit, Spawn
<1>5. \A i \in confirmed : IsLiveIdentity(i)' => IsLiveIdentity(i)
  BY DEF Typed, ConfirmedRan, IsLiveIdentity, Exit, Spawn
<1>6. LiveConfirmedBuried'
  BY <1>5 DEF LiveConfirmedBuried, Exit, Spawn, table
<1>7. Bounded' /\ NamedRight' /\ BuriedOwnNothing' /\ SampleIsClean'
  BY DEF Bounded, NamedRight, BuriedOwnNothing, SampleIsClean, SamplesShowNoEnded, GetsAllNodeInfo,
         Exit, Spawn, table
<1> QED
  BY <1>3, <1>4, <1>6, <1>7

\* Time only ages the records and the call.
LEMMA TickKeepsInv == Inv /\ Tick => Inv'
<1> SUFFICES ASSUME Inv, Tick PROVE Inv'
  OBVIOUS
<1> USE DEF Inv
<1>1. age' \in [Name -> 0..MaxAge]
  BY DEF Typed, Tick, MaxAge
<1>2. CallType'
  BY DEF Typed, CallType, Tick, Idle, world
<1>3. Typed'
  BY <1>1, <1>2 DEF Typed, Tick, world
<1>4. call'.kind = call.kind /\ call'.pc = call.pc
  BY DEF Typed, CallType, Tick, Idle
<1>5. Bounded' /\ NamedRight' /\ BuriedOwnNothing' /\ SampleIsClean'
  BY <1>4 DEF Bounded, NamedRight, BuriedOwnNothing, SampleIsClean, SamplesShowNoEnded, GetsAllNodeInfo, Tick
<1>6. ConfirmedRan' /\ LiveConfirmedBuried'
  BY DEF ConfirmedRan, LiveConfirmedBuried, IsLiveIdentity, Tick, world
<1> QED
  BY <1>3, <1>5, <1>6

\* A call that begins, and a refused registration, leave the table alone.
LEMMA CallsBegin ==
  ASSUME Inv,
         UpdateAll \/ CheckLive \/ \E i \in KnownIdentity : Register(i) \/ Unregister(i)
  PROVE  Inv'
<1> USE DEF Inv
<1>1. UNCHANGED <<world, table, confirmed>>
  BY DEF UpdateAll, CheckLive, Register, Unregister
<1>2. CallType' /\ ~GetsAllNodeInfo'
  BY DEF Typed, CallType, GetsAllNodeInfo, UpdateAll, CheckLive, Register, Unregister, KnownIdentity,
         Idle, world
<1>3. Typed'
  BY <1>1, <1>2 DEF Typed, world, table
<1>4. Bounded' /\ NamedRight' /\ BuriedOwnNothing' /\ SampleIsClean'
  BY <1>1, <1>2 DEF Bounded, NamedRight, BuriedOwnNothing, SampleIsClean, SamplesShowNoEnded, table
<1>5. ConfirmedRan' /\ LiveConfirmedBuried'
  BY <1>1 DEF ConfirmedRan, LiveConfirmedBuried, IsLiveIdentity, world, table
<1> QED
  BY <1>3, <1>4, <1>5

\* A prune drops only tombstones of dead processes, and every record it leaves
\* is of a live one, hence not of a confirmed identity.
LEMMA PruneKeepsInv == Inv /\ PruneLocked => Inv'
<1> SUFFICES ASSUME Inv, PruneLocked PROVE Inv'
  OBVIOUS
<1> USE DEF Inv
<1>1. Typed'
  BY DEF Typed, CallType, PruneLocked, Idle, MaxAge, world
<1>2. Bounded'
  <2>1. tombstones' \subseteq tombstones
    BY DEF PruneLocked
  <2>2. IsFiniteSet(tombstones') /\ Cardinality(tombstones') <= Cardinality(tombstones)
    BY <2>1, FS_Subset DEF Bounded
  <2>3. Cardinality(tombstones) \in Nat /\ Cardinality(tombstones') \in Nat
    BY <2>2, FS_CardinalityType DEF Bounded
  <2> QED
    BY <2>2, <2>3 DEF Bounded
<1>3. \A n \in Name : owner'[n] # None => owner'[n] = owner[n] /\ IsLiveIdentity(owner[n])
  BY DEF Typed, PruneLocked, Ended
<1>4. NamedRight' /\ BuriedOwnNothing'
  BY <1>3 DEF Typed, NamedRight, BuriedOwnNothing, PruneLocked
<1>5. ConfirmedRan'
  BY DEF ConfirmedRan, PruneLocked, world
<1>6. LiveConfirmedBuried'
  BY DEF LiveConfirmedBuried, PruneLocked, KeepsTombstone, IsLiveIdentity, world
<1>7. \A n \in Name : owner'[n] \notin confirmed
  <2> SUFFICES ASSUME NEW n \in Name, owner'[n] \in confirmed PROVE FALSE
    OBVIOUS
  <2>1. owner'[n] # None
    BY DEF Typed
  <2>2. owner[n] \in confirmed /\ IsLiveIdentity(owner[n]) /\ owner[n].name = n
    BY <1>3, <2>1 DEF NamedRight
  <2> QED
    BY <2>2 DEF LiveConfirmedBuried, BuriedOwnNothing
<1>8. SampleIsClean'
  BY <1>7 DEF SampleIsClean, SamplesShowNoEnded, PruneLocked
<1> QED
  BY <1>1, <1>2, <1>4, <1>5, <1>6, <1>8

\* A registration writes a record only for an identity without a tombstone.
LEMMA RegisterKeepsInv == Inv /\ CommitRegister => Inv'
<1> SUFFICES ASSUME Inv, CommitRegister PROVE Inv'
  OBVIOUS
<1> USE DEF Inv
<1> DEFINE i == call.id
<1>1. /\ i \in Identity /\ call.stamp \in 0..MaxAge
      /\ owner' = IF MayCreate(i) THEN [owner EXCEPT ![i.name] = i] ELSE owner
      /\ age' = IF MayCreate(i) \/ Refreshes(i) THEN [age EXCEPT ![i.name] = call.stamp] ELSE age
      /\ call' = Idle
      /\ UNCHANGED <<world, tombstones, confirmed>>
  BY DEF Typed, CallType, CommitRegister, Idle, MaxAge
<1> HIDE DEF i
<1>2. Typed'
  BY <1>1 DEF Typed, CallType, world, MaxAge
<1>3. Bounded' /\ ConfirmedRan' /\ LiveConfirmedBuried'
  BY <1>1 DEF Bounded, ConfirmedRan, LiveConfirmedBuried, IsLiveIdentity, world
<1>4. NamedRight' /\ BuriedOwnNothing'
  BY <1>1 DEF Typed, NamedRight, BuriedOwnNothing, MayCreate
<1>5. SampleIsClean'
  BY <1>1 DEF SampleIsClean, SamplesShowNoEnded, GetsAllNodeInfo, Idle
<1> QED
  BY <1>2, <1>3, <1>4, <1>5

\* An unregister request that is confirmed has left a tombstone, and the
\* record of the identity, if it was there, is gone with the same step.
LEMMA UnregisterKeepsInv == Inv /\ CommitUnregister => Inv'
<1> SUFFICES ASSUME Inv, CommitUnregister PROVE Inv'
  OBVIOUS
<1> USE DEF Inv
<1> DEFINE i == call.id
<1>1. /\ i \in Identity /\ i.start <= start[i.pid]
      /\ tombstones' = IF MayEnd(i) THEN tombstones \cup {i} ELSE tombstones
      /\ IF MayEnd(i) /\ Owns(i)
         THEN /\ owner' = [owner EXCEPT ![i.name] = None]
              /\ age' = [age EXCEPT ![i.name] = 0]
         ELSE UNCHANGED <<owner, age>>
      /\ confirmed' = IF MayEnd(i) \/ i \in tombstones THEN confirmed \cup {i} ELSE confirmed
      /\ call' = Idle
      /\ UNCHANGED world
  BY DEF Typed, CallType, CommitUnregister, Idle
<1> HIDE DEF i
<1>2. Typed'
  BY <1>1 DEF Typed, CallType, world, MaxAge
<1>3. Bounded'
  <2>1. CASE MayEnd(i)
    <3>1. IsFiniteSet(tombstones') /\ Cardinality(tombstones') = Cardinality(tombstones) + 1
      BY <1>1, <2>1, FS_AddElement DEF Bounded, MayEnd
    <3>2. Cardinality(tombstones) \in Nat
      BY FS_CardinalityType DEF Bounded
    <3> QED
      BY <2>1, <3>1, <3>2 DEF Bounded, MayEnd
  <2>2. CASE ~MayEnd(i)
    BY <1>1, <2>2 DEF Bounded
  <2> QED
    BY <2>1, <2>2
<1>4. NamedRight' /\ ConfirmedRan'
  BY <1>1 DEF Typed, NamedRight, ConfirmedRan, world
<1>5. LiveConfirmedBuried'
  BY <1>1 DEF LiveConfirmedBuried, IsLiveIdentity, world
<1>6. BuriedOwnNothing'
  BY <1>1 DEF Typed, BuriedOwnNothing, Owns
<1>7. SampleIsClean'
  BY <1>1 DEF SampleIsClean, SamplesShowNoEnded, GetsAllNodeInfo, Idle
<1> QED
  BY <1>2, <1>3, <1>4, <1>5, <1>6, <1>7

\* Inv is preserved by every step.
LEMMA NextInv == Inv /\ [Next]_vars => Inv'
<1> SUFFICES ASSUME Inv, [Next]_vars PROVE Inv'
  OBVIOUS
<1>1. CASE \E p \in Pid : Exit(p) \/ Spawn(p)
  BY <1>1, WorldKeepsInv
<1>2. CASE Tick
  BY <1>2, TickKeepsInv
<1>3. CASE UpdateAll \/ CheckLive \/ \E i \in KnownIdentity : Register(i) \/ Unregister(i)
  BY <1>3, CallsBegin
<1>4. CASE PruneLocked
  BY <1>4, PruneKeepsInv
<1>5. CASE CommitRegister
  BY <1>5, RegisterKeepsInv
<1>6. CASE CommitUnregister
  BY <1>6, UnregisterKeepsInv
<1>7. CASE GetAllNodeInfo
  <2>1. call' = Idle /\ UNCHANGED <<world, table, confirmed>>
    BY <1>7 DEF GetAllNodeInfo
  <2>2. Typed' /\ SampleIsClean'
    BY <2>1 DEF Inv, Typed, CallType, Idle, world, table, SampleIsClean, SamplesShowNoEnded, GetsAllNodeInfo
  <2>3. Bounded' /\ NamedRight' /\ ConfirmedRan' /\ LiveConfirmedBuried' /\ BuriedOwnNothing'
    BY <2>1 DEF Inv, Bounded, NamedRight, ConfirmedRan, LiveConfirmedBuried, BuriedOwnNothing,
                IsLiveIdentity, world, table
  <2> QED
    BY <2>2, <2>3 DEF Inv
<1>8. CASE UNCHANGED vars
  <2>1. UNCHANGED <<start, up, owner, age, tombstones, call, confirmed>>
    BY <1>8 DEF vars
  <2>2. Typed' /\ SampleIsClean'
    BY <2>1 DEF Inv, Typed, CallType, SampleIsClean, SamplesShowNoEnded, GetsAllNodeInfo, Idle
  <2>3. Bounded' /\ NamedRight' /\ ConfirmedRan' /\ LiveConfirmedBuried' /\ BuriedOwnNothing'
    BY <2>1 DEF Inv, Bounded, NamedRight, ConfirmedRan, LiveConfirmedBuried, BuriedOwnNothing, IsLiveIdentity
  <2> QED
    BY <2>2, <2>3 DEF Inv
<1> QED
  BY <1>1, <1>2, <1>3, <1>4, <1>5, <1>6, <1>7, <1>8 DEF Next, CallStep

\* The inductive invariant holds in every reachable state.
THEOREM Invariance == Spec => []Inv
<1>1. Init => Inv
  BY InitInv
<1>2. Inv /\ [Next]_vars => Inv'
  BY NextInv
<1> QED
  BY <1>1, <1>2, PTL DEF Spec

\* The table is well formed and its tombstones stay within max_tombstones_.
THEOREM TypeCorrect == Spec => []TypeOK
<1>1. Inv => TypeOK
  BY DEF Inv, Typed, Bounded, TypeOK
<1> QED
  BY <1>1, Invariance, PTL

\* A confirmed unregister request is final while the process lives: the late
\* renewals RegisterNode refuses never bring the record back.
THEOREM EndedNeverReturns == Spec => []EndedStaysEnded
<1>1. Inv => EndedStaysEnded
  BY DEF Inv, LiveConfirmedBuried, BuriedOwnNothing, EndedStaysEnded
<1> QED
  BY <1>1, Invariance, PTL

\* Sample() never publishes a node whose unregister request was confirmed.
THEOREM SamplesAreCurrent == Spec => []SamplesShowNoEnded
<1>1. Inv => SamplesShowNoEnded
  BY DEF Inv, SampleIsClean
<1> QED
  BY <1>1, Invariance, PTL

\* A name is lost to death, to a lapsed lease or to its owner's own request,
\* and to nothing else.
THEOREM NamesAreKept == Spec => OwnersKeepTheirNames
<1> DEFINE Kept(n) ==
      \/ owner[n] = None
      \/ owner'[n] = owner[n]
      \/ ~IsLiveIdentity(owner[n])
      \/ age[n] > Lease
      \/ owner[n] \in confirmed'
<1>1. Inv /\ [Next]_vars => [\A n \in Name : Kept(n)]_vars
  <2> SUFFICES ASSUME Inv, Next, NEW n \in Name PROVE Kept(n)
    BY DEF Kept
  <2>1. CASE UNCHANGED owner
    BY <2>1
  <2>2. CASE PruneLocked
    <3>1. call.stamp \in Nat /\ age[n] \in Nat
      BY <2>2 DEF Inv, Typed, CallType, PruneLocked, Idle
    <3>2. owner'[n] = owner[n] \/ Ended(n)
      BY <2>2 DEF PruneLocked
    <3> QED
      BY <3>1, <3>2 DEF Ended
  <2>3. CASE CommitRegister
    BY <2>3 DEF Inv, Typed, CommitRegister, MayCreate
  <2>4. CASE CommitUnregister
    <3> DEFINE i == call.id
    <3>1. /\ i \in Identity
          /\ owner' = IF MayEnd(i) /\ Owns(i) THEN [owner EXCEPT ![i.name] = None] ELSE owner
          /\ MayEnd(i) => i \in confirmed'
      BY <2>4 DEF Inv, Typed, CallType, CommitUnregister, Idle
    <3> HIDE DEF i
    <3> QED
      BY <3>1 DEF Inv, Typed, Owns
  <2> QED
    BY <2>1, <2>2, <2>3, <2>4 DEF Next, CallStep, Exit, Spawn, Tick, Register, Unregister, UpdateAll,
       CheckLive, GetAllNodeInfo, table
<1> QED
  BY <1>1, Invariance, PTL DEF Spec, OwnersKeepTheirNames
-------------------------------------------------------------------------------
(* The client inside a node.                                               *)

\* The variables whose values are compared have their types.
ClientTyped ==
  /\ worker \in {"run", "wait_service", "send", "await", "lock", "block", "sleep",
                 "read_deadline", "unregister", "await_unregister", "done"}
  /\ result \in {"none", "skipped", "unreachable", "accepted", "refused", "timeout"}
  /\ closer \in {"open", "store_deadline", "store_stopping", "notify", "join", "join_executor", "closed"}
  /\ current \in {"none", "sent", "handled"}
  /\ unregister \in {"none", "sent", "accepted", "refused", "lost"}
  /\ pending \in {0, 1}
  /\ timer \in Nat /\ overdue \in Nat /\ stale \in Nat /\ renewed \in Nat /\ lost \in Nat

\* Close() stores the deadline before the flag.
StoresInOrder ==
  /\ deadlineSet <=> closer \notin {"open", "store_deadline"}
  /\ stopping <=> closer \notin {"open", "store_deadline", "store_stopping"}

\* The worker leaves its loop for the flag only, and unregisters only then.
LeavesWhenStopped ==
  /\ worker \in {"read_deadline", "unregister", "await_unregister", "done"} => stopping
  /\ result # "none" => worker = "done"
  /\ unregister # "none" => worker \in {"await_unregister", "done"}

\* A request is under way, or its response, only while the worker awaits it:
\* the client never holds two futures.
OneRequest ==
  /\ pending = 1 <=> worker = "await"
  /\ current # "none" => worker = "await"

\* What the answer to an unregister request proves: either the tombstone is
\* still there, or the monitor has restarted and no old request can reach it.
UnregisteredForGood ==
  /\ result = "accepted" => unregister = "accepted"
  /\ unregister = "accepted" => ~record /\ (buried \/ stale = 0)

ClientInv ==
  /\ ClientTyped
  /\ StoresInOrder
  /\ LeavesWhenStopped
  /\ OneRequest
  /\ UnregisteredForGood
  /\ result # "skipped"

\* The client starts with nothing under way.
LEMMA ClientStarts == ClientInit => ClientInv
BY DEF ClientInit, ClientInv, ClientTyped, StoresInOrder, LeavesWhenStopped, OneRequest,
       UnregisteredForGood

\* The worker's steps (Run(), RegisterOnce(), UnregisterOnce()).
LEMMA WorkerKeepsClient ==
  ASSUME ClientInv, WorkerStep
  PROVE  ClientInv'
<1> USE DEF Goto, workerVars, closeVars, wire, monitor,
            ClientInv, ClientTyped, StoresInOrder, LeavesWhenStopped, OneRequest, UnregisteredForGood
<1>1. CASE RunLoop
  BY <1>1 DEF RunLoop
<1>2. CASE WaitForRegisterService
  BY <1>2 DEF WaitForRegisterService
<1>3. CASE SendRegister
  BY <1>3 DEF SendRegister
<1>4. CASE RegisterAnswered
  BY <1>4 DEF RegisterAnswered
<1>5. CASE RegisterTimesOut
  BY <1>5 DEF RegisterTimesOut, Lose, FuturesAfterRecreate
<1>6. CASE TestPredicate
  BY <1>6 DEF TestPredicate
<1>7. CASE Block \/ WakeUp
  BY <1>7 DEF Block, WakeUp
<1>8. CASE ReadDeadline
  BY <1>8 DEF ReadDeadline
<1>9. CASE SendUnregister
  BY <1>9 DEF SendUnregister
<1>10. CASE ServiceUnreachable \/ UnregisterTimesOut
  BY <1>10 DEF ServiceUnreachable, UnregisterTimesOut
<1>11. CASE UnregisterAnswered
  BY <1>11 DEF UnregisterAnswered
<1> QED
  BY <1>1, <1>2, <1>3, <1>4, <1>5, <1>6, <1>7, <1>8, <1>9, <1>10, <1>11 DEF WorkerStep

\* Close() and the executor thread.
LEMMA CloseKeepsClient ==
  ASSUME ClientInv, CloseBegins \/ CloserStep \/ ExecutorStarts
  PROVE  ClientInv'
<1> USE DEF Goto, workerVars, wire, monitor,
            ClientInv, ClientTyped, StoresInOrder, LeavesWhenStopped, OneRequest, UnregisteredForGood
<1>1. CASE CloseBegins \/ StoreDeadline
  BY <1>1 DEF CloseBegins, StoreDeadline
<1>2. CASE StoreStopping
  BY <1>2 DEF StoreStopping
<1>3. CASE Notify
  BY <1>3 DEF Notify
<1>4. CASE JoinWorker \/ JoinExecutor \/ ExecutorStarts
  BY <1>4 DEF JoinWorker, JoinExecutor, ExecutorStarts
<1> QED
  BY <1>1, <1>2, <1>3, <1>4 DEF CloserStep

\* The monitor, the network and the clock.
LEMMA MonitorKeepsClient ==
  ASSUME ClientInv, MonitorStep \/ ClientTick
  PROVE  ClientInv'
<1> USE DEF workerVars, closeVars, wire, monitor,
            ClientInv, ClientTyped, StoresInOrder, LeavesWhenStopped, OneRequest, UnregisteredForGood
<1>1. CASE RegisterArrives
  BY <1>1 DEF RegisterArrives, Renew, Accepts, MayRefuse
<1>2. CASE StaleRegisterArrives
  <2>1. record' /\ ~record => ~buried
    BY <1>2 DEF StaleRegisterArrives, Renew, Accepts, MayRefuse
  <2>2. stale > 0 /\ stale' = stale - 1 /\ renewed' \in Nat /\ lost' \in Nat
    BY <1>2 DEF StaleRegisterArrives, Renew
  <2> QED
    BY <1>2, <2>1, <2>2 DEF StaleRegisterArrives
<1>3. CASE UnregisterArrives
  <2>1. \/ unregister' = "accepted" /\ ~record' /\ buried' /\ renewed' = 0
        \/ unregister' = "refused" /\ UNCHANGED <<record, renewed, buried>>
    BY <1>3 DEF UnregisterArrives
  <2> QED
    BY <1>3, <2>1 DEF UnregisterArrives
<1>4. CASE RequestLost
  BY <1>4 DEF RequestLost
<1>5. CASE LeaseExpires
  BY <1>5 DEF LeaseExpires
<1>6. CASE MonitorEnds
  BY <1>6 DEF MonitorEnds
<1>7. CASE MonitorStarts
  BY <1>7 DEF MonitorStarts
<1>8. CASE ClientTick
  <2>1. timer' \in Nat /\ overdue' \in Nat /\ renewed' \in Nat
    BY <1>8 DEF ClientTick
  <2> QED
    BY <1>8, <2>1 DEF ClientTick
<1> QED
  BY <1>1, <1>2, <1>3, <1>4, <1>5, <1>6, <1>7, <1>8 DEF MonitorStep

\* The client's inductive invariant: the two stores of Close() precede what the
\* worker does about them, and what each request under way can still change is
\* known.
THEOREM ClientInvariance == ClientSpec => []ClientInv
<1>1. ClientInv /\ [ClientNext]_clientVars => ClientInv'
  <2> SUFFICES ASSUME ClientInv, [ClientNext]_clientVars PROVE ClientInv'
    OBVIOUS
  <2>1. CASE UNCHANGED clientVars
    BY <2>1 DEF clientVars, workerVars, closeVars, wire, monitor,
                ClientInv, ClientTyped, StoresInOrder, LeavesWhenStopped, OneRequest, UnregisteredForGood
  <2> QED
    BY <2>1, WorkerKeepsClient, CloseKeepsClient, MonitorKeepsClient DEF ClientNext
<1> QED
  BY <1>1, ClientStarts, PTL DEF ClientSpec

\* A closed registration ends for good, for all periods and bounds: the
\* unregister request is never skipped, and once it is confirmed the node is
\* not in the table again (Close(), Run(), UnregisterOnce()).
THEOREM ClosedStaysGone == ClientSpec => []EndsForGood
<1>1. ClientInv => EndsForGood
  BY DEF EndsForGood, ClientInv, UnregisteredForGood
<1> QED
  BY <1>1, ClientInvariance, PTL

-------------------------------------------------------------------------------
(* The lease of a running client.                                          *)

\* The longest round of the worker: it sleeps, waits for the service, then for
\* a response, and every wait is late.
Round == (RenewalInterval + Late) + Late + (ResponseTimeout + Late)

\* The oldest a record is when a renewal of it is answered.
AnswerAge == ResponseTimeout + Late

\* What may have passed of the present round, which begins with the sleep.
Spent ==
  IF worker = "sleep" THEN timer
  ELSE IF worker = "run" THEN RenewalInterval + Late
  ELSE IF worker = "wait_service" THEN RenewalInterval + Late + timer
  ELSE IF worker = "send" THEN RenewalInterval + Late + Late
  ELSE IF worker = "await" THEN RenewalInterval + Late + Late + timer
  ELSE 0

\* The waits end in time, and what the monitor holds was put there: a record
\* needs a running monitor, a tombstone an unregister request, and a renewal
\* that was handled was handled during the present wait for its response.
WaitsEnd ==
  /\ worker = "sleep" => timer <= RenewalInterval + Late
  /\ worker = "wait_service" => timer <= Late
  /\ worker = "await" => timer <= ResponseTimeout + Late
  /\ lost <= MaxLost
  /\ record => running
  /\ buried => unregister # "none"
  /\ current = "handled" /\ record => stopping \/ renewed <= timer

\* Every unanswered renewal adds a round at most to the age of the record.
AgeBounded == record /\ ~stopping => renewed <= lost * Round + AnswerAge + Spent

LeaseInv == ClientInv /\ WaitsEnd /\ AgeBounded

\* Rounds add up.
LEMMA RoundsAdd ==
  ASSUME NEW n \in Nat, NEW r \in Nat
  PROVE  n * r \in Nat /\ (n + 1) * r = n * r + r
OBVIOUS

\* More losses, more time.
LEMMA RoundsOrdered ==
  ASSUME NEW n \in Nat, NEW m \in Nat, NEW r \in Nat, n <= m
  PROVE  n * r <= m * r
OBVIOUS

\* No wait is longer than its period.
LEMMA WaitsEndAlways ==
  ASSUME ClientInv, WaitsEnd, ClientNext
  PROVE  WaitsEnd'
<1> USE TimingAssumption DEF Goto, workerVars, closeVars, wire, monitor,
            ClientInv, ClientTyped, StoresInOrder, LeavesWhenStopped, OneRequest, WaitsEnd
<1>1. CASE WorkerStep
  <2>1. CASE RegisterTimesOut
    BY <2>1 DEF RegisterTimesOut, Lose
  <2>2. CASE SendRegister
    BY <2>2 DEF SendRegister
  <2>3. CASE RegisterAnswered
    BY <2>3 DEF RegisterAnswered
  <2>4. CASE RunLoop \/ WaitForRegisterService \/ TestPredicate
    BY <2>4 DEF RunLoop, WaitForRegisterService, TestPredicate
  <2>5. CASE Block \/ WakeUp \/ ReadDeadline
    BY <2>5 DEF Block, WakeUp, ReadDeadline
  <2>6. CASE \/ SendUnregister \/ ServiceUnreachable
             \/ UnregisterAnswered \/ UnregisterTimesOut
    BY <2>6 DEF SendUnregister, ServiceUnreachable, UnregisterAnswered,
                UnregisterTimesOut
  <2> QED
    BY <1>1, <2>1, <2>2, <2>3, <2>4, <2>5, <2>6 DEF WorkerStep
<1>2. CASE CloseBegins \/ CloserStep \/ ExecutorStarts
  <2>1. CASE Notify
    BY <2>1 DEF Notify
  <2>2. CASE StoreStopping
    BY <2>2 DEF StoreStopping
  <2> QED
    BY <1>2, <2>1, <2>2 DEF CloserStep, CloseBegins, StoreDeadline,
       JoinWorker, JoinExecutor, ExecutorStarts
<1>3. CASE MonitorStep
  <2>1. CASE RegisterArrives
    BY <2>1 DEF RegisterArrives, Renew, Accepts, MayRefuse
  <2>2. CASE StaleRegisterArrives
    BY <2>2 DEF StaleRegisterArrives, Renew, Accepts, MayRefuse
  <2>3. CASE UnregisterArrives
    BY <2>3 DEF UnregisterArrives
  <2>4. CASE RequestLost
    BY <2>4 DEF RequestLost
  <2>5. CASE LeaseExpires
    BY <2>5 DEF LeaseExpires
  <2>6. CASE MonitorEnds
    BY <2>6 DEF MonitorEnds
  <2>7. CASE MonitorStarts
    BY <2>7 DEF MonitorStarts
  <2> QED
    BY <1>3, <2>1, <2>2, <2>3, <2>4, <2>5, <2>6, <2>7 DEF MonitorStep
<1>4. CASE ClientTick
  <2>1. renewed' = renewed \/ renewed' = renewed + 1
    BY <1>4 DEF ClientTick
  <2>2. worker \in {"await", "sleep"} \/ (worker = "wait_service" /\ running) => timer' = timer + 1
    BY <1>4 DEF ClientTick
  <2>3. worker = "wait_service" /\ ~running => timer' = 0
    BY <1>4 DEF ClientTick
  <2>4. /\ worker = "sleep" => timer < RenewalInterval + Late
        /\ worker = "wait_service" => timer < Late \/ ~running
        /\ worker = "await" => timer < ResponseTimeout + Late
    BY <1>4 DEF ClientTick, WorkerWaits
  <2>5. UNCHANGED <<worker, lost, record, running, buried, unregister, current, stopping>>
    BY <1>4 DEF ClientTick, wire
  <2> QED
    BY <2>1, <2>2, <2>3, <2>4, <2>5
<1> QED
  BY <1>1, <1>2, <1>3, <1>4 DEF ClientNext

\* The worker's own steps start a new round only with an answer, or with one
\* more loss.
LEMMA WorkerKeepsAge ==
  ASSUME LeaseInv, WorkerStep
  PROVE  AgeBounded'
<1> USE TimingAssumption DEF LeaseInv, ClientInv, ClientTyped
<1>1. lost * Round \in Nat /\ (lost + 1) * Round = lost * Round + Round
  BY RoundsAdd DEF Round
<1>2. CASE RegisterAnswered
  <2>1. record' /\ ~stopping' => renewed' <= AnswerAge
    BY <1>2 DEF RegisterAnswered, closeVars, WaitsEnd, AnswerAge
  <2>2. lost' * Round = 0 /\ Spent' = 0 /\ AnswerAge \in Nat
    BY <1>2, RoundsAdd DEF RegisterAnswered, Goto, Round, Spent, AnswerAge
  <2> QED
    BY <2>1, <2>2 DEF AgeBounded, RegisterAnswered
<1>3. CASE RegisterTimesOut
  <2> SUFFICES ASSUME record', ~stopping' PROVE renewed' <= lost' * Round + AnswerAge + Spent'
    BY DEF AgeBounded
  <2>1. record /\ ~stopping /\ worker = "await" /\ renewed' = renewed /\ Spent' = 0
    BY <1>3 DEF RegisterTimesOut, Goto, closeVars, Spent
  <2>2. lost' = lost + 1 /\ timer <= ResponseTimeout + Late
    BY <1>3, <2>1 DEF RegisterTimesOut, MayLose, Lose, WaitsEnd
  <2>3. Spent \in Nat /\ Spent <= Round /\ AnswerAge \in Nat
    BY <2>1, <2>2 DEF Spent, Round, AnswerAge
  <2>4. renewed <= lost * Round + AnswerAge + Spent
    BY <2>1 DEF AgeBounded
  <2>5. Round \in Nat
    BY DEF Round
  <2> HIDE DEF Round, AnswerAge, Spent
  <2> QED
    BY <1>1, <2>1, <2>2, <2>3, <2>4, <2>5
<1>4. CASE ~(RegisterAnswered \/ RegisterTimesOut)
  <2>1. UNCHANGED <<lost, record, renewed, stopping>>
    BY <1>4 DEF WorkerStep, RunLoop, WaitForRegisterService, SendRegister,
       TestPredicate, Block, WakeUp, ReadDeadline, SendUnregister,
       ServiceUnreachable, UnregisterAnswered, UnregisterTimesOut,
       monitor, closeVars
  <2>2. ~stopping => Spent \in Nat /\ Spent' \in Nat /\ Spent <= Spent'
    BY <1>4 DEF WorkerStep, RunLoop, WaitForRegisterService, SendRegister,
       TestPredicate, Block, WakeUp, ReadDeadline, SendUnregister,
       ServiceUnreachable, UnregisterAnswered, UnregisterTimesOut, Goto,
       LeavesWhenStopped, WaitsEnd, Spent
  <2>3. AnswerAge \in Nat
    BY DEF AnswerAge
  <2> QED
    BY <1>1, <2>1, <2>2, <2>3 DEF AgeBounded
<1> QED
  BY <1>2, <1>3, <1>4

\* Nobody else makes a record older, except the clock.
LEMMA OthersKeepAge ==
  ASSUME LeaseInv, ClientInv',
         CloseBegins \/ CloserStep \/ ExecutorStarts \/ MonitorStep
  PROVE  AgeBounded'
<1> USE TimingAssumption DEF LeaseInv, ClientInv, ClientTyped
<1>1. lost * Round \in Nat /\ lost' * Round \in Nat /\ Spent \in Nat /\ AnswerAge \in Nat
  <2>1. lost' \in Nat
    BY DEF ClientInv, ClientTyped
  <2>2. Round \in Nat /\ Spent \in Nat /\ AnswerAge \in Nat
    BY DEF Round, Spent, AnswerAge
  <2>3. lost * Round \in Nat
    BY <2>2, RoundsAdd
  <2>4. lost' * Round \in Nat
    BY <2>1, <2>2, RoundsAdd
  <2> QED
    BY <2>2, <2>3, <2>4
<1>2. CASE CloseBegins \/ CloserStep \/ ExecutorStarts
  BY <1>2 DEF CloseBegins, CloserStep, ExecutorStarts, StoreDeadline,
     StoreStopping, Notify, JoinWorker, JoinExecutor, workerVars,
     monitor, StoresInOrder, AgeBounded, Spent
<1>3. CASE MonitorEnds
  BY <1>3 DEF MonitorEnds, AgeBounded
<1>4. CASE MonitorStep /\ ~MonitorEnds
  <2>1. stopping' = stopping /\ Spent' = Spent
    BY <1>4 DEF MonitorStep, RegisterArrives, StaleRegisterArrives,
       UnregisterArrives, RequestLost, LeaseExpires, MonitorStarts,
       workerVars, closeVars, monitor, Spent
  <2>2. ~record' \/ renewed' = 0 \/ (record /\ renewed' = renewed /\ lost' = lost)
    BY <1>4 DEF MonitorStep, RegisterArrives, StaleRegisterArrives,
       UnregisterArrives, RequestLost, LeaseExpires, MonitorStarts,
       Renew, Accepts, MayRefuse, monitor
  <2> QED
    BY <1>1, <2>1, <2>2 DEF AgeBounded
<1> QED
  BY <1>2, <1>3, <1>4

\* While the clock ticks the worker is in one of its waits.
LEMMA TimeKeepsAge ==
  ASSUME LeaseInv, ClientTick
  PROVE  AgeBounded'
<1> USE TimingAssumption DEF LeaseInv, ClientInv, ClientTyped
<1> SUFFICES ASSUME record', ~stopping' PROVE renewed' <= lost' * Round + AnswerAge + Spent'
  BY DEF AgeBounded
<1>1. lost * Round \in Nat /\ AnswerAge \in Nat
  BY RoundsAdd DEF Round, AnswerAge
<1>2. record /\ ~stopping /\ lost' = lost /\ renewed' \in Nat /\ renewed' <= renewed + 1
  BY DEF ClientTick
<1>3. worker \in {"sleep", "wait_service", "await"} /\ timer' = timer + 1 /\ worker' = worker
  BY <1>2 DEF ClientTick, WorkerWaits, WaitsEnd, LeavesWhenStopped
<1>4. Spent \in Nat /\ Spent' = Spent + 1
  BY <1>3 DEF Spent
<1> QED
  BY <1>1, <1>2, <1>4 DEF AgeBounded

\* The bound on the age of a running client's record holds in every state.
LEMMA LeaseInvariance == ClientSpec => []LeaseInv
<1>1. ClientInit => LeaseInv
  BY ClientStarts, TimingAssumption DEF ClientInit, LeaseInv, WaitsEnd, AgeBounded
<1>2. ClientInv' /\ LeaseInv /\ [ClientNext]_clientVars => LeaseInv'
  <2> SUFFICES ASSUME ClientInv', LeaseInv, [ClientNext]_clientVars PROVE WaitsEnd' /\ AgeBounded'
    BY DEF LeaseInv
  <2>1. CASE UNCHANGED clientVars
    BY <2>1 DEF clientVars, workerVars, closeVars, wire, monitor,
                LeaseInv, WaitsEnd, AgeBounded, Spent
  <2> QED
    BY <2>1, WaitsEndAlways, WorkerKeepsAge, OthersKeepAge, TimeKeepsAge DEF ClientNext, LeaseInv
<1> QED
  BY <1>1, <1>2, ClientInvariance, PTL DEF ClientSpec

\* A record never grows older than the rounds that went wrong and the present one.
LEMMA RecordIsYoung ==
  ASSUME LeaseInv, record, ~stopping
  PROVE  renewed <= (MaxLost + 1) * Round + AnswerAge
<1> USE TimingAssumption DEF LeaseInv, ClientInv, ClientTyped
<1>1. Spent \in Nat /\ Spent <= Round
  BY DEF Spent, Round, WaitsEnd
<1>2. Round \in Nat /\ AnswerAge \in Nat /\ lost <= MaxLost
  BY DEF Round, WaitsEnd, AnswerAge
<1>3. lost * Round \in Nat /\ MaxLost * Round \in Nat /\ (MaxLost + 1) * Round = MaxLost * Round + Round
  BY <1>2, RoundsAdd
<1>4. lost * Round <= MaxLost * Round
  BY <1>2, RoundsOrdered
<1> QED
  BY <1>1, <1>2, <1>3, <1>4 DEF AgeBounded

\* The lease of a running node does not lapse if it lasts for as many rounds as
\* renewals may go unanswered in a row, one more, and the wait in which the last
\* answer came.  With the code's periods (kRegistrationResponseTimeout,
\* kRenewalInterval, the monitor's ten seconds) that allows two unanswered
\* renewals and 200 ms of lateness in every wait: 3 * 3.1 s + 0.7 s.  A third
\* does not fit even if nothing is late: 4 * 2.5 s + 0.5 s.
THEOREM LeaseOutlastsLosses ==
  (MaxLost + 1) * Round + AnswerAge <= LeaseTime => (ClientSpec => LeaseIsKept)
<1> SUFFICES ASSUME (MaxLost + 1) * Round + AnswerAge <= LeaseTime
             PROVE  ClientSpec => LeaseIsKept
  OBVIOUS
<1>1. LeaseInv => (LeaseExpires => stopping)
  <2> SUFFICES ASSUME LeaseInv, LeaseExpires, ~stopping PROVE FALSE
    OBVIOUS
  <2>1. record /\ renewed > LeaseTime
    BY DEF LeaseExpires
  <2>2. renewed <= (MaxLost + 1) * Round + AnswerAge
    BY <2>1, RecordIsYoung
  <2>3. (MaxLost + 1) * Round + AnswerAge \in Nat
    BY TimingAssumption, RoundsAdd DEF Round, AnswerAge
  <2> QED
    BY <2>1, <2>2, <2>3, TimingAssumption DEF LeaseInv, ClientInv, ClientTyped
<1>2. LeaseInv /\ [ClientNext]_clientVars => [LeaseExpires => stopping]_clientVars
  BY <1>1
<1> QED
  BY <1>2, LeaseInvariance, PTL DEF ClientSpec, LeaseIsKept

-------------------------------------------------------------------------------
(* How late Close() may be.                                                *)

\* The limit on the wait for the worker: the deadline, or a whole sleep, and the
\* lateness of either.
JoinLimit == Late + (IF CloseTimeout > RenewalInterval THEN CloseTimeout ELSE RenewalInterval)

\* After the flag is set only a worker that had tested it before still sleeps,
\* and it sleeps at most once.
OneSleepLeft ==
  /\ closer \in {"open", "store_deadline", "store_stopping", "notify"} => overdue = 0
  /\ closer = "join" =>
       /\ overdue <= JoinLimit
       /\ worker = "block" => overdue = 0
       /\ worker = "sleep" => overdue <= timer
       /\ worker \notin {"unregister", "await_unregister", "done"} => overdue <= RenewalInterval + Late

\* No step of the worker, of Close() or of the world lets it sleep twice.
LEMMA OneSleepLeftKept ==
  ASSUME ClientInv, WaitsEnd, OneSleepLeft, ClientNext
  PROVE  OneSleepLeft'
<1> USE TimingAssumption DEF Goto, workerVars, closeVars, wire, monitor, JoinLimit,
            ClientInv, ClientTyped, StoresInOrder, LeavesWhenStopped, WaitsEnd, OneSleepLeft
<1>1. CASE WorkerStep
  <2>1. CASE RunLoop \/ WaitForRegisterService \/ SendRegister
    BY <2>1 DEF RunLoop, WaitForRegisterService, SendRegister
  <2>2. CASE RegisterAnswered \/ RegisterTimesOut
    BY <2>2 DEF RegisterAnswered, RegisterTimesOut
  <2>3. CASE TestPredicate \/ Block \/ WakeUp
    BY <2>3 DEF TestPredicate, Block, WakeUp
  <2>4. CASE ReadDeadline \/ SendUnregister \/ ServiceUnreachable
    BY <2>4 DEF ReadDeadline, SendUnregister, ServiceUnreachable
  <2>5. CASE UnregisterAnswered \/ UnregisterTimesOut
    BY <2>5 DEF UnregisterAnswered, UnregisterTimesOut
  <2> QED
    BY <1>1, <2>1, <2>2, <2>3, <2>4, <2>5 DEF WorkerStep
<1>2. CASE CloseBegins \/ CloserStep \/ ExecutorStarts
  BY <1>2 DEF CloserStep, CloseBegins, StoreDeadline, StoreStopping, Notify, JoinWorker, JoinExecutor,
     ExecutorStarts
<1>3. CASE MonitorStep
  BY <1>3 DEF MonitorStep, RegisterArrives, StaleRegisterArrives, UnregisterArrives, RequestLost,
     LeaseExpires, MonitorEnds, MonitorStarts
<1>4. CASE ClientTick
  <2>1. overdue' = IF closer = "join" THEN overdue + 1 ELSE overdue
    BY <1>4 DEF ClientTick
  <2>2. closer = "join" =>
          \/ worker = "sleep" /\ timer' = timer + 1 /\ timer < RenewalInterval + Late
          \/ worker \in {"unregister", "await_unregister"} /\ overdue < CloseTimeout + Late
    BY <1>4 DEF ClientTick, WorkerWaits, CloserWaits
  <2>3. UNCHANGED <<closer, worker>>
    BY <1>4 DEF ClientTick
  <2> QED
    BY <2>1, <2>2, <2>3
<1> QED
  BY <1>1, <1>2, <1>3, <1>4 DEF ClientNext

\* The deadline of Close() that ClosesByDeadline refutes is missed by the rest
\* of one sleep at most: with the code's periods Close() waits two seconds for
\* the worker, and no longer but for the lateness of that sleep (Close(), the
\* wait_for of Run()).
THEOREM CloseLateByASleep == ClientSpec => [](closer = "join" => overdue <= JoinLimit)
<1>1. ClientInit => OneSleepLeft
  BY DEF ClientInit, OneSleepLeft
<1>2. LeaseInv /\ OneSleepLeft /\ [ClientNext]_clientVars => OneSleepLeft'
  <2> SUFFICES ASSUME LeaseInv, OneSleepLeft, [ClientNext]_clientVars PROVE OneSleepLeft'
    OBVIOUS
  <2>1. CASE UNCHANGED clientVars
    BY <2>1 DEF clientVars, workerVars, closeVars, OneSleepLeft
  <2> QED
    BY <2>1, OneSleepLeftKept DEF LeaseInv
<1>3. OneSleepLeft => (closer = "join" => overdue <= JoinLimit)
  BY DEF OneSleepLeft
<1> QED
  BY <1>1, <1>2, <1>3, LeaseInvariance, PTL DEF ClientSpec
===============================================================================
