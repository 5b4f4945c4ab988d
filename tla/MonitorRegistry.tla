--------------------------- MODULE MonitorRegistry ---------------------------
(***************************************************************************)
(* The monitor node's table of registered ROS nodes                        *)
(* (monitor/src/monitor/process_monitor.cpp, monitor/src/main.cpp).        *)
(*                                                                         *)
(* A registration is identified by its node name, the process behind it    *)
(* (a PID and a start time, because PIDs are used again) and a             *)
(* registration id.  Register and unregister requests arrive late, twice   *)
(* or out of order; a three-second timer samples the table.  The node is   *)
(* spun by one thread, so one call is in progress at a time, but processes *)
(* exit and start, and time passes, between any two of its steps.          *)
(***************************************************************************)
EXTENDS Naturals, FiniteSets

CONSTANTS
  Name,           (* ROS node names                                         *)
  Pid,            (* process ids                                            *)
  Identity,       (* records [name, pid, start, id] that clients may send   *)
  None,           (* no identity                                            *)
  Lease,          (* lease_, in ticks                                       *)
  MaxTombstones,  (* max_tombstones_                                        *)
  MaxStarts,      (* bound: processes that ever run under one PID           *)
  MaxWait         (* bound: ticks a call may take after reading the clock   *)

ASSUME IdentityAssumption ==
  /\ \A i \in Identity : i.name \in Name /\ i.pid \in Pid /\ i.start \in Nat \ {0}
  /\ None \notin Identity

ASSUME LeaseAssumption ==
  /\ Lease \in Nat \ {0}
  /\ MaxTombstones \in Nat
  /\ MaxStarts \in Nat
  /\ MaxWait \in Nat

VARIABLES
  start,       \* how many processes have run under each PID
  up,          \* whether the last of them is still running
  owner,       \* registered_nodes_: the identity that owns each name
  age,         \* ticks since its last_registration
  tombstones,  \* terminated_identities_
  call,        \* the call in progress
  confirmed    \* identities whose unregister request was answered with success

world == <<start, up>>
table == <<owner, age, tombstones>>
vars == <<start, up, owner, age, tombstones, call, confirmed>>

Idle == [kind |-> "none", id |-> None, pc |-> "idle", stamp |-> 0]

\* Ages saturate at the first value no comparison can tell from a larger one.
MaxAge == Lease + MaxWait + 1

Init ==
  /\ start = [p \in Pid |-> 1]
  /\ up = [p \in Pid |-> TRUE]
  /\ owner = [n \in Name |-> None]
  /\ age = [n \in Name |-> 0]
  /\ tombstones = {}
  /\ call = Idle
  /\ confirmed = {}

-------------------------------------------------------------------------------

Exit(p) ==
  /\ up[p]
  /\ up' = [up EXCEPT ![p] = FALSE]
  /\ UNCHANGED <<start, table, call, confirmed>>

\* Another process gets the same PID.
Spawn(p) ==
  /\ ~up[p]
  /\ start[p] < MaxStarts
  /\ start' = [start EXCEPT ![p] = @ + 1]
  /\ up' = [up EXCEPT ![p] = TRUE]
  /\ UNCHANGED <<table, call, confirmed>>

\* The clock, for the records and for the `now` of the call in progress.
Tick ==
  /\ call.stamp < MaxWait
  /\ age' = [n \in Name |-> IF owner[n] # None /\ age[n] < MaxAge THEN age[n] + 1 ELSE age[n]]
  /\ call' = [call EXCEPT !.stamp = IF call.pc \in {"prune", "commit"} THEN @ + 1 ELSE @]
  /\ UNCHANGED <<world, owner, tombstones, confirmed>>

-------------------------------------------------------------------------------

\* The PID is running and was not given to another process since.
IsLiveIdentity(i) == up[i.pid] /\ start[i.pid] = i.start

\* A request of a process that runs or has run.
KnownIdentity == {i \in Identity : i.start <= start[i.pid]}

Register(i) ==
  /\ call = Idle
  /\ call' = [kind |-> "register", id |-> i, pc |-> "check", stamp |-> 0]
  /\ UNCHANGED <<world, table, confirmed>>

\* Liveness is looked at before the clock is read and the lock is taken.
CheckLive ==
  /\ call.pc = "check"
  /\ call' = IF IsLiveIdentity(call.id) THEN [call EXCEPT !.pc = "prune"] ELSE Idle
  /\ UNCHANGED <<world, table, confirmed>>

Unregister(i) ==
  /\ call = Idle
  /\ call' = [kind |-> "unregister", id |-> i, pc |-> "prune", stamp |-> 0]
  /\ UNCHANGED <<world, table, confirmed>>

UpdateAll ==
  /\ call = Idle
  /\ call' = [kind |-> "sample", id |-> None, pc |-> "prune", stamp |-> 0]
  /\ UNCHANGED <<world, table, confirmed>>

\* Faulty variant (mutation only): the lease is not looked at.
DeadOnly(n) == owner[n] # None /\ ~IsLiveIdentity(owner[n])

\* The record's process is gone, or its lease was over at the call's `now`.
Ended(n) ==
  /\ owner[n] # None
  /\ ~IsLiveIdentity(owner[n]) \/ age[n] > Lease + call.stamp

\* Faulty variant (mutation only): tombstones are dropped with their records.
KeepsNothing(i) == FALSE

\* A tombstone outlives its record but not its process.
KeepsTombstone(i) == IsLiveIdentity(i)

\* PruneLocked(now) with which every locked call begins.
PruneLocked ==
  /\ call.pc = "prune"
  /\ owner' = [n \in Name |-> IF Ended(n) THEN None ELSE owner[n]]
  /\ age' = [n \in Name |-> IF Ended(n) THEN 0 ELSE age[n]]
  /\ tombstones' = {i \in tombstones : KeepsTombstone(i)}
  /\ call' = [call EXCEPT !.pc = "commit"]
  /\ UNCHANGED <<world, confirmed>>

\* The name is free and the table of tombstones has room.
MayCreate(i) ==
  /\ i \notin tombstones
  /\ owner[i.name] = None
  /\ Cardinality(tombstones) < MaxTombstones

\* The identity's own lease is renewed.
Refreshes(i) == i \notin tombstones /\ owner[i.name] = i

\* RegisterNode below the lock: create, renew, or refuse.
CommitRegister ==
  /\ call.kind = "register" /\ call.pc = "commit"
  /\ LET i == call.id IN
     /\ owner' = IF MayCreate(i) THEN [owner EXCEPT ![i.name] = i] ELSE owner
     /\ age' = IF MayCreate(i) \/ Refreshes(i) THEN [age EXCEPT ![i.name] = call.stamp] ELSE age
  /\ call' = Idle
  /\ UNCHANGED <<world, tombstones, confirmed>>

\* Faulty variant (mutation only): only a name and a PID are compared.
SamePid(i) == owner[i.name] # None /\ owner[i.name].pid = i.pid

\* The name's record belongs to exactly this identity.
Owns(i) == owner[i.name] = i

\* An identity is ended once, while its process runs and the table has room.
MayEnd(i) ==
  /\ i \notin tombstones
  /\ IsLiveIdentity(i)
  /\ Cardinality(tombstones) < MaxTombstones

\* UnregisterNode below the lock: the tombstone first, then the record if it
\* is this identity's own.  Success also for an identity ended before.
CommitUnregister ==
  /\ call.kind = "unregister" /\ call.pc = "commit"
  /\ LET i == call.id IN
     /\ tombstones' = IF MayEnd(i) THEN tombstones \cup {i} ELSE tombstones
     /\ IF MayEnd(i) /\ Owns(i)
        THEN /\ owner' = [owner EXCEPT ![i.name] = None]
             /\ age' = [age EXCEPT ![i.name] = 0]
        ELSE UNCHANGED <<owner, age>>
     /\ confirmed' = IF MayEnd(i) \/ i \in tombstones THEN confirmed \cup {i} ELSE confirmed
  /\ call' = Idle
  /\ UNCHANGED world

\* The end of Sample(): every record left in the table goes into the message.
GetsAllNodeInfo == call.kind = "sample" /\ call.pc = "commit"

GetAllNodeInfo ==
  /\ GetsAllNodeInfo
  /\ call' = Idle
  /\ UNCHANGED <<world, table, confirmed>>

CallStep ==
  \/ CheckLive
  \/ PruneLocked
  \/ CommitRegister
  \/ CommitUnregister
  \/ GetAllNodeInfo

Next ==
  \/ \E p \in Pid : Exit(p) \/ Spawn(p)
  \/ Tick
  \/ \E i \in KnownIdentity : Register(i) \/ Unregister(i)
  \/ UpdateAll
  \/ CallStep

Spec == Init /\ [][Next]_vars

\* A callback that has begun runs to its end.  The executor looks at its timers
\* before its services each time it is free, so requests, however many, cannot
\* starve the sampling timer: that is strong fairness of UpdateAll.
FairSpec == Spec /\ WF_vars(CallStep) /\ SF_vars(UpdateAll)

-------------------------------------------------------------------------------

CallType ==
  \/ call = Idle
  \/ /\ call \in [kind : {"register", "unregister"}, id : Identity,
                  pc : {"check", "prune", "commit"}, stamp : 0..MaxWait]
     /\ call.id.start <= start[call.id.pid]
  \/ call \in [kind : {"sample"}, id : {None}, pc : {"prune", "commit"}, stamp : 0..MaxWait]

TypeOK ==
  /\ start \in [Pid -> Nat]
  /\ up \in [Pid -> BOOLEAN]
  /\ owner \in [Name -> Identity \cup {None}]
  /\ age \in [Name -> 0..MaxAge]
  /\ tombstones \subseteq Identity
  /\ Cardinality(tombstones) <= MaxTombstones
  /\ CallType
  /\ confirmed \subseteq Identity

\* Once a node's unregister request was answered with success, its identity is
\* blocked, and owns no name, for as long as its process runs: no renewal that
\* was delayed on the way, and no duplicate of it, brings the record back.
\* (A renewal whose process exits between the liveness check and the lock can
\* still leave a record; that record is of a dead process.)
EndedStaysEnded ==
  \A i \in confirmed : IsLiveIdentity(i) => i \in tombstones /\ owner[i.name] # i

\* A name changes hands only when its owner's process is gone, its lease is
\* over, or its owner asked for it: never for the request of another identity,
\* an older registration of the same process, or a new process under its PID.
OwnersKeepTheirNames ==
  [][\A n \in Name :
       \/ owner[n] = None
       \/ owner'[n] = owner[n]
       \/ ~IsLiveIdentity(owner[n])
       \/ age[n] > Lease
       \/ owner[n] \in confirmed']_vars

\* A sample never shows a node whose unregister request had been confirmed
\* before, not even the record of a dead process that a late renewal left.
SamplesShowNoEnded == GetsAllNodeInfo => \A n \in Name : owner[n] \notin confirmed

\* The record of a process that died, and a lease that ran out unrenewed, do
\* not stay in the table, whatever requests arrive meanwhile.
DeadRecordsVanish ==
  \A n \in Name : \A i \in Identity :
    (owner[n] = i /\ (~IsLiveIdentity(i) \/ age[n] > Lease))
      ~> (owner[n] # i \/ (IsLiveIdentity(i) /\ age[n] <= Lease))
===============================================================================
