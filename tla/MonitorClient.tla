----------------------------- MODULE MonitorClient -----------------------------
(***************************************************************************)
(* The monitor client of one ROS node                                      *)
(* (monitor_client/src/monitor_registration.cpp): a worker thread that     *)
(* registers the node, renews its lease and finally unregisters it, an     *)
(* executor thread that receives the responses, and the thread that calls  *)
(* Close().  The monitor's side is the table of MonitorRegistry seen by    *)
(* this one identity, with its calls taken as single steps.                *)
(*                                                                         *)
(* Time passes in ticks.  Each of the worker's waits ends up to Late ticks *)
(* after its period: the 25 and 50 ms polls, the discovery of a service by *)
(* a new client, the scheduling of a thread that is due and the time its   *)
(* next statements take are all counted with the wait before them.         *)
(***************************************************************************)
EXTENDS Naturals

CONSTANTS
  ResponseTimeout,  (* kRegistrationResponseTimeout                         *)
  RenewalInterval,  (* kRenewalInterval                                     *)
  CloseTimeout,     (* kCloseTimeout                                        *)
  LeaseTime,        (* the monitor's lease                                  *)
  Late,             (* bound: how long after its period a wait may end      *)
  MaxLost,          (* bound: renewals in a row that get no answer          *)
  MaxStale          (* bound: abandoned requests still on their way         *)

ASSUME TimingAssumption ==
  /\ ResponseTimeout \in Nat \ {0} /\ RenewalInterval \in Nat \ {0}
  /\ CloseTimeout \in Nat \ {0} /\ LeaseTime \in Nat \ {0}
  /\ Late \in Nat /\ MaxLost \in Nat /\ MaxStale \in Nat

VARIABLES
  worker,      \* the point Run() has reached
  timer,       \* ticks since the worker's current wait began
  pending,     \* register futures held by the client
  result,      \* how the unregister request ended
  executor,    \* helper_executor_: "starting", "spinning" or "cancelled"
  closer,      \* the point Close() has reached
  overdue,     \* ticks since Close() took its deadline
  deadlineSet, \* close_deadline_ns_ # 0
  stopping,    \* stopping_
  current,     \* the current register request: "none", "sent", or "handled", its
               \* response on the way to the worker
  stale,       \* earlier, abandoned register requests still on their way
  unregister,  \* the unregister request: "none", "sent", "lost", or how the monitor
               \* handled it: "accepted", "refused"
  running,     \* the monitor runs
  record,      \* the monitor holds a record of this registration
  renewed,     \* ticks since its last renewal
  buried,      \* the monitor holds its tombstone
  lost         \* renewals of the record in a row that got no answer

workerVars == <<worker, timer, pending, result>>
closeVars == <<executor, closer, overdue, deadlineSet, stopping>>
wire == <<current, stale, unregister>>
monitor == <<running, record, renewed, buried, lost>>
clientVars == <<workerVars, closeVars, wire, monitor>>

ClientInit ==
  /\ worker = "run" /\ timer = 0 /\ pending = 0 /\ result = "none"
  /\ executor = "starting" /\ closer = "open" /\ overdue = 0
  /\ deadlineSet = FALSE /\ stopping = FALSE
  /\ current = "none" /\ stale = 0 /\ unregister = "none"
  /\ running \in BOOLEAN /\ record = FALSE /\ renewed = 0 /\ buried = FALSE /\ lost = 0

-------------------------------------------------------------------------------
(* The worker thread: Run().                                               *)

Goto(p) == worker' = p /\ timer' = 0

\* while (!stopping_.load())
RunLoop ==
  /\ worker = "run"
  /\ IF stopping THEN Goto("read_deadline") ELSE Goto("wait_service")
  /\ UNCHANGED <<pending, result, closeVars, wire, monitor>>

\* Faulty variant (mutation only): only the service ends the wait.
WaitForServiceOnly ==
  /\ worker = "wait_service"
  /\ running /\ Goto("send")
  /\ UNCHANGED <<pending, result, closeVars, wire, monitor>>

\* The service is there, or Close() interrupts the wait for it.
WaitForRegisterService ==
  /\ worker = "wait_service"
  /\ \/ running /\ Goto("send")
     \/ stopping /\ Goto("lock")
  /\ UNCHANGED <<pending, result, closeVars, wire, monitor>>

\* async_send_request, unless Close() came between.
SendRegister ==
  /\ worker = "send"
  /\ IF stopping
     THEN Goto("lock") /\ UNCHANGED <<pending, current>>
     ELSE Goto("await") /\ pending' = pending + 1 /\ current' = "sent"
  /\ UNCHANGED <<result, closeVars, stale, unregister, monitor>>

\* The response, some time on its way through the executor to the next poll,
\* is there in time; whether it says success is only logged.
RegisterAnswered ==
  /\ worker = "await" /\ current = "handled" /\ executor = "spinning"
  /\ Goto("lock")
  /\ pending' = pending - 1
  /\ current' = "none"
  /\ lost' = 0
  /\ UNCHANGED <<result, closeVars, stale, unregister, running, record, renewed, buried>>

\* A request may go unanswered only so often while the record is there.
MayLose == ~record \/ stopping \/ lost < MaxLost

Lose == lost' = IF record /\ lost < MaxLost THEN lost + 1 ELSE lost

\* RecreateRegisterClient(): the abandoned future goes with the old client.
FuturesAfterRecreate == 0

\* The wait for the response is over: too late, or interrupted by Close().
\* The request may still be on its way, and arrive; a response that is lost, or
\* comes after the last poll, is not looked at.
RegisterTimesOut ==
  /\ worker = "await"
  /\ timer >= ResponseTimeout \/ stopping
  /\ MayLose /\ Lose
  /\ Goto("lock")
  /\ pending' = FuturesAfterRecreate
  /\ current' = "none"
  /\ stale' \in {stale} \cup (IF current = "sent" /\ stale < MaxStale THEN {stale + 1} ELSE {})
  /\ UNCHANGED <<result, closeVars, unregister, running, record, renewed, buried>>

\* wait_for evaluates its predicate once the mutex is held ...
TestPredicate ==
  /\ worker = "lock"
  /\ IF stopping THEN Goto("run") ELSE Goto("block")
  /\ UNCHANGED <<pending, result, closeVars, wire, monitor>>

\* ... and only then blocks, releasing the mutex.
Block ==
  /\ worker = "block"
  /\ Goto("sleep")
  /\ UNCHANGED <<pending, result, closeVars, wire, monitor>>

RenewalIsDue == timer >= RenewalInterval

WakeUp ==
  /\ worker = "sleep" /\ RenewalIsDue
  /\ Goto("run")
  /\ UNCHANGED <<pending, result, closeVars, wire, monitor>>

\* Only a deadline that Close() has stored leads to an unregister request.
ReadDeadline ==
  /\ worker = "read_deadline"
  /\ IF deadlineSet
     THEN Goto("unregister") /\ UNCHANGED result
     ELSE Goto("done") /\ result' = "skipped"
  /\ UNCHANGED <<pending, closeVars, wire, monitor>>

\* UnregisterOnce(deadline): the service is ready, the request is sent ...
SendUnregister ==
  /\ worker = "unregister" /\ running
  /\ Goto("await_unregister")
  /\ unregister' = "sent"
  /\ UNCHANGED <<pending, result, closeVars, current, stale, monitor>>

\* ... or the deadline passes before the service is ready.
ServiceUnreachable ==
  /\ worker = "unregister" /\ ~running /\ overdue >= CloseTimeout
  /\ Goto("done") /\ result' = "unreachable"
  /\ UNCHANGED <<pending, closeVars, wire, monitor>>

UnregisterAnswered ==
  /\ worker = "await_unregister" /\ overdue <= CloseTimeout + Late
  /\ unregister \in {"accepted", "refused"} /\ executor = "spinning"
  /\ Goto("done") /\ result' = unregister
  /\ UNCHANGED <<pending, closeVars, wire, monitor>>

UnregisterTimesOut ==
  /\ worker = "await_unregister" /\ overdue >= CloseTimeout
  /\ Goto("done") /\ result' = "timeout"
  /\ UNCHANGED <<pending, closeVars, wire, monitor>>

WorkerStep ==
  \/ RunLoop \/ WaitForRegisterService \/ SendRegister \/ RegisterAnswered \/ RegisterTimesOut
  \/ TestPredicate \/ Block \/ WakeUp
  \/ ReadDeadline \/ SendUnregister \/ ServiceUnreachable \/ UnregisterAnswered \/ UnregisterTimesOut

-------------------------------------------------------------------------------
(* Close() and the executor thread.                                        *)

CloseBegins ==
  /\ closer = "open"
  /\ closer' = "store_deadline" /\ overdue' = 0
  /\ UNCHANGED <<workerVars, executor, deadlineSet, stopping, wire, monitor>>

\* Faulty variant (mutation only): the worker is stopped before it has a deadline.
StopBeforeDeadline ==
  /\ closer = "store_deadline" /\ closer' = "store_stopping"
  /\ stopping' = TRUE
  /\ UNCHANGED <<workerVars, executor, overdue, deadlineSet, wire, monitor>>

StoreDeadline ==
  /\ closer = "store_deadline" /\ closer' = "store_stopping"
  /\ deadlineSet' = TRUE
  /\ UNCHANGED <<workerVars, executor, overdue, stopping, wire, monitor>>

StoreStopping ==
  /\ closer = "store_stopping" /\ closer' = "notify"
  /\ stopping' = TRUE
  /\ UNCHANGED <<workerVars, executor, overdue, deadlineSet, wire, monitor>>

\* notify_all() reaches a worker that is blocked, and no other.
Notify ==
  /\ closer = "notify" /\ closer' = "join"
  /\ IF worker = "sleep" THEN Goto("run") ELSE UNCHANGED <<worker, timer>>
  /\ UNCHANGED <<pending, result, executor, overdue, deadlineSet, stopping, wire, monitor>>

\* worker_thread_.join(), then helper_executor_.cancel(), which stops an
\* executor only if it spins already.
JoinWorker ==
  /\ closer = "join" /\ worker = "done"
  /\ closer' = "join_executor"
  /\ executor' = IF executor = "spinning" THEN "cancelled" ELSE executor
  /\ UNCHANGED <<workerVars, overdue, deadlineSet, stopping, wire, monitor>>

JoinExecutor ==
  /\ closer = "join_executor" /\ executor = "cancelled"
  /\ closer' = "closed"
  /\ UNCHANGED <<workerVars, executor, overdue, deadlineSet, stopping, wire, monitor>>

ExecutorStarts ==
  /\ executor = "starting" /\ executor' = "spinning"
  /\ UNCHANGED <<workerVars, closer, overdue, deadlineSet, stopping, wire, monitor>>

CloserStep == StoreDeadline \/ StoreStopping \/ Notify \/ JoinWorker \/ JoinExecutor

-------------------------------------------------------------------------------
(* The monitor and the network.                                            *)

\* RegisterNode refuses an identity with a tombstone ...
Accepts == ~buried

\* ... and a new record also while another identity owns the name or the
\* table of tombstones is full.  It does not refuse to renew what it holds.
MayRefuse == buried \/ ~record

\* Faulty variant (mutation only): a renewal does not reach last_registration.
CreateOnly ==
  \/ /\ Accepts
     /\ record' = TRUE /\ renewed' = (IF record THEN renewed ELSE 0)
     /\ lost' = IF record THEN lost ELSE 0
  \/ MayRefuse /\ UNCHANGED <<record, renewed, lost>>

\* A record is made, or its lease is renewed, or the request is refused.
Renew ==
  \/ /\ Accepts
     /\ record' = TRUE /\ renewed' = 0
     /\ lost' = IF record THEN lost ELSE 0
  \/ MayRefuse /\ UNCHANGED <<record, renewed, lost>>

\* The current request is handled, and a response sent.
RegisterArrives ==
  /\ running /\ current = "sent"
  /\ current' = "handled"
  /\ Renew
  /\ UNCHANGED <<workerVars, closeVars, stale, unregister, running, buried>>

StaleRegisterArrives ==
  /\ running /\ stale > 0
  /\ stale' = stale - 1
  /\ Renew
  /\ UNCHANGED <<workerVars, closeVars, current, unregister, running, buried>>

\* The unregister request is handled, at once or much later, and refused only
\* for want of room for its tombstone.
UnregisterArrives ==
  /\ running /\ unregister = "sent"
  /\ \/ /\ unregister' = "accepted"
        /\ record' = FALSE /\ renewed' = 0 /\ buried' = TRUE
     \/ /\ unregister' = "refused"
        /\ UNCHANGED <<record, renewed, buried>>
  /\ UNCHANGED <<workerVars, closeVars, current, stale, running, lost>>

RequestLost ==
  \/ /\ current = "sent" /\ MayLose /\ current' = "none"
     /\ UNCHANGED <<workerVars, closeVars, stale, unregister, monitor>>
  \/ /\ unregister = "sent" /\ unregister' = "lost"
     /\ UNCHANGED <<workerVars, closeVars, current, stale, monitor>>

LeaseExpires ==
  /\ record /\ renewed > LeaseTime
  /\ record' = FALSE /\ renewed' = 0
  /\ UNCHANGED <<workerVars, closeVars, wire, running, buried, lost>>

\* The monitor ends with its table and with what was on the way to it.
MonitorEnds ==
  /\ running /\ running' = FALSE
  /\ record' = FALSE /\ renewed' = 0 /\ buried' = FALSE /\ lost' = 0
  /\ current' = (IF current = "sent" THEN "none" ELSE current) /\ stale' = 0
  /\ unregister' = IF unregister = "sent" THEN "lost" ELSE unregister
  /\ UNCHANGED <<workerVars, closeVars>>

MonitorStarts ==
  /\ ~running /\ running' = TRUE
  /\ UNCHANGED <<workerVars, closeVars, wire, record, renewed, buried, lost>>

-------------------------------------------------------------------------------

\* The worker is in a wait that need not be over yet.  While no monitor runs it
\* polls for the service without end.
WorkerWaits ==
  \/ worker = "wait_service" /\ ~stopping /\ (~running \/ timer < Late)
  \/ worker = "await" /\ ~stopping /\ timer < ResponseTimeout + Late
  \/ worker = "sleep" /\ timer < RenewalInterval + Late
  \/ worker \in {"unregister", "await_unregister"} /\ overdue < CloseTimeout + Late
  \/ worker = "done"

CloserWaits == closer \in {"open", "closed"} \/ (closer = "join" /\ worker # "done")

ClientTick ==
  /\ WorkerWaits /\ CloserWaits /\ executor # "starting"
  /\ worker = "done" => record
  /\ timer' = IF worker \in {"await", "sleep"} \/ (worker = "wait_service" /\ running)
              THEN timer + 1 ELSE 0
  /\ overdue' = IF closer = "join" THEN overdue + 1 ELSE overdue
  /\ renewed' = IF record /\ renewed <= LeaseTime THEN renewed + 1 ELSE renewed
  /\ UNCHANGED <<worker, pending, result, executor, closer, deadlineSet, stopping, wire,
                 running, record, buried, lost>>

MonitorStep ==
  \/ RegisterArrives \/ StaleRegisterArrives \/ UnregisterArrives \/ RequestLost
  \/ LeaseExpires \/ MonitorEnds \/ MonitorStarts

ClientNext ==
  \/ WorkerStep
  \/ CloseBegins
  \/ CloserStep
  \/ ExecutorStarts
  \/ MonitorStep
  \/ ClientTick

ClientSpec == ClientInit /\ [][ClientNext]_clientVars

\* The operating system runs every thread, and time passes however often the
\* monitor comes and goes (strong fairness of ClientTick: endlessly many
\* events take endless time); nothing is assumed of the monitor or of the network.
ClientFairSpec ==
  /\ ClientSpec
  /\ WF_clientVars(WorkerStep) /\ WF_clientVars(CloserStep) /\ WF_clientVars(ExecutorStarts)
  /\ SF_clientVars(ClientTick)

-------------------------------------------------------------------------------

\* The lease of a running node does not lapse while at most MaxLost renewals in
\* a row go unanswered, though every wait ends up to Late ticks late and a
\* request and its response take up the whole wait for it between them (Run(),
\* RegisterOnce(), PruneLocked).
LeaseIsKept == [][LeaseExpires => stopping]_clientVars

\* A closed registration ends for good: the worker that sees stopping_ sees the
\* deadline too and never skips its unregister request, and once that request is
\* confirmed no register request, not even one abandoned long before, puts the
\* node back into the monitor's table (Run(), Close(), UnregisterOnce()).
EndsForGood == result # "skipped" /\ (result = "accepted" => ~record)

\* Close() returns, whether the monitor answers, hangs, restarts or never ran,
\* and however early it is called.
CloseReturns == (closer = "store_deadline") ~> (closer = "closed")

\* "the unregister wait and Close() share one cut-off"
\* (monitor_registration.cpp:138): Close() does not wait for the worker past
\* the deadline it has set, by more than a wait may be late.
ClosesByDeadline == closer = "join" => overdue <= CloseTimeout + Late
===============================================================================
