---------------------------- MODULE ActionExecution ----------------------------
(***************************************************************************)
(* The ordered execution of one validated action list and the explicit     *)
(* reconciliation of its late receipts (robot_agent/actions/execution.py), *)
(* with the thread that carries each device call (calls.py) and the        *)
(* receipt check at the adapter's exit (actions/registry.py).              *)
(*                                                                         *)
(* Two kinds of process interleave: the single caller, which submits a     *)
(* command, waits for it with a deadline and writes the outcome table, and *)
(* one daemon thread per submitted command, which is never cancelled.      *)
(* Commands are abstracted to their positions in the list: what a device   *)
(* does and how its parameters are validated play no part in the order.    *)
(***************************************************************************)
EXTENDS Naturals

CONSTANTS
  ConfirmedSuccess, (* registry.py CONFIRMED_SUCCESS                         *)
  MaxCommands,      (* longest list, registry.py MAX_ACTIONS                 *)
  MaxTurns          (* bound: number of executed turns                       *)

ASSUME ConfirmedSuccessAssumption ==
  /\ ConfirmedSuccess # {}
  /\ ConfirmedSuccess \cap
       {"failed", "unknown", "not_executed", "none", "running", "raised"} = {}

ASSUME BoundsAssumption ==
  /\ MaxCommands \in Nat \ {0}
  /\ MaxTurns \in Nat \ {0}

Turn == 1..MaxTurns
Position == 1..MaxCommands

DeviceOutcome == ConfirmedSuccess \cup {"failed", "unknown"}
\* What a call thread leaves in its Future: a receipt or an exception.
Answer == DeviceOutcome \cup {"raised"}
CallState == Answer \cup {"none", "running"}
Status == DeviceOutcome \cup {"not_executed"}
Table == UNION {[1..n -> Status] : n \in 0..MaxCommands}

\* The table of a turn that has not been executed, or not been published.
NoTable == [i \in 1..0 |-> "not_executed"]

\* A receipt that settles a command, for good or ill.
Confirmed == ConfirmedSuccess \cup {"failed"}

NoCall == <<0, 0>>

VARIABLES
  turn,      \* the last executed turn, its position among all of them
  outcomes,  \* the outcome table of that turn, shared with _PendingAction
  index,     \* the command the caller's loop is at
  step,      \* where the caller is: idle, submit, wait, report, abort
  pending,   \* _pending_action: turn and position of the retained call
  calls,     \* the state of every call thread ever started
  reported   \* the outcome table published last for each turn

vars == <<turn, outcomes, index, step, pending, calls, reported>>

-------------------------------------------------------------------------------

Init ==
  /\ turn = 0
  /\ outcomes = NoTable
  /\ index = 0
  /\ step = "idle"
  /\ pending = NoCall
  /\ calls = [t \in Turn |-> [i \in Position |-> "none"]]
  /\ reported = [t \in Turn |-> NoTable]

CallOf(c) == calls[c[1]][c[2]]

Done(c) == CallOf(c) \in Answer

\* ActionExecution.blocked
Blocked == pending # NoCall

\* execute(): the whole table is recorded before anything is submitted. The
\* caller has checked that the execution is not blocked.
Execute(n) ==
  /\ step = "idle"
  /\ ~Blocked
  /\ turn < MaxTurns
  /\ turn' = turn + 1
  /\ outcomes' = [i \in 1..n |-> "not_executed"]
  /\ index' = 1
  /\ step' = "submit"
  /\ UNCHANGED <<pending, calls, reported>>

\* Faulty variant (mutation only): the thread starts before the entry is marked.
SubmitBeforeRecording ==
  /\ step = "submit"
  /\ calls' = [calls EXCEPT ![turn][index] = "running"]
  /\ pending' = <<turn, index>>
  /\ step' = "wait"
  /\ UNCHANGED <<turn, outcomes, index, reported>>

\* One round of the loop of _execute_actions up to start_call(): the outcome
\* is unknown before the thread starts.
SubmitCall ==
  /\ step = "submit"
  /\ outcomes' = [outcomes EXCEPT ![index] = "unknown"]
  /\ calls' = [calls EXCEPT ![turn][index] = "running"]
  /\ pending' = <<turn, index>>
  /\ step' = "wait"
  /\ UNCHANGED <<turn, index, reported>>

\* start_call() raises: no thread exists, the list is abandoned.
SubmitFails ==
  /\ step = "submit"
  /\ outcomes' = [outcomes EXCEPT ![index] = "failed"]
  /\ step' = "report"
  /\ UNCHANGED <<turn, index, pending, calls, reported>>

\* Faulty variant (mutation only): the late call is dropped.
TimeOutForgetsCall ==
  /\ step = "wait"
  /\ ~Done(pending)
  /\ pending' = NoCall
  /\ step' = "report"
  /\ UNCHANGED <<turn, outcomes, index, calls, reported>>

\* wait() reaches the deadline; the call and its record are retained.
WaitTimesOut ==
  /\ step = "wait"
  /\ ~Done(pending)
  /\ step' = "report"
  /\ UNCHANGED <<turn, outcomes, index, pending, calls, reported>>

\* An exception of the loop itself, carried out as ActionExecutionError.
WaitRaises ==
  /\ step = "wait"
  /\ step' = "abort"
  /\ UNCHANGED <<turn, outcomes, index, pending, calls, reported>>

\* Faulty variant (mutation only): an unconfirmed receipt ends the matter.
NoFactReleasesCall ==
  /\ step = "wait"
  /\ CallOf(pending) \in {"raised", "unknown"}
  /\ pending' = NoCall
  /\ step' = "report"
  /\ UNCHANGED <<turn, outcomes, index, calls, reported>>

\* The awaited call ended with an exception or without a valid receipt.
TakeNoFact ==
  /\ step = "wait"
  /\ CallOf(pending) \in {"raised", "unknown"}
  /\ step' = "report"
  /\ UNCHANGED <<turn, outcomes, index, pending, calls, reported>>

\* The awaited call brought a confirmed receipt: the command is settled, and
\* only a success lets the loop go on to the next one.
GoesOn == CallOf(pending) \in ConfirmedSuccess /\ index + 1 \in DOMAIN outcomes

TakeReceipt ==
  /\ step = "wait"
  /\ CallOf(pending) \in Confirmed
  /\ outcomes' = [outcomes EXCEPT ![index] = CallOf(pending)]
  /\ pending' = NoCall
  /\ IF GoesOn
     THEN step' = "submit" /\ index' = index + 1
     ELSE step' = "report" /\ UNCHANGED index
  /\ UNCHANGED <<turn, calls, reported>>

\* _report_actions(), or the result carried by ActionExecutionError: a
\* snapshot of the table is published and the caller is free.
Report ==
  /\ step \in {"report", "abort"}
  /\ reported' = [reported EXCEPT ![turn] = outcomes]
  /\ step' = "idle"
  /\ UNCHANGED <<turn, outcomes, index, pending, calls>>

\* The entry reconcile() resolves.
FirstUnknown ==
  CHOOSE i \in DOMAIN outcomes :
    /\ outcomes[i] = "unknown"
    /\ \A j \in DOMAIN outcomes : outcomes[j] = "unknown" => i <= j

\* Faulty variant (mutation only): the rest of the list is executed late.
ReconcileResumesList(t) ==
  /\ step = "idle"
  /\ Blocked
  /\ pending[1] = t
  /\ CallOf(pending) \in Confirmed
  /\ outcomes' = [outcomes EXCEPT ![FirstUnknown] = CallOf(pending)]
  /\ reported' = [reported EXCEPT ![t] = outcomes']
  /\ pending' = NoCall
  /\ IF GoesOn
     THEN step' = "submit" /\ index' = index + 1
     ELSE UNCHANGED <<step, index>>
  /\ UNCHANGED <<turn, calls>>

\* reconcile() with a late confirmed receipt: the one unknown entry of the
\* retained record is resolved, nothing is executed again. With any other
\* identifier, an unfinished call or an unconfirmed receipt it changes nothing.
Reconcile(t) ==
  /\ step = "idle"
  /\ Blocked
  /\ pending[1] = t
  /\ CallOf(pending) \in Confirmed
  /\ outcomes' = [outcomes EXCEPT ![FirstUnknown] = CallOf(pending)]
  /\ reported' = [reported EXCEPT ![t] = outcomes']
  /\ pending' = NoCall
  /\ UNCHANGED <<turn, index, step, calls>>

\* The thread of a call ends: registry.execute() returns the adapter's valid
\* receipt, replaces an invalid one by "unknown", or lets an exception out.
CallEnds(t, i, a) ==
  /\ calls[t][i] = "running"
  /\ calls' = [calls EXCEPT ![t][i] = a]
  /\ UNCHANGED <<turn, outcomes, index, step, pending, reported>>

CallerStep ==
  \/ SubmitCall
  \/ SubmitFails
  \/ WaitTimesOut
  \/ TakeNoFact
  \/ TakeReceipt
  \/ Report

Next ==
  \/ \E n \in Position : Execute(n)
  \/ CallerStep
  \/ WaitRaises
  \/ \E t \in Turn : Reconcile(t)
  \/ \E t \in Turn, i \in Position, a \in Answer : CallEnds(t, i, a)

Spec == Init /\ [][Next]_vars

-------------------------------------------------------------------------------

TypeOK ==
  /\ turn \in 0..MaxTurns
  /\ outcomes \in Table
  /\ index \in 0..MaxCommands
  /\ step \in {"idle", "submit", "wait", "report", "abort"}
  /\ pending \in (Turn \X Position) \cup {NoCall}
  /\ calls \in [Turn -> [Position -> CallState]]
  /\ reported \in [Turn -> Table]

\* No two device calls ever run at the same time, whichever turns submitted
\* them: a call that outlives its deadline keeps every later one out.
NoOverlap ==
  \A t, u \in Turn : \A i, j \in Position :
    calls[t][i] = "running" /\ calls[u][j] = "running" => t = u /\ i = j

\* A command reaches its device only after every earlier command of its list
\* was confirmed successful, also when a receipt arrives late.
ConfirmedPrefix ==
  \A t \in Turn : \A i, j \in Position :
    j < i /\ calls[t][i] # "none" => calls[t][j] \in ConfirmedSuccess

\* Whenever the caller is free, the execution is blocked exactly when the
\* table holds an unknown entry, that entry is the retained call's and the
\* only one: reconcile() finds the entry it must resolve.
BlockedByOneUnknown ==
  step = "idle" =>
    \A i \in DOMAIN outcomes :
      outcomes[i] = "unknown" <=> pending = <<turn, i>>

Agrees(status, call) ==
  /\ status = "not_executed" => call = "none"
  /\ status = "unknown" => call # "none"
  /\ status = "failed" => call \in {"none", "failed"}
  /\ status \in ConfirmedSuccess => call = status

\* What was published of a turn is never contradicted by the devices: a
\* command reported not executed was not and is not submitted later, and a
\* reported success or failure is the receipt's own.
ReportsAreTrue ==
  \A t \in Turn : \A i \in DOMAIN reported[t] :
    Agrees(reported[t][i], calls[t][i])

\* A published entry changes once at most, from unknown to what the device
\* confirmed, and no entry is added to or taken from a published table.
ReportsOnlyResolve ==
  [][\A t \in Turn : reported[t] # NoTable =>
       /\ DOMAIN reported'[t] = DOMAIN reported[t]
       /\ \A i \in DOMAIN reported[t] :
            reported'[t][i] # reported[t][i] =>
              reported[t][i] = "unknown" /\ reported'[t][i] \in Confirmed]_vars

\* The turns as the abstract ledger sees them: the table at hand for the
\* latest turn, the published ones for the turns before it.
Ledger == INSTANCE ActionLedger
  WITH last <- turn,
       open <- step # "idle",
       ledger <- [t \in Turn |-> IF t = turn THEN outcomes ELSE reported[t]]

\* Execution with its threads, deadlines and late receipts keeps the ledger.
KeepsLedger == Ledger!Spec
===============================================================================
