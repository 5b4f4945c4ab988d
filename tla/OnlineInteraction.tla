--------------------------- MODULE OnlineInteraction ---------------------------
(***************************************************************************)
(* The life of one interaction turn (conversation/interaction.py): a model *)
(* call, the validation of the whole action list, its execution, and the   *)
(* memory update; with the two calls its single caller makes between turns,*)
(* clear_memory() and reconcile().                                         *)
(*                                                                         *)
(* Model calls and memory updates share one slot, _provider_call, and both *)
(* outlive the caller's patience: they run on their own threads and are    *)
(* never cancelled.  The execution of the list is module ActionExecution   *)
(* and the memory is module ConversationMemory; this module owes both of   *)
(* them the discipline their single caller has promised.                   *)
(***************************************************************************)
EXTENDS Naturals, Sequences

CONSTANTS
  ConfirmedSuccess, MaxCommands, MaxTurns,
  RecentTurns, SummaryTrigger, MaxExchanges

VARIABLES
  pc,        \* the caller: idle, model, exec, remember, recording, clearing
  slot,      \* what _provider_call holds: none, model, record
  model,     \* the model call in the slot: running, or what it produced
  readers    \* number of threads inside a model call

VARIABLES turn, outcomes, index, step, pending, calls, reported
VARIABLES recorded, recent, summary, notice, writer, prompt, disk, forgotten

execVars == <<turn, outcomes, index, step, pending, calls, reported>>
memoryVars == <<recorded, recent, summary, notice, writer, prompt, disk, forgotten>>
vars == <<pc, slot, model, readers, execVars, memoryVars>>

Exec == INSTANCE ActionExecution
Memory == INSTANCE ConversationMemory

ASSUME ExecutionAssumption == Exec!ConfirmedSuccessAssumption /\ Exec!BoundsAssumption
ASSUME MemoryAssumption == Memory!Configuration

\* The text of a model reply, as far as a turn depends on it: an action list
\* that validates as a whole, words only, output or list rejected, no output.
Reply == {"list", "chat", "invalid", "error"}

Init ==
  /\ pc = "idle"
  /\ slot = "none"
  /\ model = "error"
  /\ readers = 0
  /\ Exec!Init
  /\ Memory!Init

-------------------------------------------------------------------------------

\* not self._provider_call.done()
InFlight ==
  \/ slot = "model" /\ model = "running"
  \/ slot = "record" /\ writer \in Memory!Recording

\* Faulty variant (mutation only): submit() does not look at the retained action.
AcceptsWhileBlocked == pc = "idle" /\ ~InFlight

\* submit() goes on unless an action awaits reconciliation or the slot is busy.
Accepts == pc = "idle" /\ ~Exec!Blocked /\ ~InFlight

\* Bound: a turn is begun only if its list and its record can be numbered.
WithinBounds == turn < MaxTurns /\ recorded < MaxExchanges

\* An empty or overlong text is rejected, or no thread can be started: the
\* slot has been emptied and the turn ends.
RefuseTurn ==
  /\ Accepts
  /\ slot' = "none"
  /\ UNCHANGED <<pc, model, readers, execVars, memoryVars>>

AskModel ==
  /\ Accepts
  /\ WithinBounds
  /\ slot' = "model"
  /\ model' = "running"
  /\ readers' = readers + 1
  /\ pc' = "model"
  /\ UNCHANGED <<execVars, memoryVars>>

\* The model thread reads the memory for its context and ends.
ModelEnds(r) ==
  /\ model = "running"
  /\ model' = r
  /\ readers' = readers - 1
  /\ UNCHANGED <<pc, slot, execVars, memoryVars>>

\* wait() reaches provider_timeout; the call stays in the slot.
ModelTimesOut ==
  /\ pc = "model" /\ model = "running"
  /\ pc' = "idle"
  /\ UNCHANGED <<slot, model, readers, execVars, memoryVars>>

\* Parsing or validation fails, or the call raised: nothing is executed.
ReplyRejected ==
  /\ pc = "model" /\ model \in {"invalid", "error"}
  /\ pc' = "idle"
  /\ UNCHANGED <<slot, model, readers, execVars, memoryVars>>

ReplyIsChat ==
  /\ pc = "model" /\ model = "chat"
  /\ pc' = "remember"
  /\ UNCHANGED <<slot, model, readers, execVars, memoryVars>>

ReplyIsList(n) ==
  /\ pc = "model" /\ model = "list"
  /\ Exec!Execute(n)
  /\ pc' = "exec"
  /\ UNCHANGED <<slot, model, readers, memoryVars>>

\* The list runs; its result is remembered unless the execution was aborted.
ExecutionStep ==
  /\ pc = "exec"
  /\ Exec!CallerStep
  /\ pc' = IF step' # "idle" THEN "exec" ELSE IF step = "abort" THEN "idle" ELSE "remember"
  /\ UNCHANGED <<slot, model, readers, memoryVars>>

ExecutionRaises ==
  /\ pc = "exec"
  /\ Exec!WaitRaises
  /\ UNCHANGED <<pc, slot, model, readers, memoryVars>>

\* _remember(): the slot now holds the memory update.
StartRecord ==
  /\ pc = "remember"
  /\ Memory!Record
  /\ slot' = "record"
  /\ pc' = "recording"
  /\ UNCHANGED <<model, readers, execVars>>

\* start_call() raises out of _remember() and of submit().
StartRecordRaises ==
  /\ pc = "remember"
  /\ pc' = "idle"
  /\ UNCHANGED <<slot, model, readers, execVars, memoryVars>>

RecordReturns ==
  /\ pc = "recording" /\ ~InFlight
  /\ pc' = "idle"
  /\ UNCHANGED <<slot, model, readers, execVars, memoryVars>>

\* Faulty variant (mutation only): the memory update is awaited to its end.
RecordAwaited == FALSE /\ UNCHANGED vars

RecordTimesOut ==
  /\ pc = "recording" /\ InFlight
  /\ pc' = "idle"
  /\ UNCHANGED <<slot, model, readers, execVars, memoryVars>>

\* The steps of record() on its own thread.
RecordThread ==
  /\ writer \in Memory!Recording
  /\ Memory!RecordStep
  /\ UNCHANGED <<pc, slot, model, readers, execVars>>

\* Faulty variant (mutation only): clear_memory() does not look at the slot.
ClearAnyTime == pc = "idle"

\* clear_memory() goes on unless the slot is busy; a blocked action is no
\* obstacle to it.
MayClear == pc = "idle" /\ ~InFlight

StartClear ==
  /\ MayClear
  /\ recent' = <<>> /\ summary' = {} /\ notice' = FALSE
  /\ writer' = "clear_save"
  /\ pc' = "clearing"
  /\ UNCHANGED <<slot, model, readers, execVars, recorded, prompt, disk, forgotten>>

ClearStep ==
  /\ pc = "clearing"
  /\ \/ Memory!WriteTemporary
     \/ Memory!ReplaceFile
     \/ Memory!SaveFails
  /\ pc' = IF writer' = "none" THEN "idle" ELSE "clearing"
  /\ UNCHANGED <<slot, model, readers, execVars>>

Reconcile ==
  /\ pc = "idle"
  /\ \E t \in Exec!Turn : Exec!Reconcile(t)
  /\ UNCHANGED <<pc, slot, model, readers, memoryVars>>

DeviceThread ==
  /\ \E t \in Exec!Turn, i \in Exec!Position, a \in Exec!Answer : Exec!CallEnds(t, i, a)
  /\ UNCHANGED <<pc, slot, model, readers, memoryVars>>

\* The process ends at any point and starts again: the file alone survives, and
\* neither the turn nor a command in doubt is remembered.
Restart ==
  /\ Memory!Restart
  /\ pc' = "idle" /\ slot' = "none" /\ model' = "error" /\ readers' = 0
  /\ turn' = 0 /\ outcomes' = Exec!NoTable /\ index' = 0 /\ step' = "idle"
  /\ pending' = Exec!NoCall
  /\ calls' = [t \in Exec!Turn |-> [i \in Exec!Position |-> "none"]]
  /\ reported' = [t \in Exec!Turn |-> Exec!NoTable]

\* Steps of the caller inside submit(), exceptions aside.
CallerStep ==
  \/ ModelTimesOut \/ ReplyRejected \/ ReplyIsChat
  \/ \E n \in Exec!Position : ReplyIsList(n)
  \/ ExecutionStep
  \/ StartRecord \/ RecordReturns \/ RecordTimesOut

Next ==
  \/ RefuseTurn \/ AskModel \/ StartClear \/ Reconcile
  \/ CallerStep
  \/ ClearStep
  \/ ExecutionRaises \/ StartRecordRaises
  \/ \E r \in Reply : ModelEnds(r)
  \/ RecordThread
  \/ DeviceThread
  \/ Restart

Spec == Init /\ [][Next]_vars

\* Inside submit() the caller waits on other threads with a deadline only.  Not
\* so clear_memory(): it saves and fsyncs the file itself, and a disk that hangs
\* hangs it; ClearStep, like every step of a device, a model and the record
\* thread, may never come.
FairSpec == Spec /\ WF_vars(CallerStep)

-------------------------------------------------------------------------------

TypeOK ==
  /\ pc \in {"idle", "model", "exec", "remember", "recording", "clearing"}
  /\ slot \in {"none", "model", "record"}
  /\ model \in Reply \cup {"running"}
  /\ readers \in 0..1
  /\ Exec!TypeOK
  /\ Memory!TypeOK

\* execute() is entered only when no earlier command is in doubt: what submit()
\* saw before the model call still holds when the list arrives.
ExecutePrecondition == pc = "model" => ~Exec!Blocked /\ step = "idle"

\* The calls keep the order ConversationMemory expects of its single caller, so
\* that what clear() confirmed stays forgotten.
MemoryProtocol == Memory!Spec

\* Failed summaries, clears and restarts together never let the context grow
\* past recent_turns, never reorder it, and never leave an exchange both in the
\* recent list and in the summary, where it would count twice (record()).
RecentIsFresh == Memory!RecentIsFresh

\* Once clear_memory() has confirmed, no exchange from before it comes back: not
\* from a record that outlived its turn, not from the file, not after a crash
\* between the halves of a save (clear(), _save()).
ForgottenStaysForgotten == Memory!ForgottenStaysForgotten

\* However long the model, the devices and the disk under the record hang,
\* submit() returns to its caller: each wait on another thread ends with its
\* deadline, through every action of the list and the memory update at its end.
CallReturns == pc \notin {"idle", "clearing"} ~> pc = "idle"
===============================================================================
