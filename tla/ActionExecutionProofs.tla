------------------------- MODULE ActionExecutionProofs -------------------------
(***************************************************************************)
(* Proofs about ActionExecution for every set of success receipts, every   *)
(* list length and every number of turns.  The safety properties follow    *)
(* from one inductive invariant, whose heart is that a running call is     *)
(* always the retained one and that the retained call is always the only   *)
(* unknown entry of the current table.                                     *)
(***************************************************************************)
EXTENDS ActionExecution, TLAPS

\* No turn leaves an open question behind: once a later turn has started,
\* every entry published for an earlier one is settled.
NoOpenQuestionBehind ==
  \A t \in Turn : t < turn =>
    \A i \in DOMAIN reported[t] : reported[t][i] # "unknown"

\* The retained call is the current turn's and is its table's unknown entry.
PendingIsUnknown ==
  /\ pending # NoCall => turn \in Turn /\ \E i \in DOMAIN outcomes : pending = <<turn, i>>
  /\ \A i \in DOMAIN outcomes : outcomes[i] = "unknown" <=> pending = <<turn, i>>

\* Where the caller's loop stands in its table.
LoopInvariant ==
  step # "idle" =>
    /\ turn \in Turn
    /\ index \in DOMAIN outcomes
    /\ reported[turn] = NoTable
    /\ step = "submit" => /\ pending = NoCall
                          /\ outcomes[index] = "not_executed"
    /\ step = "wait" => pending = <<turn, index>>
    /\ step \in {"submit", "wait"} =>
         \A j \in DOMAIN outcomes :
           /\ j < index => outcomes[j] \in ConfirmedSuccess
           /\ j > index => outcomes[j] = "not_executed"

\* The current table tells the truth about the threads of its turn.
TableIsTrue ==
  turn \in Turn =>
    \A i \in Position :
      IF i \in DOMAIN outcomes
      THEN Agrees(outcomes[i], calls[turn][i])
      ELSE calls[turn][i] = "none"

\* Only the retained call can still be running.
OnlyPendingRuns ==
  \A t \in Turn, i \in Position : calls[t][i] = "running" => pending = <<t, i>>

\* Turns to come have left no trace.
FutureUntouched ==
  \A t \in Turn : t > turn =>
    reported[t] = NoTable /\ \A i \in Position : calls[t][i] = "none"

\* A free caller has published the table it holds.
IdlePublished ==
  step = "idle" => IF turn \in Turn THEN reported[turn] = outcomes ELSE outcomes = NoTable

IInv ==
  /\ TypeOK
  /\ PendingIsUnknown
  /\ LoopInvariant
  /\ TableIsTrue
  /\ OnlyPendingRuns
  /\ FutureUntouched
  /\ IdlePublished
  /\ ConfirmedPrefix
  /\ ReportsAreTrue
  /\ NoOpenQuestionBehind

-------------------------------------------------------------------------------
\* The table before any list is an empty one.
LEMMA NoTableType == NoTable \in Table /\ DOMAIN NoTable = {}
<1>1. NoTable \in [1..0 -> Status] BY DEF NoTable
<1>2. 0 \in 0..MaxCommands BY BoundsAssumption
<1> QED BY <1>1, <1>2 DEF Table, NoTable

\* A table has positions for domain, and updating one entry keeps it a table.
LEMMA TableFacts ==
  ASSUME NEW T \in Table
  PROVE  /\ DOMAIN T \subseteq Position
         /\ \A i \in DOMAIN T : T[i] \in Status
         /\ \A i \in DOMAIN T, s \in Status :
              /\ [T EXCEPT ![i] = s] \in Table
              /\ DOMAIN [T EXCEPT ![i] = s] = DOMAIN T
<1>1. PICK n \in 0..MaxCommands : T \in [1..n -> Status] BY DEF Table
<1>2. 1..n \subseteq Position BY BoundsAssumption DEF Position
<1>3. \A i \in DOMAIN T, s \in Status : [T EXCEPT ![i] = s] \in [1..n -> Status]
  BY <1>1
<1> QED BY <1>1, <1>2, <1>3 DEF Table

\* The table execute() begins with has an entry for every command of the list.
LEMMA NewTable ==
  ASSUME NEW n \in Position
  PROVE  /\ [i \in 1..n |-> "not_executed"] \in Table
         /\ 1 \in 1..n /\ 1..n \subseteq Position
<1>1. [i \in 1..n |-> "not_executed"] \in [1..n -> Status] BY DEF Status
<1>2. n \in 0..MaxCommands BY BoundsAssumption DEF Position
<1> QED BY <1>1, <1>2, BoundsAssumption DEF Table, Position

\* Init establishes the inductive invariant.
THEOREM InitInvariant == Init => IInv
<1> SUFFICES ASSUME Init PROVE IInv OBVIOUS
<1>1. TypeOK
  BY NoTableType, BoundsAssumption DEF Init, TypeOK, CallState, Turn, Position
<1> QED
  BY <1>1, NoTableType, BoundsAssumption
  DEF Init, IInv, PendingIsUnknown, LoopInvariant, TableIsTrue, OnlyPendingRuns,
      FutureUntouched, IdlePublished, ConfirmedPrefix, ReportsAreTrue,
      NoOpenQuestionBehind, Turn, NoCall

-------------------------------------------------------------------------------
(* One lemma per action: the step preserves every conjunct of IInv.         *)

\* execute() enters: a new table, nothing in doubt.
LEMMA ExecuteStep ==
  ASSUME IInv, NEW n \in Position, Execute(n)
  PROVE  IInv'
<1> USE DEF IInv, Execute, Blocked
<1>1. turn + 1 \in Turn /\ turn \in 0..MaxTurns
  BY BoundsAssumption DEF TypeOK, Turn
<1>2. outcomes' \in Table /\ DOMAIN outcomes' = 1..n /\ 1 \in 1..n /\ 1..n \subseteq Position
  BY NewTable
<1>3. TypeOK'
  BY <1>1, <1>2, BoundsAssumption DEF TypeOK, Turn, Position
<1>4. /\ reported[turn'] = NoTable
      /\ \A i \in Position : calls[turn'][i] = "none"
  BY <1>1 DEF FutureUntouched
<1>5. PendingIsUnknown'
  BY <1>1, <1>2 DEF PendingIsUnknown, NoCall, Turn
<1>6. LoopInvariant'
  BY <1>1, <1>2, <1>4 DEF LoopInvariant, Position
<1>7. TableIsTrue'
  BY <1>2, <1>4, ConfirmedSuccessAssumption DEF TableIsTrue, Agrees
<1>8. OnlyPendingRuns' /\ FutureUntouched' /\ IdlePublished' /\ ConfirmedPrefix' /\ ReportsAreTrue'
  BY <1>1 DEF OnlyPendingRuns, FutureUntouched, IdlePublished, ConfirmedPrefix, ReportsAreTrue, Turn
<1>9. NoOpenQuestionBehind'
  <2> SUFFICES ASSUME NEW t \in Turn, t < turn', NEW i \in DOMAIN reported[t]
               PROVE  reported[t][i] # "unknown"
    BY DEF NoOpenQuestionBehind
  <2>1. CASE t < turn BY <2>1 DEF NoOpenQuestionBehind
  <2>2. CASE t = turn
    BY <2>2 DEF IdlePublished, PendingIsUnknown, NoCall, Turn
  <2> QED BY <1>1, <2>1, <2>2 DEF Turn
<1> QED BY <1>3, <1>5, <1>6, <1>7, <1>8, <1>9

\* The next command goes to a thread: its entry is the one in doubt.
LEMMA SubmitCallStep ==
  ASSUME IInv, SubmitCall
  PROVE  IInv'
<1> USE DEF IInv, SubmitCall
<1>1. turn \in Turn /\ index \in DOMAIN outcomes /\ index \in Position /\ pending = NoCall
      /\ outcomes[index] = "not_executed"
  BY TableFacts DEF LoopInvariant, TypeOK
<1>2. /\ outcomes' \in Table /\ DOMAIN outcomes' = DOMAIN outcomes
      /\ outcomes'[index] = "unknown"
      /\ \A i \in DOMAIN outcomes : i # index => outcomes'[i] = outcomes[i]
  BY <1>1, TableFacts DEF TypeOK, Status, DeviceOutcome
<1>3. /\ calls'[turn][index] = "running"
      /\ \A t \in Turn, i \in Position :
           <<t, i>> # <<turn, index>> => calls'[t][i] = calls[t][i]
  BY <1>1 DEF TypeOK
<1>4. TypeOK'
  BY <1>1, <1>2 DEF TypeOK, CallState
<1>5. PendingIsUnknown'
  <2>1. \A i \in DOMAIN outcomes : outcomes[i] # "unknown"
    BY <1>1 DEF PendingIsUnknown, NoCall, Turn
  <2>2. \A i \in DOMAIN outcomes : outcomes'[i] = "unknown" <=> i = index
    BY <1>2, <2>1
  <2> QED BY <1>1, <1>2, <2>2 DEF PendingIsUnknown
<1>6. LoopInvariant'
  BY <1>1, <1>2, TableFacts DEF LoopInvariant, TypeOK, Position
<1>7. TableIsTrue'
  BY <1>1, <1>2, <1>3, ConfirmedSuccessAssumption DEF TableIsTrue, Agrees
<1>8. OnlyPendingRuns'
  BY <1>1, <1>3 DEF OnlyPendingRuns, NoCall, Turn
<1>9. FutureUntouched' /\ IdlePublished' /\ NoOpenQuestionBehind'
  BY <1>1, <1>3 DEF FutureUntouched, IdlePublished, NoOpenQuestionBehind, Turn
<1>10. \A j \in Position : j < index => calls[turn][j] \in ConfirmedSuccess
  <2> TAKE j \in Position
  <2>1. j < index => j \in DOMAIN outcomes
    BY <1>1 DEF TypeOK, Table, Position
  <2> QED
    BY <1>1, <2>1, ConfirmedSuccessAssumption DEF LoopInvariant, TableIsTrue, Agrees, Position
<1>11. \A i \in Position : index < i => calls[turn][i] = "none"
  BY <1>1, ConfirmedSuccessAssumption DEF LoopInvariant, TableIsTrue, Agrees, Position
<1>12. ConfirmedPrefix'
  <2> SUFFICES ASSUME NEW t \in Turn, NEW i \in Position, NEW j \in Position,
                      j < i, calls'[t][i] # "none"
               PROVE  calls'[t][j] \in ConfirmedSuccess
    BY DEF ConfirmedPrefix
  <2>1. CASE t # turn BY <1>3, <2>1 DEF ConfirmedPrefix
  <2>2. CASE t = turn BY <1>1, <1>3, <1>10, <1>11, <2>2 DEF ConfirmedPrefix, Position
  <2> QED BY <2>1, <2>2
<1>13. ReportsAreTrue'
  <2> SUFFICES ASSUME NEW t \in Turn, NEW i \in DOMAIN reported[t]
               PROVE  Agrees(reported[t][i], calls'[t][i])
    BY DEF ReportsAreTrue
  <2>1. t # turn
    BY <1>1, NoTableType DEF LoopInvariant
  <2>2. i \in Position BY TableFacts DEF TypeOK
  <2> QED BY <1>3, <2>1, <2>2 DEF ReportsAreTrue, Agrees
<1> QED BY <1>4, <1>5, <1>6, <1>7, <1>8, <1>9, <1>12, <1>13

\* No thread could be started: the command stays not executed.
LEMMA SubmitFailsStep ==
  ASSUME IInv, SubmitFails
  PROVE  IInv'
<1> USE DEF IInv, SubmitFails
<1>1. turn \in Turn /\ index \in DOMAIN outcomes /\ pending = NoCall
      /\ outcomes[index] = "not_executed"
  BY DEF LoopInvariant
<1>2. /\ outcomes' \in Table /\ DOMAIN outcomes' = DOMAIN outcomes
      /\ outcomes'[index] = "failed"
      /\ \A i \in DOMAIN outcomes : i # index => outcomes'[i] = outcomes[i]
  BY <1>1, TableFacts DEF TypeOK, Status, DeviceOutcome
<1>3. TypeOK'
  BY <1>2 DEF TypeOK
<1>4. PendingIsUnknown'
  BY <1>1, <1>2 DEF PendingIsUnknown
<1>5. LoopInvariant'
  BY <1>1, <1>2 DEF LoopInvariant
<1>6. TableIsTrue'
  BY <1>1, <1>2, ConfirmedSuccessAssumption, TableFacts DEF TableIsTrue, Agrees, TypeOK
<1>7. OnlyPendingRuns' /\ FutureUntouched' /\ IdlePublished' /\ ConfirmedPrefix'
      /\ ReportsAreTrue' /\ NoOpenQuestionBehind'
  BY <1>1 DEF OnlyPendingRuns, FutureUntouched, IdlePublished, ConfirmedPrefix,
              ReportsAreTrue, NoOpenQuestionBehind
<1> QED BY <1>3, <1>4, <1>5, <1>6, <1>7

\* The caller gives up waiting: only its position in the code changes.
LEMMA GiveUpStep ==
  ASSUME IInv, WaitTimesOut \/ WaitRaises \/ TakeNoFact
  PROVE  IInv'
<1>1. step = "wait" /\ step' \in {"report", "abort"}
      /\ UNCHANGED <<turn, outcomes, index, pending, calls, reported>>
  BY DEF WaitTimesOut, WaitRaises, TakeNoFact
<1>2. TypeOK' BY <1>1 DEF IInv, TypeOK
<1>3. PendingIsUnknown' /\ LoopInvariant' /\ TableIsTrue' /\ OnlyPendingRuns'
      /\ FutureUntouched' /\ IdlePublished'
  BY <1>1 DEF IInv, PendingIsUnknown, LoopInvariant, TableIsTrue, OnlyPendingRuns,
              FutureUntouched, IdlePublished
<1>4. ConfirmedPrefix' /\ ReportsAreTrue' /\ NoOpenQuestionBehind'
  BY <1>1 DEF IInv, ConfirmedPrefix, ReportsAreTrue, NoOpenQuestionBehind
<1> QED BY <1>2, <1>3, <1>4 DEF IInv

\* The receipt of the retained call settles its entry.
LEMMA TakeReceiptStep ==
  ASSUME IInv, TakeReceipt
  PROVE  IInv'
<1> USE DEF IInv, TakeReceipt
<1> DEFINE a == calls[turn][index]
<1>1. /\ turn \in Turn /\ index \in DOMAIN outcomes /\ index \in Position
      /\ pending = <<turn, index>> /\ CallOf(pending) = a /\ a \in Confirmed
      /\ reported[turn] = NoTable
  BY TableFacts DEF LoopInvariant, TypeOK, CallOf
<1>2. /\ outcomes' \in Table /\ DOMAIN outcomes' = DOMAIN outcomes
      /\ outcomes'[index] = a
      /\ \A i \in DOMAIN outcomes : i # index => outcomes'[i] = outcomes[i]
  BY <1>1, TableFacts DEF TypeOK, Status, DeviceOutcome, Confirmed
<1>3. a # "unknown" /\ a # "running" /\ a # "none" /\ a # "not_executed"
  BY <1>1, ConfirmedSuccessAssumption DEF Confirmed
<1>4. TypeOK'
  BY <1>1, <1>2, TableFacts DEF TypeOK, GoesOn, Position
<1>5. \A i \in DOMAIN outcomes : i # index => outcomes[i] # "unknown"
  BY <1>1 DEF PendingIsUnknown
<1>6. PendingIsUnknown'
  <2>1. \A i \in DOMAIN outcomes : outcomes'[i] # "unknown"
    BY <1>2, <1>3, <1>5
  <2>2. \A i : NoCall # <<turn, i>>
    BY <1>1 DEF NoCall, Turn
  <2> QED BY <1>2, <2>1, <2>2 DEF PendingIsUnknown
<1>7. LoopInvariant'
  <2>1. CASE GoesOn
    <3>1. \A j \in DOMAIN outcomes :
            /\ j < index => outcomes[j] \in ConfirmedSuccess
            /\ j > index => outcomes[j] = "not_executed"
      BY <1>1 DEF LoopInvariant
    <3>2. DOMAIN outcomes \subseteq Nat /\ index \in Nat
      BY <1>1, TableFacts DEF TypeOK, Position
    <3>3. /\ step' = "submit" /\ index' = index + 1 /\ pending' = NoCall
          /\ index + 1 \in DOMAIN outcomes /\ a \in ConfirmedSuccess
      BY <1>1, <2>1 DEF GoesOn
    <3>4. \A j \in DOMAIN outcomes :
            /\ j < index + 1 => outcomes'[j] \in ConfirmedSuccess
            /\ j > index + 1 => outcomes'[j] = "not_executed"
      BY <1>2, <3>1, <3>2, <3>3
    <3>5. outcomes'[index + 1] = "not_executed"
      BY <1>2, <3>1, <3>2, <3>3
    <3> QED BY <1>1, <1>2, <3>3, <3>4, <3>5 DEF LoopInvariant
  <2>2. CASE ~GoesOn
    BY <1>1, <1>2, <2>2 DEF LoopInvariant
  <2> QED BY <2>1, <2>2
<1>8. TableIsTrue'
  BY <1>1, <1>2, <1>3, ConfirmedSuccessAssumption DEF TableIsTrue, Agrees, Confirmed
<1>9. OnlyPendingRuns'
  BY <1>1, <1>3 DEF OnlyPendingRuns
<1>10. FutureUntouched' /\ IdlePublished' /\ ConfirmedPrefix'
       /\ ReportsAreTrue' /\ NoOpenQuestionBehind'
  BY <1>1 DEF FutureUntouched, IdlePublished, ConfirmedPrefix, ReportsAreTrue,
              NoOpenQuestionBehind
<1> QED BY <1>4, <1>6, <1>7, <1>8, <1>9, <1>10

\* The table is published as it stands.
LEMMA ReportStep ==
  ASSUME IInv, Report
  PROVE  IInv'
<1> USE DEF IInv, Report
<1>1. turn \in Turn BY DEF LoopInvariant
<1>2. /\ reported'[turn] = outcomes
      /\ \A t \in Turn : t # turn => reported'[t] = reported[t]
  BY <1>1 DEF TypeOK
<1>3. TypeOK' BY <1>1 DEF TypeOK
<1>4. PendingIsUnknown' /\ LoopInvariant' /\ TableIsTrue' /\ OnlyPendingRuns'
  BY DEF PendingIsUnknown, LoopInvariant, TableIsTrue, OnlyPendingRuns
<1>5. FutureUntouched' /\ IdlePublished' /\ ConfirmedPrefix'
  BY <1>1, <1>2 DEF FutureUntouched, IdlePublished, ConfirmedPrefix, Turn
<1>6. ReportsAreTrue'
  BY <1>1, <1>2, TableFacts DEF ReportsAreTrue, TableIsTrue, TypeOK
<1>7. NoOpenQuestionBehind'
  BY <1>1, <1>2 DEF NoOpenQuestionBehind, Turn
<1> QED BY <1>3, <1>4, <1>5, <1>6, <1>7

\* The entry reconcile() picks is the retained call's.
LEMMA FirstUnknownIsPending ==
  ASSUME TypeOK, PendingIsUnknown, pending # NoCall
  PROVE  FirstUnknown \in DOMAIN outcomes /\ pending = <<turn, FirstUnknown>> /\ turn \in Turn
<1>1. turn \in Turn /\ \E i \in DOMAIN outcomes : pending = <<turn, i>>
  BY DEF PendingIsUnknown
<1>2. PICK i \in DOMAIN outcomes : pending = <<turn, i>>
  BY <1>1
<1>3. outcomes[i] = "unknown" /\ \A j \in DOMAIN outcomes : outcomes[j] = "unknown" => i = j
  BY <1>2 DEF PendingIsUnknown
<1>4. i \in Nat
  BY TableFacts DEF TypeOK, Position
<1>5. \A j \in DOMAIN outcomes : outcomes[j] = "unknown" => i <= j
  BY <1>3, <1>4
<1>6. FirstUnknown \in DOMAIN outcomes /\ outcomes[FirstUnknown] = "unknown"
  BY <1>3, <1>5 DEF FirstUnknown
<1> QED BY <1>1, <1>2, <1>3, <1>6

\* reconcile() settles the one doubt of an earlier list.
LEMMA ReconcileStep ==
  ASSUME IInv, NEW t \in Turn, Reconcile(t)
  PROVE  IInv'
<1> USE DEF IInv, Reconcile
<1> DEFINE k == FirstUnknown
<1> DEFINE a == calls[turn][k]
<1>1. /\ turn \in Turn /\ t = turn /\ k \in DOMAIN outcomes /\ k \in Position
      /\ pending = <<turn, k>> /\ CallOf(pending) = a /\ a \in Confirmed
  BY FirstUnknownIsPending, TableFacts DEF TypeOK, CallOf, Blocked
<1>2. /\ outcomes' \in Table /\ DOMAIN outcomes' = DOMAIN outcomes
      /\ outcomes'[k] = a
      /\ \A i \in DOMAIN outcomes : i # k => outcomes'[i] = outcomes[i]
  BY <1>1, TableFacts DEF TypeOK, Status, DeviceOutcome, Confirmed
<1>3. a # "unknown" /\ a # "running" /\ a # "none" /\ a # "not_executed"
  BY <1>1, ConfirmedSuccessAssumption DEF Confirmed
<1>4. /\ reported'[turn] = outcomes'
      /\ \A u \in Turn : u # turn => reported'[u] = reported[u]
  BY <1>1 DEF TypeOK
<1>5. TypeOK'
  BY <1>1, <1>2 DEF TypeOK
<1>6. PendingIsUnknown'
  <2>1. \A i \in DOMAIN outcomes : outcomes'[i] # "unknown"
    BY <1>1, <1>2, <1>3 DEF PendingIsUnknown
  <2>2. \A i : NoCall # <<turn, i>>
    BY <1>1 DEF NoCall, Turn
  <2> QED BY <1>2, <2>1, <2>2 DEF PendingIsUnknown
<1>7. LoopInvariant' /\ IdlePublished'
  BY <1>1, <1>4 DEF LoopInvariant, IdlePublished
<1>8. TableIsTrue'
  BY <1>1, <1>2, <1>3, ConfirmedSuccessAssumption DEF TableIsTrue, Agrees, Confirmed
<1>9. OnlyPendingRuns'
  BY <1>1, <1>3 DEF OnlyPendingRuns
<1>10. FutureUntouched' /\ ConfirmedPrefix' /\ NoOpenQuestionBehind'
  BY <1>1, <1>4 DEF FutureUntouched, ConfirmedPrefix, NoOpenQuestionBehind, Turn
<1>11. ReportsAreTrue'
  BY <1>1, <1>2, <1>4, <1>8, TableFacts DEF ReportsAreTrue, TableIsTrue, TypeOK
<1> QED BY <1>5, <1>6, <1>7, <1>8, <1>9, <1>10, <1>11

\* A thread ends, in its turn or long after it.
LEMMA CallEndsStep ==
  ASSUME IInv, NEW t \in Turn, NEW i \in Position, NEW a \in Answer, CallEnds(t, i, a)
  PROVE  IInv'
<1> USE DEF IInv, CallEnds
<1>1. /\ calls'[t][i] = a /\ calls[t][i] = "running"
      /\ \A u \in Turn, j \in Position : <<u, j>> # <<t, i>> => calls'[u][j] = calls[u][j]
  BY DEF TypeOK
<1>2. a # "none" /\ a # "running"
  BY ConfirmedSuccessAssumption DEF Answer, DeviceOutcome
<1>3. TypeOK'
  BY DEF TypeOK, CallState
<1>4. pending = <<t, i>> /\ turn = t /\ i \in DOMAIN outcomes /\ outcomes[i] = "unknown"
  BY <1>1 DEF OnlyPendingRuns, PendingIsUnknown, NoCall, Turn, TypeOK
<1>5. PendingIsUnknown' /\ LoopInvariant' /\ IdlePublished'
  BY DEF PendingIsUnknown, LoopInvariant, IdlePublished
<1>6. TableIsTrue'
  BY <1>1, <1>2, <1>4, ConfirmedSuccessAssumption DEF TableIsTrue, Agrees
<1>7. OnlyPendingRuns'
  BY <1>1, <1>2 DEF OnlyPendingRuns
<1>8. FutureUntouched' /\ NoOpenQuestionBehind'
  BY <1>1, <1>4 DEF FutureUntouched, NoOpenQuestionBehind, Turn
<1>9. ConfirmedPrefix'
  BY <1>1, ConfirmedSuccessAssumption DEF ConfirmedPrefix, Position
<1>10. ReportsAreTrue'
  <2> SUFFICES ASSUME NEW u \in Turn, NEW j \in DOMAIN reported[u]
               PROVE  Agrees(reported[u][j], calls'[u][j])
    BY DEF ReportsAreTrue
  <2>1. j \in Position BY TableFacts DEF TypeOK
  <2>2. Agrees(reported[u][j], calls[u][j]) BY DEF ReportsAreTrue
  <2>3. CASE <<u, j>> = <<t, i>>
    BY <1>1, <1>2, <2>2, <2>3, ConfirmedSuccessAssumption DEF Agrees
  <2>4. CASE <<u, j>> # <<t, i>>
    BY <1>1, <2>1, <2>2, <2>4
  <2> QED BY <2>3, <2>4
<1> QED BY <1>3, <1>5, <1>6, <1>7, <1>8, <1>9, <1>10

\* Every step of the execution preserves the invariant.
LEMMA StepInvariant == IInv /\ [Next]_vars => IInv'
<1> SUFFICES ASSUME IInv, [Next]_vars PROVE IInv' OBVIOUS
<1>1. CASE \E n \in Position : Execute(n)
  BY <1>1, ExecuteStep
<1>2. CASE CallerStep
  BY <1>2, SubmitCallStep, SubmitFailsStep, GiveUpStep, TakeReceiptStep, ReportStep
  DEF CallerStep
<1>6. CASE WaitRaises
  BY <1>6, GiveUpStep
<1>3. CASE \E t \in Turn : Reconcile(t)
  BY <1>3, ReconcileStep
<1>4. CASE \E t \in Turn, i \in Position, a \in Answer : CallEnds(t, i, a)
  BY <1>4, CallEndsStep
<1>5. CASE UNCHANGED vars
  BY <1>5 DEF vars, IInv, TypeOK, PendingIsUnknown, LoopInvariant, TableIsTrue,
     OnlyPendingRuns, FutureUntouched, IdlePublished, ConfirmedPrefix, ReportsAreTrue,
     NoOpenQuestionBehind
<1> QED BY <1>1, <1>2, <1>3, <1>4, <1>5, <1>6 DEF Next

-------------------------------------------------------------------------------
(* The theorems.                                                            *)

\* The strengthened invariant holds of every reachable state.
THEOREM Invariance == Spec => []IInv
<1>1. Init => IInv BY InitInvariant
<1>2. IInv /\ [Next]_vars => IInv' BY StepInvariant
<1> QED BY <1>1, <1>2, PTL DEF Spec

\* Every variable keeps its type, whatever the receipts and their order.
THEOREM TypeCorrect == Spec => []TypeOK
<1>1. IInv => TypeOK BY DEF IInv
<1> QED BY <1>1, Invariance, PTL

\* Two device calls never run at once, across all turns: a call that outlived
\* its deadline keeps every later submission out.
THEOREM CallsNeverOverlap == Spec => []NoOverlap
<1>1. IInv => NoOverlap
  BY DEF IInv, OnlyPendingRuns, NoOverlap
<1> QED BY <1>1, Invariance, PTL

\* A command reaches its device behind confirmed successes only.
THEOREM ListsStopAtFirstFailure == Spec => []ConfirmedPrefix
<1>1. IInv => ConfirmedPrefix BY DEF IInv
<1> QED BY <1>1, Invariance, PTL

\* A free caller is blocked by exactly one unknown entry, the retained call's.
THEOREM BlockingIsExact == Spec => []BlockedByOneUnknown
<1>1. IInv => BlockedByOneUnknown
  BY DEF IInv, PendingIsUnknown, BlockedByOneUnknown
<1> QED BY <1>1, Invariance, PTL

\* Nothing published is contradicted by the devices, then or later.
THEOREM PublishedResultsAreTrue == Spec => [](ReportsAreTrue /\ NoOpenQuestionBehind)
<1>1. IInv => ReportsAreTrue /\ NoOpenQuestionBehind BY DEF IInv
<1> QED BY <1>1, Invariance, PTL

\* A published entry changes at most from unknown to the confirmed receipt.
THEOREM PublishedResultsOnlyResolve == Spec => ReportsOnlyResolve
<1> DEFINE Resolves ==
      \A t \in Turn : reported[t] # NoTable =>
        /\ DOMAIN reported'[t] = DOMAIN reported[t]
        /\ \A i \in DOMAIN reported[t] :
             reported'[t][i] # reported[t][i] =>
               reported[t][i] = "unknown" /\ reported'[t][i] \in Confirmed
<1>1. ASSUME IInv, Next PROVE Resolves
  <2>1. CASE Report
    BY <1>1, <2>1 DEF Report, IInv, LoopInvariant, TypeOK
  <2>2. CASE \E t \in Turn : Reconcile(t)
    <3> PICK t \in Turn : Reconcile(t) BY <2>2
    <3>1. /\ turn \in Turn /\ t = turn /\ FirstUnknown \in DOMAIN outcomes
          /\ outcomes[FirstUnknown] = "unknown" /\ CallOf(pending) \in Confirmed
          /\ reported[turn] = outcomes
      BY <1>1, FirstUnknownIsPending
      DEF Reconcile, Blocked, IInv, PendingIsUnknown, IdlePublished
    <3>2. /\ reported'[turn] = [outcomes EXCEPT ![FirstUnknown] = CallOf(pending)]
          /\ \A u \in Turn : u # turn => reported'[u] = reported[u]
      BY <1>1, <3>1 DEF Reconcile, IInv, TypeOK
    <3>3. /\ DOMAIN reported'[turn] = DOMAIN outcomes
          /\ reported'[turn][FirstUnknown] = CallOf(pending)
          /\ \A i \in DOMAIN outcomes : i # FirstUnknown => reported'[turn][i] = outcomes[i]
      BY <1>1, <3>1, <3>2, TableFacts DEF IInv, TypeOK
    <3> QED BY <3>1, <3>2, <3>3
  <2>3. CASE UNCHANGED reported BY <2>3
  <2> QED
    BY <1>1, <2>1, <2>2, <2>3
    DEF Next, CallerStep, Execute, SubmitCall, SubmitFails, WaitTimesOut, WaitRaises,
        TakeNoFact, TakeReceipt, CallEnds
<1>2. IInv /\ [Next]_vars => [Resolves]_vars
  BY <1>1
<1> QED BY <1>2, Invariance, PTL DEF Spec, ReportsOnlyResolve

-------------------------------------------------------------------------------
(* Refinement of ActionLedger.                                              *)

\* The mapped ledger, named to speak of its next value.
Rows == [t \in Turn |-> IF t = turn THEN outcomes ELSE reported[t]]

\* Changing one entry of the current table changes that entry of the ledger.
LEMMA RowUpdate ==
  ASSUME TypeOK, turn \in Turn, turn' = turn, UNCHANGED reported,
         NEW i \in DOMAIN outcomes, NEW s,
         outcomes' = [outcomes EXCEPT ![i] = s]
  PROVE  Rows' = [Rows EXCEPT ![turn][i] = s]
BY DEF Rows

\* The execution starts as the ledger does.
LEMMA InitRefinement == Init => Ledger!Init
BY BoundsAssumption DEF Init, Ledger!Init, Ledger!Turn, Turn, NoTable

\* execute() opens a turn of the ledger.
LEMMA ExecuteRefines ==
  ASSUME IInv, NEW n \in Position, Execute(n)
  PROVE  Ledger!OpenTurn(n)
<1>1. turn + 1 \in Turn /\ turn \in 0..MaxTurns /\ pending = NoCall
  BY BoundsAssumption DEF IInv, TypeOK, Turn, Execute, Blocked
<1>2. \A t \in Turn : \A i \in DOMAIN Rows[t] : Rows[t][i] # "unknown"
  <2> SUFFICES ASSUME NEW t \in Turn, NEW i \in DOMAIN Rows[t]
               PROVE  Rows[t][i] # "unknown"
    OBVIOUS
  <2>1. CASE t = turn
    BY <1>1, <2>1 DEF Rows, IInv, PendingIsUnknown, NoCall, Turn
  <2>2. CASE t < turn
    BY <2>2, <1>1 DEF Rows, IInv, NoOpenQuestionBehind, Turn
  <2>3. CASE t > turn
    BY <2>3, <1>1, NoTableType DEF Rows, IInv, FutureUntouched, Turn
  <2> QED BY <1>1, <2>1, <2>2, <2>3 DEF Turn
<1>3. Rows' = [Rows EXCEPT ![turn + 1] = [i \in 1..n |-> "not_executed"]]
  BY <1>1 DEF Rows, Execute, IInv, IdlePublished, Turn
<1> QED
  BY <1>1, <1>2, <1>3
  DEF Ledger!OpenTurn, Ledger!NothingInDoubt, Ledger!InDoubt, Ledger!Turn, Turn, Rows, Execute

\* Where the loop stands, the ledger has a command due.
LEMMA LoopPosition ==
  ASSUME IInv, step = "submit"
  PROVE  /\ turn \in Turn /\ index \in DOMAIN outcomes /\ index \in Position
         /\ Ledger!Due(index)
<1>1. /\ turn \in Turn /\ index \in DOMAIN outcomes /\ index \in Position
      /\ outcomes[index] = "not_executed"
      /\ \A j \in DOMAIN outcomes : j < index => outcomes[j] \in ConfirmedSuccess
  BY TableFacts DEF IInv, LoopInvariant, TypeOK
<1>2. PICK n \in 0..MaxCommands : outcomes \in [1..n -> Status]
  BY DEF IInv, TypeOK, Table
<1>3. \A j \in 1..(index - 1) : j \in DOMAIN outcomes /\ j < index
  BY <1>1, <1>2 DEF Position
<1>4. Rows[turn] = outcomes
  BY <1>1 DEF Rows
<1> QED
  BY <1>1, <1>3, <1>4 DEF Ledger!Due, Ledger!Turn, Turn, Rows

\* A submission issues the due command, or it is refused.
LEMMA SubmitRefines ==
  ASSUME IInv, SubmitCall \/ SubmitFails
  PROVE  \E i \in Position : Ledger!Issue(i) \/ Ledger!Refuse(i)
<1>1. step = "submit" /\ step' # "idle"
  BY DEF SubmitCall, SubmitFails
<1>2. turn \in Turn /\ index \in DOMAIN outcomes /\ index \in Position /\ Ledger!Due(index)
  BY <1>1, LoopPosition
<1>3. CASE SubmitCall
  <2>1. Rows' = [Rows EXCEPT ![turn][index] = "unknown"]
    BY <1>2, <1>3, RowUpdate DEF SubmitCall, IInv
  <2> QED BY <1>1, <1>2, <1>3, <2>1 DEF Ledger!Issue, Rows, Ledger!Turn, Turn, SubmitCall
<1>4. CASE SubmitFails
  <2>1. Rows' = [Rows EXCEPT ![turn][index] = "failed"]
    BY <1>2, <1>4, RowUpdate DEF SubmitFails, IInv
  <2> QED BY <1>1, <1>2, <1>4, <2>1 DEF Ledger!Refuse, Rows, Ledger!Turn, Turn, SubmitFails
<1> QED BY <1>3, <1>4

\* A receipt taken in time settles an entry of the ledger.
LEMMA TakeReceiptRefines ==
  ASSUME IInv, TakeReceipt
  PROVE  \E i \in Position, s \in Confirmed : Ledger!Settle(i, s)
<1>1. /\ turn \in Turn /\ index \in DOMAIN outcomes /\ index \in Position
      /\ outcomes[index] = "unknown" /\ CallOf(pending) \in Confirmed
      /\ step # "idle" /\ step' # "idle"
  BY TableFacts DEF TakeReceipt, IInv, LoopInvariant, PendingIsUnknown, TypeOK
<1>2. Rows' = [Rows EXCEPT ![turn][index] = CallOf(pending)]
  BY <1>1, RowUpdate DEF TakeReceipt, IInv
<1>3. PICK i \in Position, s \in Confirmed : i = index /\ s = CallOf(pending)
  BY <1>1
<1>4. Ledger!Settle(i, s)
  BY <1>1, <1>2, <1>3 DEF Ledger!Settle, Ledger!InDoubt, Rows, Ledger!Turn, Turn, TakeReceipt
<1> QED BY <1>4

\* So does one taken by reconcile().
LEMMA ReconcileRefines ==
  ASSUME IInv, NEW t \in Turn, Reconcile(t)
  PROVE  \E i \in Position, s \in Confirmed : Ledger!Settle(i, s)
<1> DEFINE k == FirstUnknown
<1>1. /\ turn \in Turn /\ t = turn /\ k \in DOMAIN outcomes /\ k \in Position
      /\ outcomes[k] = "unknown" /\ CallOf(pending) \in Confirmed
  BY FirstUnknownIsPending, TableFacts DEF IInv, TypeOK, Reconcile, Blocked, PendingIsUnknown
<1>2. Rows' = [Rows EXCEPT ![turn][k] = CallOf(pending)]
  BY <1>1 DEF Rows, Reconcile, IInv, TypeOK
<1>3. PICK i \in Position, s \in Confirmed : i = k /\ s = CallOf(pending)
  BY <1>1
<1>4. Ledger!Settle(i, s)
  BY <1>1, <1>2, <1>3 DEF Ledger!Settle, Ledger!InDoubt, Rows, Ledger!Turn, Turn, Reconcile
<1> QED BY <1>4

\* The report closes the ledger's list.
LEMMA ReportRefines ==
  ASSUME IInv, Report
  PROVE  Ledger!Close
<1>1. turn \in Turn /\ turn' = turn /\ outcomes' = outcomes
      /\ reported' = [reported EXCEPT ![turn] = outcomes]
  BY DEF Report, IInv, LoopInvariant
<1>2. Rows' = Rows
  BY <1>1 DEF Rows, IInv, TypeOK
<1> QED BY <1>1, <1>2 DEF Ledger!Close, Rows, Ledger!Turn, Turn, Report

\* The steps of the threads and of a caller that gives up change no entry.
LEMMA SilentSteps ==
  ASSUME IInv,
         \/ WaitTimesOut \/ WaitRaises \/ TakeNoFact \/ UNCHANGED vars
         \/ \E t \in Turn, i \in Position, a \in Answer : CallEnds(t, i, a)
  PROVE  UNCHANGED Ledger!vars
BY DEF WaitTimesOut, WaitRaises, TakeNoFact, CallEnds, vars, Ledger!vars, Ledger!Turn

\* Execution with its threads, deadlines, failed submissions and late receipts
\* implements the abstract ledger: every step is a ledger step or a stutter.
THEOREM ExecutionKeepsLedger == Spec => KeepsLedger
<1>1. Init => Ledger!Init BY InitRefinement
<1>2. ASSUME IInv, [Next]_vars PROVE [Ledger!Next]_(Ledger!vars)
  <2>1. CASE \E n \in Position : Execute(n)
    BY <1>2, <2>1, ExecuteRefines DEF Ledger!Next, Position
  <2>2. CASE SubmitCall \/ SubmitFails
    BY <1>2, <2>2, SubmitRefines DEF Ledger!Next, Position
  <2>3. CASE TakeReceipt
    BY <1>2, <2>3, TakeReceiptRefines DEF Ledger!Next, Position, Confirmed, Ledger!Settled
  <2>4. CASE \E t \in Turn : Reconcile(t)
    BY <1>2, <2>4, ReconcileRefines DEF Ledger!Next, Position, Confirmed, Ledger!Settled
  <2>5. CASE Report
    BY <1>2, <2>5, ReportRefines DEF Ledger!Next
  <2>6. CASE \/ WaitTimesOut \/ WaitRaises \/ TakeNoFact \/ UNCHANGED vars
             \/ \E t \in Turn, i \in Position, a \in Answer : CallEnds(t, i, a)
    BY <1>2, <2>6, SilentSteps
  <2> QED BY <1>2, <2>1, <2>2, <2>3, <2>4, <2>5, <2>6 DEF Next, CallerStep
<1>3. IInv /\ [Next]_vars => [Ledger!Next]_(Ledger!vars)
  BY <1>2
<1> QED BY <1>1, <1>3, Invariance, PTL DEF Spec, KeepsLedger, Ledger!Spec
===============================================================================
