------------------------- MODULE OnlineInteractionProofs -------------------------
(***************************************************************************)
(* Proofs about OnlineInteraction for every length of list, number of      *)
(* turns and size of memory.                                               *)
(*                                                                         *)
(* The execution brings its inductive invariant (ActionExecutionProofs).   *)
(* The memory's is proved here.  Its heart is age: only the exchange       *)
(* record() is about to append is younger than everything the memory, the  *)
(* file and the confirmed clears know of, and a summary under way is made  *)
(* of what the memory still holds.                                         *)
(*                                                                         *)
(* What is added is the coupling: the one slot decides who may use the     *)
(* memory and the caller's place decides who may use the execution.  A     *)
(* restart ends the life of an execution and begins another, so the        *)
(* invariant of the execution holds although the execution's own           *)
(* specification does not allow that step.                                 *)
(***************************************************************************)
EXTENDS OnlineInteraction, TLAPS

ExecP == INSTANCE ActionExecutionProofs

-------------------------------------------------------------------------------
(* The memory.                                                             *)

\* Number of exchanges whose content may be anywhere but in record()'s hands.
Known == IF writer = "append" THEN recorded - 1 ELSE recorded

\* Nothing is older than its recording, and all that is remembered is known.
AllKnown ==
  /\ writer = "append" => recorded >= 1
  /\ Memory!ToSet(recent) \subseteq 1..Known
  /\ summary \subseteq 1..Known
  /\ disk.summary \subseteq 1..Known
  /\ forgotten \subseteq 1..Known

\* The summary under way is made of what the memory holds, and a clear under
\* way has emptied it.
UnderWay ==
  /\ writer = "summarize" => prompt = summary \cup Memory!ToSet(recent)
  /\ writer \in Memory!Clearing => summary = {} /\ recent = <<>>

MemoryInv ==
  /\ Memory!TypeOK
  /\ AllKnown
  /\ UnderWay
  /\ Memory!RecentIsFresh
  /\ Memory!ForgottenStaysForgotten

\* The empty list: nothing in it, nothing out of order.
LEMMA EmptyRecent ==
  /\ Memory!ToSet(<<>>) = {} /\ Len(<<>>) = 0 /\ DOMAIN <<>> = {}
  /\ \A S : <<>> \in Seq(S)
BY DEF Memory!ToSet

\* The number of exchanges is bounded.
LEMMA MaxIsNat == Memory!Configuration => MaxExchanges \in Nat
BY DEF Memory!Configuration

\* The members of a list.
LEMMA ElementsInSet ==
  ASSUME NEW S, NEW s \in Seq(S)
  PROVE  /\ \A i \in 1..Len(s) : s[i] \in Memory!ToSet(s)
         /\ Memory!ToSet(s) = {s[i] : i \in 1..Len(s)}
<1>1. DOMAIN s = 1..Len(s)
  OBVIOUS
<1> QED
  BY <1>1 DEF Memory!ToSet

\* The recent list after the exchange c, younger than all of them, joined it:
\* the last RecentTurns of them, in their order.
LEMMA KeepRecentFacts ==
  ASSUME Memory!Configuration, NEW s \in Seq(Nat), NEW c \in Nat, NEW k, k = Memory!KeepRecent(Append(s, c)),
         \A i \in 1..Len(s) : s[i] < c,
         \A i, j \in 1..Len(s) : i < j => s[i] < s[j]
  PROVE  /\ k \in Seq(Nat)
         /\ Len(k) <= RecentTurns
         /\ \A i, j \in 1..Len(k) : i < j => k[i] < k[j]
         /\ Memory!ToSet(k) \subseteq Memory!ToSet(s) \cup {c}
<1> DEFINE a == Append(s, c)
<1>1. RecentTurns \in Nat /\ Len(s) \in Nat
  BY DEF Memory!Configuration
<1>2. /\ a \in Seq(Nat) /\ Len(a) = Len(s) + 1
      /\ \A i \in 1..Len(a) : a[i] = IF i \in 1..Len(s) THEN s[i] ELSE c
  OBVIOUS
<1>3. k = Memory!KeepRecent(a)
  OBVIOUS
<1> HIDE DEF a
<1>4. \A i, j \in 1..Len(a) : i < j => a[i] < a[j]
  <2> SUFFICES ASSUME NEW i \in 1..Len(a), NEW j \in 1..Len(a), i < j
               PROVE  a[i] < a[j]
    OBVIOUS
  <2>1. i \in 1..Len(s) /\ a[i] = s[i]
    BY <1>1, <1>2
  <2>2. CASE j \in 1..Len(s)
    BY <1>2, <2>1, <2>2
  <2>3. CASE j \notin 1..Len(s)
    BY <1>2, <2>1, <2>3
  <2> QED
    BY <2>2, <2>3
<1>5. \A i \in 1..Len(a) : a[i] \in Memory!ToSet(s) \cup {c}
  BY <1>2, ElementsInSet
<1>6. /\ k \in Seq(Nat) /\ Len(k) <= RecentTurns
      /\ \A i, j \in 1..Len(k) : i < j => k[i] < k[j]
      /\ \A i \in 1..Len(k) : k[i] \in Memory!ToSet(s) \cup {c}
  <2>1. CASE Len(a) > RecentTurns
    <3>0. Len(a) - RecentTurns \in Nat
      BY <1>1, <1>2, <2>1
    <3>1. PICK d \in Nat : d = Len(a) - RecentTurns
      BY <3>0
    <3>2. d + 1 = Len(a) - RecentTurns + 1
      BY <1>1, <1>2, <3>1
    <3>3. k = SubSeq(a, d + 1, Len(a))
      BY <1>3, <2>1, <3>2 DEF Memory!KeepRecent
    <3>4. k \in Seq(Nat) /\ Len(k) = RecentTurns
      BY <1>1, <1>2, <2>1, <3>1, <3>3
    <3>5. \A i \in 1..Len(k) : k[i] = a[i + d]
      BY <1>1, <1>2, <2>1, <3>1, <3>3
    <3>6. \A i \in 1..Len(k) : i + d \in 1..Len(a)
      BY <1>1, <1>2, <3>1, <3>4
    <3>7. \A i, j \in 1..Len(k) : i < j => i + d < j + d
      BY <3>1, <3>4
    <3>8. \A i, j \in 1..Len(k) : i < j => k[i] < k[j]
      BY <1>4, <3>5, <3>6, <3>7
    <3>9. \A i \in 1..Len(k) : k[i] \in Memory!ToSet(s) \cup {c}
      BY <1>5, <3>5, <3>6
    <3> QED
      BY <1>1, <3>4, <3>8, <3>9
  <2>2. CASE ~(Len(a) > RecentTurns)
    <3>1. k = a
      BY <1>3, <2>2 DEF Memory!KeepRecent
    <3> QED
      BY <1>1, <1>2, <1>4, <1>5, <2>2, <3>1
  <2> QED
    BY <2>1, <2>2
<1> QED
  BY <1>6, ElementsInSet

\* The memory starts empty.
LEMMA MemoryStarts == Memory!Configuration /\ Memory!Init => MemoryInv
<1> SUFFICES ASSUME Memory!Configuration, Memory!Init PROVE MemoryInv
  OBVIOUS
<1>1. Memory!TypeOK
  <2>1. disk \in [state : {"missing", "whole"}, summary : SUBSET Memory!Exchange]
    BY DEF Memory!Init, Memory!NoFile
  <2>2. recorded \in 0..MaxExchanges
    BY DEF Memory!Init, Memory!Configuration
  <2>3. recent \in Seq(Memory!Exchange)
    BY EmptyRecent DEF Memory!Init
  <2>4. /\ notice \in BOOLEAN /\ writer \in {"none"} \cup Memory!Recording \cup Memory!Clearing
        /\ summary \subseteq Memory!Exchange /\ prompt \subseteq Memory!Exchange /\ forgotten \subseteq Memory!Exchange
    BY DEF Memory!Init
  <2> QED
    BY <2>1, <2>2, <2>3, <2>4 DEF Memory!TypeOK
<1>2. AllKnown /\ UnderWay /\ Memory!ForgottenStaysForgotten
  BY EmptyRecent DEF Memory!Init, AllKnown, UnderWay, Memory!ForgottenStaysForgotten, Memory!NoFile, Memory!Clearing
<1>3. Memory!RecentIsFresh
  BY EmptyRecent DEF Memory!Init, Memory!RecentIsFresh, Memory!Configuration
<1> QED
  BY <1>1, <1>2, <1>3 DEF MemoryInv

\* record() is called: the new exchange is the youngest.
LEMMA RecordKeeps ==
  ASSUME Memory!Configuration, MemoryInv, Memory!Record
  PROVE  MemoryInv'
<1> USE DEF MemoryInv, Memory!Record
<1>1. Memory!TypeOK'
  BY DEF Memory!TypeOK, Memory!Recording, Memory!Configuration
<1>2. Known' = Known /\ recorded \in Nat
  BY DEF Known, Memory!Quiescent, Memory!TypeOK
<1>3. AllKnown'
  BY <1>2 DEF AllKnown
<1>4. UnderWay'
  BY DEF UnderWay, Memory!Clearing
<1>5. Memory!RecentIsFresh' /\ Memory!ForgottenStaysForgotten'
  BY DEF Memory!RecentIsFresh, Memory!ForgottenStaysForgotten
<1> QED
  BY <1>1, <1>3, <1>4, <1>5

\* The exchange joins the recent ones and the prompt is built.
LEMMA AppendKeeps ==
  ASSUME Memory!Configuration, MemoryInv, Memory!AppendExchange
  PROVE  MemoryInv'
<1> USE DEF MemoryInv
<1>1. /\ recent' = Memory!KeepRecent(Append(recent, recorded))
      /\ UNCHANGED <<recorded, summary, disk, forgotten>> /\ notice' = FALSE
      /\ writer = "append"
      /\ \/ writer' = "none" /\ prompt' = prompt
         \/ writer' = "summarize" /\ prompt' = summary \cup Memory!ToSet(recent')
  BY DEF Memory!AppendExchange, Memory!Current
<1>2. recorded \in Nat /\ recorded \in Memory!Exchange /\ recorded >= 1
  BY <1>1, MaxIsNat DEF Memory!TypeOK, AllKnown, Memory!Exchange
<1>3. Known = recorded - 1 /\ Known' = recorded
  BY <1>1 DEF Known
<1>4. 1..Known \subseteq 1..Known' /\ recorded \in 1..Known' /\ recorded \notin 1..Known
  BY <1>2, <1>3
<1>5. recent \in Seq(Memory!Exchange) /\ recent \in Seq(Nat)
  <2>1. recent \in Seq(Memory!Exchange)
    BY DEF Memory!TypeOK
  <2>2. recent \in [1..Len(recent) -> Memory!Exchange] /\ Len(recent) \in Nat
    BY <2>1
  <2>3. recent \in [1..Len(recent) -> Nat]
    BY <2>2 DEF Memory!Exchange
  <2> QED
    BY <2>1, <2>2, <2>3
<1>6. \A i \in 1..Len(recent) : recent[i] < recorded
  <2>1. \A i \in 1..Len(recent) : recent[i] \in 1..Known
    BY <1>5, ElementsInSet DEF AllKnown
  <2> QED
    BY <1>2, <1>3, <2>1
<1>7. \A i, j \in 1..Len(recent) : i < j => recent[i] < recent[j]
  <2>1. DOMAIN recent = 1..Len(recent)
    BY <1>5
  <2> QED
    BY <2>1 DEF Memory!RecentIsFresh
<1>8. /\ recent' \in Seq(Nat) /\ Len(recent') <= RecentTurns
      /\ \A i, j \in 1..Len(recent') : i < j => recent'[i] < recent'[j]
      /\ Memory!ToSet(recent') \subseteq Memory!ToSet(recent) \cup {recorded}
  BY <1>1, <1>2, <1>5, <1>6, <1>7, KeepRecentFacts
<1>9. recent' \in Seq(Memory!Exchange) /\ Memory!ToSet(recent') \subseteq Memory!Exchange
  <2>1. Memory!ToSet(recent') \subseteq Memory!Exchange
    BY <1>2, <1>3, <1>8, MaxIsNat DEF AllKnown, Memory!Exchange
  <2>2. \A i \in 1..Len(recent') : recent'[i] \in Memory!Exchange
    BY <1>8, <2>1, ElementsInSet
  <2> QED
    BY <1>8, <2>1, <2>2
<1>10. Memory!TypeOK'
  <2>1. prompt' \subseteq Memory!Exchange
    BY <1>1, <1>9 DEF Memory!TypeOK
  <2>2. writer' \in {"none"} \cup Memory!Recording \cup Memory!Clearing
    BY <1>1 DEF Memory!Recording
  <2> QED
    BY <1>1, <1>9, <2>1, <2>2 DEF Memory!TypeOK
<1>11. AllKnown'
  BY <1>1, <1>4, <1>8 DEF AllKnown
<1>12. UnderWay'
  BY <1>1 DEF UnderWay, Memory!Clearing
<1>13. Memory!RecentIsFresh'
  <2>1. Memory!ToSet(recent') \cap summary = {}
    BY <1>4, <1>8 DEF Memory!RecentIsFresh, AllKnown
  <2>2. DOMAIN recent' = 1..Len(recent')
    BY <1>8
  <2> QED
    BY <1>1, <1>8, <2>1, <2>2 DEF Memory!RecentIsFresh
<1>14. Memory!ForgottenStaysForgotten'
  BY <1>1, <1>4, <1>8 DEF Memory!ForgottenStaysForgotten, AllKnown
<1> QED
  BY <1>10, <1>11, <1>12, <1>13, <1>14

\* The summary replaces the exchanges it was made of.
LEMMA SummaryKeeps ==
  ASSUME Memory!Configuration, MemoryInv, Memory!SummaryArrives
  PROVE  MemoryInv'
<1> USE DEF MemoryInv, Memory!SummaryArrives
<1>1. Known' = Known /\ prompt = summary \cup Memory!ToSet(recent)
  BY DEF Known, UnderWay
<1>2. Memory!TypeOK'
  <2>1. recent' \in Seq(Memory!Exchange)
    BY EmptyRecent
  <2> QED
    BY <2>1 DEF Memory!TypeOK, Memory!Recording
<1>3. AllKnown'
  BY <1>1, EmptyRecent DEF AllKnown
<1>5. UnderWay'
  BY DEF UnderWay, Memory!Clearing
<1>4. Memory!RecentIsFresh' /\ Memory!ForgottenStaysForgotten'
  BY <1>1, EmptyRecent DEF Memory!RecentIsFresh, Memory!ForgottenStaysForgotten, Memory!Configuration
<1> QED
  BY <1>2, <1>3, <1>5, <1>4

\* The steps of a save, and the end of a failed summary, change no content but
\* the file's; a confirmed clear forgets what the memory has let go.
LEMMA SaveKeeps ==
  ASSUME Memory!Configuration, MemoryInv, Memory!SummaryFails \/ Memory!WriteTemporary \/ Memory!ReplaceFile \/ Memory!SaveFails
  PROVE  MemoryInv'
<1> USE DEF MemoryInv, Memory!Confirms
<1>1. /\ UNCHANGED <<recorded, recent, summary, notice, prompt>>
      /\ writer # "append" /\ writer' \in {"none", "replace", "clear_replace"}
      /\ writer' = "clear_replace" => writer \in Memory!Clearing
      /\ \/ disk' = disk
         \/ disk' = Memory!File(summary)
      /\ \/ writer \in Memory!Clearing /\ disk' = Memory!File(summary) /\ forgotten' = 1..recorded
         \/ forgotten' = forgotten
  BY DEF Memory!SummaryFails, Memory!WriteTemporary, Memory!ReplaceFile, Memory!SaveFails, Memory!Replacing, Memory!Clearing, Memory!TypeOK, Memory!Recording
<1>2. Known = recorded /\ Known' = recorded
  BY <1>1 DEF Known
<1>3. Memory!TypeOK'
  <2>1. 1..recorded \subseteq Memory!Exchange
    BY MaxIsNat DEF Memory!TypeOK, Memory!Exchange
  <2>2. disk' \in [state : {"missing", "whole"}, summary : SUBSET Memory!Exchange]
    BY <1>1 DEF Memory!TypeOK, Memory!File
  <2>3. writer' \in {"none"} \cup Memory!Recording \cup Memory!Clearing
    BY <1>1 DEF Memory!Recording, Memory!Clearing
  <2> QED
    BY <1>1, <2>1, <2>2, <2>3 DEF Memory!TypeOK
<1>4. AllKnown'
  <2>1. disk'.summary = disk.summary \/ disk'.summary = summary
    BY <1>1 DEF Memory!File
  <2> QED
    BY <1>1, <1>2, <2>1 DEF AllKnown
<1>7. UnderWay'
  BY <1>1 DEF UnderWay, Memory!Clearing
<1>5. Memory!RecentIsFresh'
  BY <1>1 DEF Memory!RecentIsFresh
<1>6. Memory!ForgottenStaysForgotten'
  BY <1>1, EmptyRecent DEF Memory!ForgottenStaysForgotten, UnderWay, Memory!File
<1> QED
  BY <1>3, <1>4, <1>7, <1>5, <1>6

\* clear() empties the memory first.
LEMMA ClearKeeps ==
  ASSUME Memory!Configuration, MemoryInv, Memory!Clear
  PROVE  MemoryInv'
<1> USE DEF MemoryInv, Memory!Clear
<1>1. Known' = Known
  BY DEF Known, Memory!Quiescent
<1>2. Memory!TypeOK'
  BY EmptyRecent DEF Memory!TypeOK, Memory!Clearing
<1>3. AllKnown' /\ UnderWay'
  BY <1>1, EmptyRecent DEF AllKnown, UnderWay
<1>4. Memory!RecentIsFresh' /\ Memory!ForgottenStaysForgotten'
  BY EmptyRecent DEF Memory!RecentIsFresh, Memory!ForgottenStaysForgotten, Memory!Configuration
<1> QED
  BY <1>2, <1>3, <1>4

\* After a restart only the file speaks.
LEMMA RestartKeeps ==
  ASSUME Memory!Configuration, MemoryInv, Memory!Restart
  PROVE  MemoryInv'
<1> USE DEF MemoryInv, Memory!Restart
<1>1. Known' = recorded /\ 1..Known \subseteq 1..Known' /\ (summary' = {} \/ summary' = disk.summary)
  BY DEF Known, Memory!TypeOK
<1>2. Memory!TypeOK'
  BY <1>1, EmptyRecent DEF Memory!TypeOK
<1>3. AllKnown' /\ UnderWay'
  BY <1>1, EmptyRecent DEF AllKnown, UnderWay, Memory!Clearing
<1>4. Memory!RecentIsFresh' /\ Memory!ForgottenStaysForgotten'
  BY <1>1, EmptyRecent DEF Memory!RecentIsFresh, Memory!ForgottenStaysForgotten, Memory!Configuration
<1> QED
  BY <1>2, <1>3, <1>4

\* Every step of the memory preserves its invariant.
LEMMA MemorySteps == Memory!Configuration /\ MemoryInv /\ [Memory!Next]_(Memory!vars) => MemoryInv'
<1> SUFFICES ASSUME Memory!Configuration, MemoryInv, [Memory!Next]_(Memory!vars) PROVE MemoryInv'
  OBVIOUS
<1>1. CASE Memory!RecordStep
  BY <1>1, AppendKeeps, SummaryKeeps, SaveKeeps DEF Memory!RecordStep
<1>2. CASE UNCHANGED Memory!vars
  BY <1>2 DEF Memory!vars, MemoryInv, Memory!TypeOK, AllKnown, Known, UnderWay, Memory!RecentIsFresh, Memory!ForgottenStaysForgotten
<1> QED
  BY <1>1, <1>2, RecordKeeps, ClearKeeps, RestartKeeps DEF Memory!Next

\* The memory keeps its invariant in the hands of any caller that runs one
\* record() or clear() at a time, crashes and restarts included.
THEOREM MemoryAlone == Memory!Spec => []MemoryInv
<1>1. Memory!Init => MemoryInv
  BY MemoryAssumption, MemoryStarts
<1>2. MemoryInv /\ [Memory!Next]_(Memory!vars) => MemoryInv'
  BY MemoryAssumption, MemorySteps
<1> QED
  BY <1>1, <1>2, PTL DEF Memory!Spec

-------------------------------------------------------------------------------
(* The coupling.                                                           *)

\* The caller is inside execute() exactly while the loop is not idle; while it
\* waits for the model nothing is in doubt.
ExecCoupling ==
  /\ pc = "exec" <=> step # "idle"
  /\ pc = "model" => pending = Exec!NoCall

\* One slot for the two kinds of call: a memory update under way is in it, a
\* clear under way is the caller's own, and on the way from the model to the
\* memory update the slot is still the ended model call's.
SlotCoupling ==
  /\ pc \in {"idle", "model", "exec", "remember", "recording", "clearing"}
  /\ slot \in {"none", "model", "record"}
  /\ model \in Reply \cup {"running"}
  /\ readers = IF model = "running" THEN 1 ELSE 0
  /\ model = "running" => slot = "model"
  /\ pc \in {"model", "exec", "remember"} => slot = "model"
  /\ pc \in {"exec", "remember"} => model # "running"
  /\ writer \in Memory!Recording => slot = "record"
  /\ writer \in Memory!Clearing <=> pc = "clearing"

IInv ==
  /\ ExecP!IInv
  /\ MemoryInv
  /\ ExecCoupling
  /\ SlotCoupling

-------------------------------------------------------------------------------
(* The components' lemmas, for this module's names of their operators.     *)

\* The two instances of each component are one.
LEMMA SameExec ==
  /\ Exec!Init <=> ExecP!Init
  /\ \A n \in ExecP!Position : Exec!Execute(n) <=> ExecP!Execute(n)
  /\ Exec!CallerStep <=> ExecP!CallerStep
  /\ Exec!WaitRaises <=> ExecP!WaitRaises
  /\ \A t \in ExecP!Turn : Exec!Reconcile(t) <=> ExecP!Reconcile(t)
  /\ \A t \in ExecP!Turn, i \in ExecP!Position, a \in ExecP!Answer :
       Exec!CallEnds(t, i, a) <=> ExecP!CallEnds(t, i, a)
  /\ Exec!Turn = ExecP!Turn /\ Exec!Position = ExecP!Position /\ Exec!Answer = ExecP!Answer
<1>1. /\ Exec!Turn = ExecP!Turn /\ Exec!Position = ExecP!Position /\ Exec!Answer = ExecP!Answer
      /\ Exec!NoCall = ExecP!NoCall /\ Exec!Confirmed = ExecP!Confirmed /\ Exec!NoTable = ExecP!NoTable
      /\ \A c : Exec!CallOf(c) = ExecP!CallOf(c)
      /\ Exec!Blocked <=> ExecP!Blocked
      /\ Exec!FirstUnknown = ExecP!FirstUnknown
  BY DEF Exec!Turn, ExecP!Turn, Exec!Position, ExecP!Position, Exec!Answer, ExecP!Answer,
     Exec!DeviceOutcome, ExecP!DeviceOutcome, Exec!NoCall, ExecP!NoCall, Exec!NoTable, ExecP!NoTable,
     Exec!Confirmed, ExecP!Confirmed, Exec!CallOf, ExecP!CallOf, Exec!Blocked, ExecP!Blocked,
     Exec!FirstUnknown, ExecP!FirstUnknown
<1>2. Exec!Init <=> ExecP!Init
  BY <1>1 DEF Exec!Init, ExecP!Init
<1>3. \A n \in ExecP!Position : Exec!Execute(n) <=> ExecP!Execute(n)
  BY <1>1 DEF Exec!Execute, ExecP!Execute
<1>4. Exec!WaitRaises <=> ExecP!WaitRaises
  BY DEF Exec!WaitRaises, ExecP!WaitRaises
<1>5. \A t \in ExecP!Turn : Exec!Reconcile(t) <=> ExecP!Reconcile(t)
  BY <1>1 DEF Exec!Reconcile, ExecP!Reconcile
<1>6. \A t \in ExecP!Turn, i \in ExecP!Position, a \in ExecP!Answer :
        Exec!CallEnds(t, i, a) <=> ExecP!CallEnds(t, i, a)
  BY DEF Exec!CallEnds, ExecP!CallEnds
<1>7. Exec!CallerStep <=> ExecP!CallerStep
  <2>1. \A c : Exec!Done(c) <=> ExecP!Done(c)
    BY <1>1 DEF Exec!Done, ExecP!Done
  <2>2. Exec!GoesOn <=> ExecP!GoesOn
    BY <1>1 DEF Exec!GoesOn, ExecP!GoesOn
  <2>3. Exec!SubmitCall <=> ExecP!SubmitCall
    BY DEF Exec!SubmitCall, ExecP!SubmitCall
  <2>4. Exec!SubmitFails <=> ExecP!SubmitFails
    BY DEF Exec!SubmitFails, ExecP!SubmitFails
  <2>5. Exec!WaitTimesOut <=> ExecP!WaitTimesOut
    BY <2>1 DEF Exec!WaitTimesOut, ExecP!WaitTimesOut
  <2>6. Exec!TakeNoFact <=> ExecP!TakeNoFact
    BY <1>1 DEF Exec!TakeNoFact, ExecP!TakeNoFact
  <2>7. Exec!TakeReceipt <=> ExecP!TakeReceipt
    BY <1>1, <2>2 DEF Exec!TakeReceipt, ExecP!TakeReceipt
  <2>8. Exec!Report <=> ExecP!Report
    BY DEF Exec!Report, ExecP!Report
  <2> QED
    BY <2>3, <2>4, <2>5, <2>6, <2>7, <2>8 DEF Exec!CallerStep, ExecP!CallerStep
<1> QED
  BY <1>1, <1>2, <1>3, <1>4, <1>5, <1>6, <1>7

\* The components' invariants hold at the start, also at a start that is a step.
LEMMA ExecStart == Exec!Init => ExecP!IInv
BY ExecutionAssumption, SameExec, ExecP!InitInvariant
   DEF Exec!ConfirmedSuccessAssumption, Exec!BoundsAssumption,
       ExecP!ConfirmedSuccessAssumption, ExecP!BoundsAssumption

\* The same at the restart of the process.
LEMMA ExecRestart == (Exec!Init)' => (ExecP!IInv)'
BY ExecStart, PTL

\* A step of the execution, or of something else, keeps its invariant.
LEMMA ExecKeeps ==
  ASSUME ExecP!IInv, ExecP!Next \/ UNCHANGED execVars
  PROVE  (ExecP!IInv)'
<1>1. [ExecP!Next]_(ExecP!vars)
  BY DEF execVars, ExecP!vars
<1> QED
  BY <1>1, ExecutionAssumption, ExecP!StepInvariant
  DEF Exec!ConfirmedSuccessAssumption, Exec!BoundsAssumption,
      ExecP!ConfirmedSuccessAssumption, ExecP!BoundsAssumption

\* The same for the memory.
LEMMA MemoryKeeps ==
  ASSUME MemoryInv, Memory!Next \/ UNCHANGED memoryVars
  PROVE  (MemoryInv)'
<1>1. [Memory!Next]_(Memory!vars)
  BY DEF memoryVars, Memory!vars
<1> QED
  BY <1>1, MemoryAssumption, MemorySteps

-------------------------------------------------------------------------------
(* What each step does to each component.                                  *)

\* Every step is a step of the execution, leaves it alone, or restarts it.
LEMMA ExecView == Next => ExecP!Next \/ UNCHANGED execVars \/ (Exec!Init)'
<1> SUFFICES ASSUME Next PROVE ExecP!Next \/ UNCHANGED execVars \/ (Exec!Init)'
  OBVIOUS
<1>1. CASE RefuseTurn \/ AskModel \/ StartClear \/ StartRecordRaises \/ RecordThread
  BY <1>1 DEF RefuseTurn, AskModel, StartClear, StartRecordRaises, RecordThread
<1>2. CASE \E r \in Reply : ModelEnds(r)
  BY <1>2 DEF ModelEnds
<1>3. CASE Reconcile
  BY <1>3, SameExec DEF Reconcile, ExecP!Next
<1>4. CASE ExecutionRaises
  BY <1>4, SameExec DEF ExecutionRaises, ExecP!Next
<1>5. CASE DeviceThread
  BY <1>5, SameExec DEF DeviceThread, ExecP!Next
<1>6. CASE Restart
  BY <1>6 DEF Restart, Exec!Init
<1>7. CASE CallerStep \/ ClearStep
  <2>1. CASE ModelTimesOut \/ ReplyRejected \/ ReplyIsChat
    BY <2>1 DEF ModelTimesOut, ReplyRejected, ReplyIsChat
  <2>2. CASE \E n \in Exec!Position : ReplyIsList(n)
    BY <2>2, SameExec DEF ReplyIsList, ExecP!Next
  <2>3. CASE ExecutionStep
    BY <2>3, SameExec DEF ExecutionStep, ExecP!Next
  <2>4. CASE StartRecord \/ RecordReturns \/ RecordTimesOut \/ ClearStep
    BY <2>4 DEF StartRecord, RecordReturns, RecordTimesOut, ClearStep
  <2> QED
    BY <1>7, <2>1, <2>2, <2>3, <2>4 DEF CallerStep
<1> QED
  BY <1>1, <1>2, <1>3, <1>4, <1>5, <1>6, <1>7 DEF Next

\* Every step is a step of the memory or leaves it alone: in particular a clear
\* starts only while nothing else uses the memory.
LEMMA MemoryView ==
  ASSUME MemoryInv, SlotCoupling, Next
  PROVE  Memory!Next \/ UNCHANGED memoryVars
<1>1. CASE RefuseTurn \/ AskModel \/ StartRecordRaises \/ Reconcile \/ ExecutionRaises \/ DeviceThread
  BY <1>1 DEF RefuseTurn, AskModel, StartRecordRaises, Reconcile, ExecutionRaises, DeviceThread
<1>2. CASE \E r \in Reply : ModelEnds(r)
  BY <1>2 DEF ModelEnds
<1>3. CASE StartClear
  <2>1. writer \in {"none"} \cup Memory!Recording \cup Memory!Clearing
    BY DEF MemoryInv, Memory!TypeOK
  <2>2. writer = "none"
    BY <1>3, <2>1 DEF StartClear, MayClear, InFlight, SlotCoupling
  <2> QED
    BY <1>3, <2>2 DEF StartClear, Memory!Next, Memory!Clear, Memory!Quiescent
<1>4. CASE RecordThread
  BY <1>4 DEF RecordThread, Memory!Next
<1>5. CASE Restart
  BY <1>5 DEF Restart, Memory!Next
<1>6. CASE CallerStep \/ ClearStep
  <2>1. CASE ModelTimesOut \/ ReplyRejected \/ ReplyIsChat \/ ExecutionStep \/ RecordReturns \/ RecordTimesOut
    BY <2>1 DEF ModelTimesOut, ReplyRejected, ReplyIsChat, ExecutionStep, RecordReturns, RecordTimesOut
  <2>2. CASE \E n \in Exec!Position : ReplyIsList(n)
    BY <2>2 DEF ReplyIsList
  <2>3. CASE StartRecord
    BY <2>3 DEF StartRecord, Memory!Next
  <2>4. CASE ClearStep
    BY <2>4 DEF ClearStep, Memory!Next, Memory!RecordStep
  <2> QED
    BY <1>6, <2>1, <2>2, <2>3, <2>4 DEF CallerStep
<1> QED
  BY <1>1, <1>2, <1>3, <1>4, <1>5, <1>6 DEF Next

\* The caller's place follows the execution's loop.
LEMMA ExecCouplingKept ==
  ASSUME ExecP!IInv, ExecCoupling, SlotCoupling, Next
  PROVE  ExecCoupling'
<1> USE DEF ExecCoupling
<1>1. CASE RefuseTurn \/ StartClear \/ StartRecordRaises \/ RecordThread
  BY <1>1 DEF RefuseTurn, StartClear, StartRecordRaises, RecordThread, Accepts, MayClear, execVars
<1>2. CASE AskModel
  BY <1>2 DEF AskModel, Accepts, Exec!Blocked, execVars
<1>3. CASE \E r \in Reply : ModelEnds(r)
  BY <1>3 DEF ModelEnds, execVars
<1>4. CASE Reconcile
  BY <1>4 DEF Reconcile, Exec!Reconcile
<1>5. CASE ExecutionRaises
  BY <1>5 DEF ExecutionRaises, Exec!WaitRaises
<1>6. CASE DeviceThread
  BY <1>6 DEF DeviceThread, Exec!CallEnds
<1>7. CASE Restart
  BY <1>7 DEF Restart
<1>8. CASE CallerStep \/ ClearStep
  <2>1. CASE ModelTimesOut \/ ReplyRejected \/ ReplyIsChat
    BY <2>1 DEF ModelTimesOut, ReplyRejected, ReplyIsChat, execVars
  <2>2. CASE \E n \in Exec!Position : ReplyIsList(n)
    BY <2>2 DEF ReplyIsList, Exec!Execute
  <2>3. CASE ExecutionStep
    BY <2>3 DEF ExecutionStep
  <2>4. CASE StartRecord \/ RecordReturns \/ RecordTimesOut
    BY <2>4 DEF StartRecord, RecordReturns, RecordTimesOut, execVars
  <2>5. CASE ClearStep
    BY <2>5 DEF ClearStep, execVars
  <2> QED
    BY <1>8, <2>1, <2>2, <2>3, <2>4, <2>5 DEF CallerStep
<1> QED
  BY <1>1, <1>2, <1>3, <1>4, <1>5, <1>6, <1>7, <1>8 DEF Next

\* The slot goes on telling who uses the memory.
LEMMA SlotCouplingKept ==
  ASSUME MemoryInv, ExecCoupling, SlotCoupling, Next
  PROVE  SlotCoupling'
<1> USE DEF SlotCoupling
<1>1. CASE RefuseTurn
  BY <1>1 DEF RefuseTurn, Accepts, InFlight, memoryVars
<1>2. CASE AskModel
  BY <1>2 DEF AskModel, Accepts, InFlight, memoryVars
<1>3. CASE StartClear
  BY <1>3 DEF StartClear, MayClear, Memory!Recording, Memory!Clearing
<1>4. CASE StartRecordRaises
  BY <1>4 DEF StartRecordRaises, memoryVars
<1>5. CASE RecordThread
  <2>1. writer \in Memory!Recording /\ slot = "record" /\ UNCHANGED <<pc, slot, model, readers>>
    BY <1>5 DEF RecordThread
  <2>2. writer \notin Memory!Clearing
    BY <2>1 DEF Memory!Recording, Memory!Clearing
  <2>3. writer' \in {"none", "summarize", "save", "replace"}
    <3>1. CASE Memory!AppendExchange
      BY <3>1 DEF Memory!AppendExchange
    <3>2. CASE Memory!SummaryFails \/ Memory!SummaryArrives \/ Memory!ReplaceFile \/ Memory!SaveFails
      BY <3>2 DEF Memory!SummaryFails, Memory!SummaryArrives, Memory!ReplaceFile, Memory!SaveFails
    <3>3. CASE Memory!WriteTemporary
      BY <2>1, <3>3 DEF Memory!WriteTemporary, Memory!Replacing, Memory!Recording
    <3> QED
      BY <1>5, <3>1, <3>2, <3>3 DEF RecordThread, Memory!RecordStep
  <2>4. writer' \notin Memory!Clearing
    BY <2>3 DEF Memory!Clearing
  <2> QED
    BY <2>1, <2>2, <2>4
<1>6. CASE \E r \in Reply : ModelEnds(r)
  BY <1>6 DEF ModelEnds, Reply, memoryVars
<1>7. CASE Reconcile \/ ExecutionRaises \/ DeviceThread
  BY <1>7 DEF Reconcile, ExecutionRaises, DeviceThread, memoryVars
<1>8. CASE Restart
  BY <1>8 DEF Restart, Memory!Restart, Memory!Recording, Memory!Clearing, Reply
<1>9. CASE CallerStep \/ ClearStep
  <2>1. CASE ModelTimesOut \/ ReplyRejected \/ ReplyIsChat
    BY <2>1 DEF ModelTimesOut, ReplyRejected, ReplyIsChat, memoryVars
  <2>2. CASE \E n \in Exec!Position : ReplyIsList(n)
    BY <2>2 DEF ReplyIsList, memoryVars
  <2>3. CASE ExecutionStep
    BY <2>3 DEF ExecutionStep, memoryVars
  <2>4. CASE StartRecord
    BY <2>4 DEF StartRecord, Memory!Record, Memory!Recording, Memory!Clearing
  <2>5. CASE RecordReturns \/ RecordTimesOut
    BY <2>5 DEF RecordReturns, RecordTimesOut, memoryVars
  <2>6. CASE ClearStep
    <3>1. writer \in Memory!Clearing /\ UNCHANGED <<slot, model, readers>>
      BY <2>6 DEF ClearStep
    <3>2. writer' \in {"none", "clear_replace"}
      <4>1. CASE Memory!WriteTemporary
        BY <3>1, <4>1 DEF Memory!WriteTemporary, Memory!Replacing, Memory!Clearing
      <4>2. CASE Memory!ReplaceFile \/ Memory!SaveFails
        BY <4>2 DEF Memory!ReplaceFile, Memory!SaveFails
      <4> QED
        BY <2>6, <4>1, <4>2 DEF ClearStep
    <3>3. pc' = IF writer' = "none" THEN "idle" ELSE "clearing"
      BY <2>6 DEF ClearStep
    <3> QED
      BY <2>6, <3>1, <3>2, <3>3 DEF ClearStep, Memory!Recording, Memory!Clearing
  <2> QED
    BY <1>9, <2>1, <2>2, <2>3, <2>4, <2>5, <2>6 DEF CallerStep
<1> QED
  BY <1>1, <1>2, <1>3, <1>4, <1>5, <1>6, <1>7, <1>8, <1>9 DEF Next

\* The first life starts with the invariant.
LEMMA InitIInv == Init => IInv
<1> SUFFICES ASSUME Init PROVE IInv
  OBVIOUS
<1>1. ExecP!IInv
  BY ExecStart DEF Init
<1>2. MemoryInv
  BY MemoryAssumption, MemoryStarts DEF Init
<1>3. ExecCoupling
  BY DEF Init, ExecCoupling, Exec!Init
<1>4. SlotCoupling
  BY DEF Init, SlotCoupling, Memory!Init, Memory!Recording, Memory!Clearing, Reply
<1> QED
  BY <1>1, <1>2, <1>3, <1>4 DEF IInv

\* Every step of the composition preserves it.
LEMMA NextIInv == IInv /\ [Next]_vars => IInv'
<1> SUFFICES ASSUME IInv, [Next]_vars PROVE IInv'
  OBVIOUS
<1>1. CASE Next
  <2>1. (ExecP!IInv)'
    BY <1>1, ExecView, ExecKeeps, ExecRestart DEF IInv
  <2>2. (MemoryInv)'
    BY <1>1, MemoryView, MemoryKeeps DEF IInv
  <2> QED
    BY <1>1, <2>1, <2>2, ExecCouplingKept, SlotCouplingKept DEF IInv
<1>2. CASE UNCHANGED vars
  <2>1. (ExecP!IInv)'
    BY <1>2, ExecKeeps DEF IInv, vars
  <2>2. (MemoryInv)'
    BY <1>2, MemoryKeeps DEF IInv, vars
  <2>3. ExecCoupling' /\ SlotCoupling'
    BY <1>2 DEF IInv, ExecCoupling, SlotCoupling, vars, execVars, memoryVars
  <2> QED
    BY <2>1, <2>2, <2>3 DEF IInv
<1> QED
  BY <1>1, <1>2

-------------------------------------------------------------------------------
(* Results.                                                                *)

\* The components' invariants and the coupling hold together, through late
\* calls of every kind, clears, reconciliations and restarts.
THEOREM Invariance == Spec => []IInv
<1> QED
  BY InitIInv, NextIInv, PTL DEF Spec

\* Every variable of the composition keeps its type.
THEOREM TypeCorrect == Spec => []TypeOK
<1>1. IInv => TypeOK
  <2> SUFFICES ASSUME IInv PROVE TypeOK
    OBVIOUS
  <2>1. Exec!TypeOK
    BY DEF IInv, ExecP!IInv, ExecP!TypeOK, Exec!TypeOK, ExecP!Table, Exec!Table,
       ExecP!Status, Exec!Status, ExecP!DeviceOutcome, Exec!DeviceOutcome, ExecP!Turn, Exec!Turn,
       ExecP!Position, Exec!Position, ExecP!NoCall, Exec!NoCall, ExecP!CallState, Exec!CallState,
       ExecP!Answer, Exec!Answer
  <2>2. Memory!TypeOK
    BY DEF IInv, MemoryInv
  <2> QED
    BY <2>1, <2>2 DEF IInv, SlotCoupling, TypeOK
<1> QED
  BY Invariance, <1>1, PTL

\* What submit() saw before the model call still holds when the list arrives:
\* execute() is entered with nothing in doubt and its loop at rest.
THEOREM ListsStartFree == Spec => []ExecutePrecondition
<1>1. IInv => ExecutePrecondition
  BY DEF IInv, ExecCoupling, ExecutePrecondition, Exec!Blocked
<1> QED
  BY Invariance, <1>1, PTL

\* No memory update and no clear starts while another is under way: the turns
\* use the memory as its own specification demands.
THEOREM MemoryIsSerialised == Spec => MemoryProtocol
<1>1. Init => Memory!Init
  BY DEF Init
<1>2. IInv /\ [Next]_vars => [Memory!Next]_(Memory!vars)
  BY MemoryView DEF IInv, vars, memoryVars, Memory!vars
<1> QED
  BY Invariance, <1>1, <1>2, PTL DEF Spec, MemoryProtocol, Memory!Spec

\* A confirmed clear_memory() is final, against late records, failed saves and
\* restarts alike.
THEOREM ClearIsFinal == Spec => []ForgottenStaysForgotten
<1>1. IInv => ForgottenStaysForgotten
  BY DEF IInv, MemoryInv, ForgottenStaysForgotten
<1> QED
  BY Invariance, <1>1, PTL

\* The context handed to the model is bounded, in order, and counts no exchange
\* twice.
THEOREM ContextIsFresh == Spec => []RecentIsFresh
<1>1. IInv => RecentIsFresh
  BY DEF IInv, MemoryInv, RecentIsFresh
<1> QED
  BY Invariance, <1>1, PTL

\* The execution's promises survive the composition and the end of the process:
\* one device call at a time, true reports, one entry in doubt at most.
THEOREM ExecutionStaysSafe ==
  Spec => [](ExecP!NoOverlap /\ ExecP!ReportsAreTrue /\ ExecP!BlockedByOneUnknown)
<1>1. IInv => ExecP!NoOverlap /\ ExecP!ReportsAreTrue /\ ExecP!BlockedByOneUnknown
  BY DEF IInv, ExecP!IInv, ExecP!OnlyPendingRuns, ExecP!NoOverlap,
     ExecP!PendingIsUnknown, ExecP!BlockedByOneUnknown
<1> QED
  BY Invariance, <1>1, PTL

\* When a turn comes to its memory update, the memory is free: the update never
\* waits for, nor meets, an earlier one.
THEOREM UpdatesFindMemoryFree == Spec => [](pc = "remember" => writer = "none")
<1>1. IInv => (pc = "remember" => writer = "none")
  BY DEF IInv, SlotCoupling, MemoryInv, Memory!TypeOK, Memory!Recording, Memory!Clearing
<1> QED
  BY Invariance, <1>1, PTL
===============================================================================
