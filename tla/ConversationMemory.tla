-------------------------- MODULE ConversationMemory --------------------------
(***************************************************************************)
(* The conversation's memory (robot_agent/conversation/memory.py): a       *)
(* bounded list of recent exchanges, the summary they are merged into, and *)
(* the file that carries the summary across restarts.                      *)
(*                                                                         *)
(* record() runs on a call thread and is slow in the middle, where it asks *)
(* the model for a summary; clear() runs on the caller's thread; a crash   *)
(* may come at any point, also between the two halves of a save.  An       *)
(* exchange is a number, and a summary is the set of the exchanges whose   *)
(* content it may carry; the empty text is the empty set.                  *)
(***************************************************************************)
EXTENDS Naturals, Sequences, SequencesExt

CONSTANTS
  RecentTurns,     (* recent_turns                                          *)
  SummaryTrigger,  (* summary_trigger                                       *)
  MaxExchanges     (* bound: number of exchanges ever recorded              *)

\* What the constructor accepts; the module that composes the memory assumes it.
Configuration ==
  /\ RecentTurns \in Nat /\ SummaryTrigger \in Nat
  /\ 1 <= SummaryTrigger /\ SummaryTrigger <= RecentTurns
  /\ RecentTurns <= 32
  /\ MaxExchanges \in Nat

Exchange == 1..MaxExchanges

VARIABLES
  recorded,   \* number of exchanges handed to record() so far
  recent,     \* _recent
  summary,    \* _summary
  notice,     \* _notice: the load failure not reported yet
  writer,     \* the point record() or clear() has reached, or "none"
  prompt,     \* what the summary being generated is made of
  disk,       \* the memory file
  forgotten   \* exchanges whose removal clear() has confirmed

vars == <<recorded, recent, summary, notice, writer, prompt, disk, forgotten>>

Recording == {"append", "summarize", "save", "replace"}
Clearing == {"clear_save", "clear_replace"}

File(s) == [state |-> "whole", summary |-> s]
NoFile == [state |-> "missing", summary |-> {}]

Init ==
  /\ recorded = 0
  /\ recent = <<>>
  /\ summary = {}
  /\ notice = FALSE
  /\ writer = "none"
  /\ prompt = {}
  /\ disk = NoFile
  /\ forgotten = {}

-------------------------------------------------------------------------------

\* What the memory asks of its single caller: record() and clear() start only
\* when no earlier one is under way.
Quiescent == writer = "none"

Record ==
  /\ Quiescent
  /\ recorded < MaxExchanges
  /\ recorded' = recorded + 1
  /\ writer' = "append"
  /\ UNCHANGED <<recent, summary, notice, prompt, disk, forgotten>>

\* self._recent[-self._recent_turns:]
KeepRecent(s) == IF Len(s) > RecentTurns THEN SubSeq(s, Len(s) - RecentTurns + 1, Len(s)) ELSE s

\* The exchange record() was called with.
Current == recorded

\* The exchange joins the recent ones; at the trigger the prompt for a new
\* summary is built from the old summary and all of them.
AppendExchange ==
  /\ writer = "append"
  /\ recent' = KeepRecent(Append(recent, Current))
  /\ notice' = FALSE
  /\ IF Len(recent') < SummaryTrigger
     THEN writer' = "none" /\ UNCHANGED prompt
     ELSE writer' = "summarize" /\ prompt' = summary \cup ToSet(recent')
  /\ UNCHANGED <<recorded, summary, disk, forgotten>>

SummaryFails ==
  /\ writer = "summarize"
  /\ writer' = "none"
  /\ UNCHANGED <<recorded, recent, summary, notice, prompt, disk, forgotten>>

SummaryArrives ==
  /\ writer = "summarize"
  /\ summary' = prompt
  /\ recent' = <<>>
  /\ writer' = "save"
  /\ UNCHANGED <<recorded, notice, prompt, disk, forgotten>>

\* _save(): the private temporary file is written and synced ...
Replacing == [save |-> "replace", clear_save |-> "clear_replace"]

WriteTemporary ==
  /\ writer \in DOMAIN Replacing
  /\ writer' = Replacing[writer]
  /\ UNCHANGED <<recorded, recent, summary, notice, prompt, disk, forgotten>>

\* Faulty variant (mutation only): clear() is confirmed whatever the disk did.
ConfirmsClear(saved) == writer \in Clearing

\* clear() returns no warning only when the empty summary was saved.
Confirms(saved) == writer \in Clearing /\ saved

\* ... and then replaces the memory file in one step,
ReplaceFile ==
  /\ writer \in {"replace", "clear_replace"}
  /\ disk' = File(summary)
  /\ writer' = "none"
  /\ forgotten' = IF Confirms(TRUE) THEN 1..recorded ELSE forgotten
  /\ UNCHANGED <<recorded, recent, summary, notice, prompt>>

\* or an OSError ends the save: save_failed, or clear_save_failed.
SaveFails ==
  /\ writer \in {"save", "replace"} \cup Clearing
  /\ writer' = "none"
  /\ forgotten' = IF Confirms(FALSE) THEN 1..recorded ELSE forgotten
  /\ UNCHANGED <<recorded, recent, summary, notice, prompt, disk>>

Clear ==
  /\ Quiescent
  /\ recent' = <<>>
  /\ summary' = {}
  /\ notice' = FALSE
  /\ writer' = "clear_save"
  /\ UNCHANGED <<recorded, prompt, disk, forgotten>>

\* The process ends anywhere and starts again: only a file that can be read
\* and parsed brings a summary back, anything else is a notice.
Restart ==
  /\ recent' = <<>>
  /\ writer' = "none"
  /\ prompt' = {}
  /\ \/ summary' = {} /\ notice' = (disk.state # "missing")
     \/ disk.state = "whole" /\ summary' = disk.summary /\ notice' = FALSE
  /\ UNCHANGED <<recorded, disk, forgotten>>

RecordStep ==
  \/ AppendExchange
  \/ SummaryFails
  \/ SummaryArrives
  \/ WriteTemporary
  \/ ReplaceFile
  \/ SaveFails

Next ==
  \/ Record
  \/ RecordStep
  \/ Clear
  \/ Restart

Spec == Init /\ [][Next]_vars

-------------------------------------------------------------------------------

TypeOK ==
  /\ recorded \in 0..MaxExchanges
  /\ recent \in Seq(Exchange)
  /\ summary \subseteq Exchange
  /\ notice \in BOOLEAN
  /\ writer \in {"none"} \cup Recording \cup Clearing
  /\ prompt \subseteq Exchange
  /\ disk \in [state : {"missing", "whole"}, summary : SUBSET Exchange]
  /\ forgotten \subseteq Exchange

\* Failed summaries and restarts together never let the context grow past the
\* configured number of turns, never reorder it, and never leave an exchange
\* both in the recent list and in the summary, where it would count twice.
RecentIsFresh ==
  /\ Len(recent) <= RecentTurns
  /\ \A i, j \in DOMAIN recent : i < j => recent[i] < recent[j]
  /\ ToSet(recent) \cap summary = {}

\* Once clear() has confirmed, no exchange from before it comes back: not from
\* a summary under way, not from the file, not after a crash and restart.
ForgottenStaysForgotten ==
  forgotten \cap (ToSet(recent) \cup summary \cup disk.summary) = {}
===============================================================================
