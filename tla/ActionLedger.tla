----------------------------- MODULE ActionLedger -----------------------------
(***************************************************************************)
(* What the execution of action lists promises, without threads, deadlines *)
(* or retained calls: a ledger of turns in which commands are issued one   *)
(* by one, each behind confirmed successes only, and in which one command  *)
(* at most, the last one issued, is ever in doubt.                         *)
(***************************************************************************)
EXTENDS Naturals

CONSTANTS ConfirmedSuccess, MaxCommands, MaxTurns

Turn == 1..MaxTurns
Settled == ConfirmedSuccess \cup {"failed"}

VARIABLES
  last,    \* the latest turn
  open,    \* whether its list may still go on
  ledger   \* the status of every command of every turn

vars == <<last, open, ledger>>

Init ==
  /\ last = 0
  /\ open = FALSE
  /\ ledger = [t \in Turn |-> [i \in 1..0 |-> "not_executed"]]

InDoubt(t, i) == i \in DOMAIN ledger[t] /\ ledger[t][i] = "unknown"

NothingInDoubt ==
  \A t \in Turn : \A i \in DOMAIN ledger[t] : ~InDoubt(t, i)

\* A new turn is accepted only when no command of any turn is in doubt.
OpenTurn(n) ==
  /\ ~open
  /\ NothingInDoubt
  /\ last < MaxTurns
  /\ last' = last + 1
  /\ open' = TRUE
  /\ ledger' = [ledger EXCEPT ![last + 1] = [i \in 1..n |-> "not_executed"]]

\* The next command leaves "not_executed" behind confirmed successes only.
Due(i) ==
  /\ open
  /\ i \in DOMAIN ledger[last]
  /\ ledger[last][i] = "not_executed"
  /\ \A j \in 1..(i - 1) : ledger[last][j] \in ConfirmedSuccess

Issue(i) ==
  /\ Due(i)
  /\ ledger' = [ledger EXCEPT ![last][i] = "unknown"]
  /\ UNCHANGED <<last, open>>

Refuse(i) ==
  /\ Due(i)
  /\ ledger' = [ledger EXCEPT ![last][i] = "failed"]
  /\ UNCHANGED <<last, open>>

\* Doubt ends with what the device confirmed, in time or late.
Settle(i, s) ==
  /\ last \in Turn
  /\ InDoubt(last, i)
  /\ ledger' = [ledger EXCEPT ![last][i] = s]
  /\ UNCHANGED <<last, open>>

\* A closed list is never resumed.
Close ==
  /\ open
  /\ open' = FALSE
  /\ UNCHANGED <<last, ledger>>

Next ==
  \/ \E n \in 1..MaxCommands : OpenTurn(n)
  \/ \E i \in 1..MaxCommands : Issue(i) \/ Refuse(i)
  \/ \E i \in 1..MaxCommands, s \in Settled : Settle(i, s)
  \/ Close

Spec == Init /\ [][Next]_vars
===============================================================================
