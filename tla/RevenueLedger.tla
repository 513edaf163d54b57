---------------------------- MODULE RevenueLedger ----------------------------
(***************************************************************************)
(* What RevenueReports promises to somebody who reads the reported         *)
(* revenue of an offering: a ledger with one entry per period, extended    *)
(* only at its end.  An entry may be amended until its period is sealed,   *)
(* and a seal is never lifted.  A period may be sealed before it has an    *)
(* entry; the entry it is then given is final.                             *)
(***************************************************************************)
EXTENDS Integers, Sequences

VARIABLES
  ledger,  \* the amounts reported, the period is the place in the sequence
  sealed   \* the periods that were closed

vars == <<ledger, sealed>>

Init == ledger = <<>> /\ sealed = {}

\* A new last entry, of any amount.
Enter ==
  /\ Len(ledger') = Len(ledger) + 1
  /\ ledger = SubSeq(ledger', 1, Len(ledger))
  /\ UNCHANGED sealed

Amend(period) ==
  /\ period \notin sealed
  /\ ledger' = [ledger EXCEPT ![period] = ledger'[period]]
  /\ UNCHANGED sealed

Seal ==
  /\ \E period \in sealed' \ sealed : sealed' = sealed \cup {period}
  /\ UNCHANGED ledger

Next == Enter \/ (\E period \in DOMAIN ledger : Amend(period)) \/ Seal

Spec == Init /\ [][Next]_vars

(***************************************************************************)
(* A sealed entry is final: its amount never changes, its seal is never    *)
(* lifted and no entry is ever removed.                                    *)
(***************************************************************************)
SealedEntriesAreFinal ==
  [][ /\ sealed \subseteq sealed'
      /\ DOMAIN ledger \subseteq DOMAIN ledger'
      /\ \A p \in DOMAIN ledger \cap sealed : ledger'[p] = ledger[p] ]_vars
=============================================================================
