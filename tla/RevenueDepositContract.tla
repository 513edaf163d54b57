----------------------- MODULE RevenueDepositContract -----------------------
(***************************************************************************)
(* The stand-alone deposit contract: an admin funds periods of ledgers and *)
(* names their beneficiaries, authorised offerings top a period up, and    *)
(* once a period has ended each beneficiary claims an equal part of it.    *)
(*                                                                         *)
(* The part is computed anew at every claim, from the revenue and the list *)
(* of that moment, and all periods pay from one balance.  The calls of the *)
(* admin, the offerings and the beneficiaries interleave freely; one that  *)
(* fails leaves no trace.                                                  *)
(*                                                                         *)
(* Bounds: MaxLedger, MaxPeriods, MaxRevenue; overflow is out of reach.    *)
(***************************************************************************)
EXTENDS Integers, Sequences, FiniteSets, Functions

CONSTANTS
  DepositOfferings,  \* offering contracts that may be authorised
  Beneficiaries,     \* addresses that may be beneficiaries
  Spans,             \* inputs: start and end ledger of a period
  Revenues,          \* inputs: amounts of revenue
  MaxLedger,         \* bound: the last ledger
  MaxPeriods,        \* bound: periods created
  MaxRevenue         \* bound: revenue of one period

ASSUME Inputs ==
  /\ Spans \subseteq [start : Nat, end : Nat]
  /\ Revenues \subseteq Int
  /\ MaxLedger \in Nat /\ MaxPeriods \in Nat /\ MaxRevenue \in Nat
  /\ IsFiniteSet(Beneficiaries)

VARIABLES
  ledger,         \* ledger sequence number
  initialized,    \* Admin, Token and the empty lists are stored
  authorized,     \* AuthorizedOfferings
  period,         \* Period(id), ids in order; they count from 0 in the code
  beneficiaries,  \* Beneficiaries(id)
  claimed,        \* Claimed(id, address)
  balance,        \* balance of the contract in its token
  diluted         \* history: periods of which parts grew too many, see Dilute

vars == <<ledger, initialized, authorized, period, beneficiaries, claimed, balance,
          diluted>>

Period == [start_ledger : Nat, end_ledger : Nat, revenue_amount : Nat,
           claimed_amount : Nat]

Init ==
  /\ ledger = 0
  /\ initialized = FALSE
  /\ authorized = {}
  /\ period = <<>>
  /\ beneficiaries = <<>>
  /\ claimed = <<>>
  /\ balance = 0
  /\ diluted = {}

initialize ==
  /\ ~initialized
  /\ initialized' = TRUE
  /\ UNCHANGED <<ledger, authorized, period, beneficiaries, claimed, balance, diluted>>

add_authorized_offering(offering) ==
  /\ initialized
  /\ authorized' = authorized \cup {offering}
  /\ UNCHANGED <<ledger, initialized, period, beneficiaries, claimed, balance, diluted>>

remove_authorized_offering(offering) ==
  /\ initialized
  /\ offering \in authorized
  /\ authorized' = authorized \ {offering}
  /\ UNCHANGED <<ledger, initialized, period, beneficiaries, claimed, balance, diluted>>

\* A period may be topped up at any time, also after claims.
deposit(offering, id, amount) ==
  /\ offering \in authorized
  /\ amount > 0
  /\ id \in DOMAIN period
  /\ period[id].revenue_amount + amount <= MaxRevenue
  /\ period' = [period EXCEPT ![id].revenue_amount = @ + amount]
  /\ balance' = balance + amount
  /\ UNCHANGED <<ledger, initialized, authorized, beneficiaries, claimed, diluted>>

\* Mutant: a period may start in the last ledger of another.
Apart_Touching(span, p) == span.end <= p.start_ledger \/ span.start >= p.end_ledger

Apart(span, p) == span.end < p.start_ledger \/ span.start > p.end_ledger

assert_no_overlap(span) == \A id \in DOMAIN period : Apart(span, period[id])

create_period(span, revenue) ==
  /\ initialized
  /\ revenue \in 1..MaxRevenue
  /\ span.start < span.end
  /\ assert_no_overlap(span)
  /\ Len(period) < MaxPeriods
  /\ period' = Append(period, [start_ledger |-> span.start, end_ledger |-> span.end,
                               revenue_amount |-> revenue, claimed_amount |-> 0])
  /\ beneficiaries' = Append(beneficiaries, {})
  /\ claimed' = Append(claimed, {})
  /\ balance' = balance + revenue
  /\ UNCHANGED <<ledger, initialized, authorized, diluted>>

(***************************************************************************)
(* History: after a claim of a period, adding a beneficiary, or taking one *)
(* that has claimed off the list, leaves more to be paid than the period   *)
(* has left.                                                               *)
(***************************************************************************)
Dilute(id, changes) == diluted' = IF changes THEN diluted \cup {id} ELSE diluted

add_beneficiary(id, b) ==
  /\ initialized
  /\ id \in DOMAIN period
  /\ beneficiaries' = [beneficiaries EXCEPT ![id] = @ \cup {b}]
  /\ Dilute(id, b \notin beneficiaries[id] /\ claimed[id] # {})
  /\ UNCHANGED <<ledger, initialized, authorized, period, claimed, balance>>

\* That b has claimed stays recorded: put back, it cannot claim again.
remove_beneficiary(id, b) ==
  /\ initialized
  /\ id \in DOMAIN period
  /\ b \in beneficiaries[id]
  /\ beneficiaries' = [beneficiaries EXCEPT ![id] = @ \ {b}]
  /\ Dilute(id, b \in claimed[id])
  /\ UNCHANGED <<ledger, initialized, authorized, period, claimed, balance>>

\* Mutant: the revenue is divided among those that have not claimed.
EqualShare_OfTheRest(id) ==
  period[id].revenue_amount \div Cardinality(beneficiaries[id] \ claimed[id])

EqualShare(id) == period[id].revenue_amount \div Cardinality(beneficiaries[id])

\* Mutant: a period is paid out while it lasts.
Ended_WhileOpen(id) == ledger \in period[id].start_ledger .. period[id].end_ledger

Ended(id) == ledger > period[id].end_ledger

\* Mutant: the token lets the contract overdraw.
Covered_Overdraws(amount) == TRUE

\* The token refuses a transfer that the balance does not cover.
Covered(amount) == amount <= balance

claim(id, b) ==
  /\ id \in DOMAIN period
  /\ Ended(id)
  /\ b \in beneficiaries[id]
  /\ b \notin claimed[id]
  /\ EqualShare(id) > 0
  /\ Covered(EqualShare(id))
  /\ claimed' = [claimed EXCEPT ![id] = @ \cup {b}]
  /\ period' = [period EXCEPT ![id].claimed_amount = @ + EqualShare(id)]
  /\ balance' = balance - EqualShare(id)
  /\ UNCHANGED <<ledger, initialized, authorized, beneficiaries, diluted>>

\* The entry of a period in unclaimed_summary; negative in a diluted one.
unclaimed_summary(id) == period[id].revenue_amount - period[id].claimed_amount

Tick ==
  /\ ledger < MaxLedger
  /\ ledger' = ledger + 1
  /\ UNCHANGED <<initialized, authorized, period, beneficiaries, claimed, balance, diluted>>

AdminNext ==
  \/ initialize
  \/ \E o \in DepositOfferings :
       add_authorized_offering(o) \/ remove_authorized_offering(o)
  \/ \E span \in Spans, revenue \in Revenues : create_period(span, revenue)
  \/ \E id \in 1..MaxPeriods, b \in Beneficiaries :
       add_beneficiary(id, b) \/ remove_beneficiary(id, b)

Next ==
  \/ AdminNext
  \/ \E o \in DepositOfferings, id \in 1..MaxPeriods, a \in Revenues : deposit(o, id, a)
  \/ \E id \in 1..MaxPeriods, b \in Beneficiaries : claim(id, b)
  \/ Tick

Spec == Init /\ [][Next]_vars

\* Ledgers keep closing, and a beneficiary that can claim does so in the end.
Fairness ==
  /\ WF_vars(Tick)
  /\ \A id \in 1..MaxPeriods, b \in Beneficiaries : WF_vars(claim(id, b))

FairSpec == Spec /\ Fairness

-----------------------------------------------------------------------------
(***************************************************************************)
(* Properties                                                              *)
(***************************************************************************)

(***************************************************************************)
(* The type invariant: one list of beneficiaries and one set of claims per *)
(* period, and a balance that is never negative.                           *)
(***************************************************************************)
TypeOK ==
  /\ ledger \in Nat
  /\ initialized \in BOOLEAN
  /\ authorized \subseteq DepositOfferings
  /\ period \in Seq(Period)
  /\ beneficiaries \in Seq(SUBSET Beneficiaries) /\ Len(beneficiaries) = Len(period)
  /\ claimed \in Seq(SUBSET Beneficiaries) /\ Len(claimed) = Len(period)
  /\ balance \in Nat
  /\ diluted \subseteq DOMAIN period

\* No ledger belongs to two periods.
PeriodsApart ==
  \A i, j \in DOMAIN period :
    i # j => \/ period[i].end_ledger < period[j].start_ledger
             \/ period[j].end_ledger < period[i].start_ledger

\* Nothing of the balance is spoken for twice, and nothing is left over.
BalanceIsUnclaimed ==
  balance = SumFunction([id \in DOMAIN period |-> unclaimed_summary(id)])

\* A period that was not diluted can pay everyone on its list who is left.
PeriodsCovered ==
  \A id \in DOMAIN period \ diluted :
    LET open == beneficiaries[id] \ claimed[id]
    IN  open # {} => Cardinality(open) * EqualShare(id) <= unclaimed_summary(id)

(***************************************************************************)
(* Periods share one balance and keep no reserve, so what one overpays     *)
(* another lacks.  The periods are disjoint and the balance is what they   *)
(* say is unclaimed; and a period that was not diluted has enough left for *)
(* the part of everyone on its list who has not claimed, at today's        *)
(* revenue and list, whatever top-ups and removals came between claims.    *)
(***************************************************************************)
PeriodsCoverTheirClaims == PeriodsApart /\ BalanceIsUnclaimed /\ PeriodsCovered

Owed(id, b) == id \in DOMAIN period /\ b \in beneficiaries[id] \ claimed[id]

(***************************************************************************)
(* While no period was diluted, everyone on the list of a period is paid   *)
(* once it has ended, unless removed first or the revenue is too small to  *)
(* divide: no call of the admin, of an offering or of another beneficiary  *)
(* stands in the way.                                                      *)
(***************************************************************************)
EveryBeneficiaryIsPaid ==
  \A id \in 1..MaxPeriods, b \in Beneficiaries :
    Owed(id, b) ~> (~Owed(id, b) \/ diluted # {} \/ EqualShare(id) = 0)
=============================================================================
