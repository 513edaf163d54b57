-------------------- MODULE RevenueDepositContract_proofs --------------------
(***************************************************************************)
(* Theorems about RevenueDepositContract: its types, that no two periods   *)
(* share a ledger, that the balance is what the periods have left, and     *)
(* that one which was not diluted can pay all who are left on its list.    *)
(*                                                                         *)
(* The last is not inductive: a top-up may raise the part of everybody who *)
(* is left by more, together, than was put in, because a part is rounded   *)
(* down.  What is inductive is that those who claimed got at most today's  *)
(* part each: parts of an undiluted period only ever grow.  The balance is  *)
(* followed beside it, as a sum of which a call changes one term.          *)
(***************************************************************************)
EXTENDS RevenueDepositContract, FiniteSetTheorems, SumTheorems, TLAPS

\* Who claimed is still listed, and got at most today's part.
PaidAtMostToday(id) ==
  /\ claimed[id] \subseteq beneficiaries[id]
  /\ claimed[id] = {} => period[id].claimed_amount = 0
  /\ claimed[id] # {} =>
       period[id].claimed_amount <= Cardinality(claimed[id]) * EqualShare(id)

ContractSound ==
  /\ TypeOK
  /\ PeriodsApart
  /\ \A id \in DOMAIN period : period[id].end_ledger >= period[id].start_ledger
  /\ \A id \in DOMAIN period \ diluted : PaidAtMostToday(id)

-----------------------------------------------------------------------------
(***************************************************************************)
(* Arithmetic                                                              *)
(***************************************************************************)

LEMMA QuotientBounds ==
  ASSUME NEW r \in Nat, NEW n \in Nat \ {0}
  PROVE  /\ r \div n \in Nat
         /\ n * (r \div n) <= r
         /\ r < n * ((r \div n) + 1)
OBVIOUS

LEMMA ProductGrows ==
  ASSUME NEW a \in Nat, NEW b \in Nat, NEW c \in Nat, a <= b
  PROVE  a * c <= b * c /\ c * a <= c * b /\ a * c \in Nat
OBVIOUS

\* More revenue among fewer is no smaller a part.
LEMMA PartsGrow ==
  ASSUME NEW r \in Nat, NEW s \in Nat, NEW n \in Nat \ {0}, NEW m \in Nat \ {0},
         r <= s, m <= n
  PROVE  r \div n <= s \div m
<1> DEFINE q == r \div n
           p == s \div m
<1>1. q \in Nat /\ n * q <= r
  BY QuotientBounds
<1>2. p \in Nat /\ s < m * (p + 1)
  BY QuotientBounds
<1> HIDE DEF q, p
<1> SUFFICES ASSUME p + 1 <= q
             PROVE  FALSE
  BY <1>1, <1>2 DEF q, p
<1>3. m * (p + 1) <= n * (p + 1)
  BY <1>2, ProductGrows
<1>4. n * (p + 1) <= n * q
  BY <1>1, <1>2, ProductGrows
<1>5. n * q \in Int /\ m * (p + 1) \in Int /\ n * (p + 1) \in Int
  BY <1>1, <1>2
<1> QED
  BY <1>1, <1>2, <1>3, <1>4, <1>5

\* If k of n were paid at most the part each, it is enough for the rest.
LEMMA RestIsCovered ==
  ASSUME NEW r \in Nat, NEW n \in Nat \ {0}, NEW k \in 0..n, NEW c \in Nat,
         c <= k * (r \div n)
  PROVE  (n - k) * (r \div n) <= r - c
<1> DEFINE q == r \div n
<1>1. q \in Nat /\ n * q <= r
  BY QuotientBounds
<1> HIDE DEF q
<1>2. (n - k) * q = n * q - k * q
  BY <1>1
<1>3. c <= k * q
  BY DEF q
<1>4. n * q \in Int /\ k * q \in Int
  BY <1>1
<1> QED
  BY <1>1, <1>2, <1>3, <1>4 DEF q

-----------------------------------------------------------------------------
(***************************************************************************)
(* Sequences and lists                                                     *)
(***************************************************************************)

LEMMA Replaced ==
  ASSUME NEW S, NEW s \in Seq(S), NEW i \in DOMAIN s, NEW x \in S,
         NEW t, t = [s EXCEPT ![i] = x]
  PROVE  /\ t \in Seq(S) /\ Len(t) = Len(s) /\ DOMAIN t = DOMAIN s
         /\ t[i] = x /\ \A j \in DOMAIN s \ {i} : t[j] = s[j]
OBVIOUS

LEMMA Appended ==
  ASSUME NEW S, NEW s \in Seq(S), NEW x \in S, NEW t, t = Append(s, x)
  PROVE  /\ t \in Seq(S) /\ Len(t) = Len(s) + 1
         /\ DOMAIN t = DOMAIN s \cup {Len(s) + 1} /\ Len(s) + 1 \notin DOMAIN s
         /\ t[Len(s) + 1] = x /\ \A j \in DOMAIN s : t[j] = s[j]
OBVIOUS

LEMMA PeriodTyped ==
  ASSUME TypeOK, NEW id \in DOMAIN period
  PROVE  /\ period[id] \in Period
         /\ period[id].start_ledger \in Nat /\ period[id].end_ledger \in Nat
         /\ period[id].revenue_amount \in Nat /\ period[id].claimed_amount \in Nat
         /\ id \in DOMAIN beneficiaries /\ id \in DOMAIN claimed
         /\ beneficiaries[id] \subseteq Beneficiaries /\ IsFiniteSet(beneficiaries[id])
         /\ claimed[id] \subseteq Beneficiaries /\ IsFiniteSet(claimed[id])
         /\ Cardinality(beneficiaries[id]) \in Nat /\ Cardinality(claimed[id]) \in Nat
<1>1. /\ period[id] \in Period
      /\ id \in DOMAIN beneficiaries /\ id \in DOMAIN claimed
  BY DEF TypeOK
<1>2. beneficiaries[id] \subseteq Beneficiaries /\ claimed[id] \subseteq Beneficiaries
  BY <1>1 DEF TypeOK
<1>3. IsFiniteSet(beneficiaries[id]) /\ IsFiniteSet(claimed[id])
  BY <1>2, Inputs, FS_Subset
<1>4. Cardinality(beneficiaries[id]) \in Nat /\ Cardinality(claimed[id]) \in Nat
  BY <1>3, FS_CardinalityType
<1> QED
  BY <1>1, <1>2, <1>3, <1>4 DEF Period

-----------------------------------------------------------------------------
(***************************************************************************)
(* The steps                                                               *)
(***************************************************************************)

\* The parts of the invariant that speak of periods only.
PeriodsSound ==
  /\ PeriodsApart
  /\ \A id \in DOMAIN period : period[id].end_ledger >= period[id].start_ledger

\* A period of which only the amounts change stays where it is.
LEMMA AmountsKeepPeriods ==
  ASSUME PeriodsSound,
         DOMAIN period' = DOMAIN period,
         \A id \in DOMAIN period :
           /\ period'[id].start_ledger = period[id].start_ledger
           /\ period'[id].end_ledger = period[id].end_ledger
  PROVE  PeriodsSound'
BY DEF PeriodsSound, PeriodsApart

LEMMA QuietKeepsSound ==
  ASSUME ContractSound,
         \/ initialize \/ Tick \/ UNCHANGED vars
         \/ \E o \in DepositOfferings :
              add_authorized_offering(o) \/ remove_authorized_offering(o)
  PROVE  ContractSound'
<1>1. UNCHANGED <<period, beneficiaries, claimed, balance, diluted>>
  BY Zenon DEF initialize, Tick, vars, add_authorized_offering, remove_authorized_offering
<1>2. ledger' \in Nat
  BY DEF ContractSound, TypeOK, initialize, Tick, vars, add_authorized_offering,
    remove_authorized_offering
<1>3. initialized' \in BOOLEAN
  BY Zenon DEF ContractSound, TypeOK, initialize, Tick, vars, add_authorized_offering,
    remove_authorized_offering
<1>4. authorized' \subseteq DepositOfferings
  BY DEF ContractSound, TypeOK, initialize, Tick, vars, add_authorized_offering,
    remove_authorized_offering
<1>5. TypeOK'
  BY <1>1, <1>2, <1>3, <1>4 DEF ContractSound, TypeOK
<1> QED
  BY <1>1, <1>5 DEF ContractSound, PeriodsApart, PaidAtMostToday, EqualShare

\* A period nobody claimed of, or of which parts did not shrink, stays paid.
LEMMA GrowingPartsStayPaid ==
  ASSUME NEW id, PaidAtMostToday(id), TypeOK, id \in DOMAIN period,
         TypeOK', id \in DOMAIN period',
         claimed'[id] = claimed[id], claimed[id] \subseteq beneficiaries'[id],
         period'[id].claimed_amount = period[id].claimed_amount,
         period[id].revenue_amount <= period'[id].revenue_amount,
         claimed[id] # {} => beneficiaries'[id] \subseteq beneficiaries[id]
  PROVE  PaidAtMostToday(id)'
<1>1. CASE claimed[id] = {}
  BY <1>1 DEF PaidAtMostToday
<1>2. CASE claimed[id] # {}
  <2> DEFINE n == Cardinality(beneficiaries[id])
             m == Cardinality(beneficiaries'[id])
             k == Cardinality(claimed[id])
             r == period[id].revenue_amount
             s == period'[id].revenue_amount
  <2>1. /\ n \in Nat /\ k \in Nat /\ r \in Nat /\ s \in Nat
        /\ IsFiniteSet(beneficiaries[id])
        /\ period[id].claimed_amount \in Nat
    <3>1. period'[id] \in Period
      BY DEF TypeOK
    <3> QED
      BY <3>1, PeriodTyped DEF Period
  <2>2. m \in Nat /\ m <= n /\ IsFiniteSet(beneficiaries'[id])
    BY <1>2, <2>1, FS_Subset, FS_CardinalityType
  <2>3. m # 0 /\ n # 0
    <3>1. beneficiaries'[id] # {} /\ beneficiaries[id] # {}
      BY <1>2
    <3> QED
      BY <2>1, <2>2, <3>1, FS_EmptySet
  <2>4. period[id].claimed_amount <= k * (r \div n)
    BY <1>2 DEF PaidAtMostToday, EqualShare
  <2> HIDE DEF n, m, k, r, s
  <2>5. r \div n <= s \div m /\ r \div n \in Nat /\ s \div m \in Nat
    BY <2>1, <2>2, <2>3, PartsGrow, QuotientBounds DEF r, s
  <2>6. k * (r \div n) <= k * (s \div m) /\ k * (r \div n) \in Nat /\ k * (s \div m) \in Nat
    BY <2>1, <2>5, ProductGrows
  <2>7. period[id].claimed_amount <= k * (s \div m)
    BY <2>1, <2>4, <2>6
  <2> QED
    BY <1>2, <2>7 DEF PaidAtMostToday, EqualShare, k, s, m
<1> QED
  BY <1>1, <1>2

\* A period whose record, list and claims are as before stays paid.
LEMMA UntouchedStayPaid ==
  ASSUME NEW id, PaidAtMostToday(id),
         period'[id] = period[id], claimed'[id] = claimed[id],
         beneficiaries'[id] = beneficiaries[id]
  PROVE  PaidAtMostToday(id)'
BY DEF PaidAtMostToday, EqualShare

LEMMA DepositKeepsSound ==
  ASSUME ContractSound, NEW o, NEW id, NEW amount \in Revenues, deposit(o, id, amount)
  PROVE  ContractSound'
<1>1. /\ amount \in Nat /\ id \in DOMAIN period /\ balance' = balance + amount
      /\ UNCHANGED <<ledger, initialized, authorized, beneficiaries, claimed, diluted>>
  BY Inputs DEF deposit
<1> DEFINE p == [period[id] EXCEPT !.revenue_amount = period[id].revenue_amount + amount]
<1>2. period' = [period EXCEPT ![id] = p]
  BY DEF deposit
<1>3. TypeOK
  BY DEF ContractSound
<1>4. /\ p \in Period
      /\ p.start_ledger = period[id].start_ledger /\ p.end_ledger = period[id].end_ledger
      /\ p.claimed_amount = period[id].claimed_amount
      /\ p.revenue_amount >= period[id].revenue_amount
  <2>1. period[id] \in Period
    BY <1>1, <1>3, PeriodTyped
  <2> QED
    BY <1>1, <2>1 DEF Period
<1> HIDE DEF p
<1>5. /\ period' \in Seq(Period) /\ Len(period') = Len(period) /\ DOMAIN period' = DOMAIN period
      /\ period'[id] = p /\ \A j \in DOMAIN period \ {id} : period'[j] = period[j]
  BY <1>1, <1>2, <1>3, <1>4, Replaced DEF TypeOK
<1>6. TypeOK'
  BY <1>1, <1>3, <1>5 DEF TypeOK
<1>7. PeriodsSound'
  <2>1. \A j \in DOMAIN period :
          /\ period'[j].start_ledger = period[j].start_ledger
          /\ period'[j].end_ledger = period[j].end_ledger
    BY <1>4, <1>5
  <2> QED
    BY <1>5, <2>1, AmountsKeepPeriods DEF ContractSound, PeriodsSound
<1>8. ASSUME NEW j \in DOMAIN period' \ diluted'
      PROVE  PaidAtMostToday(j)'
  <2>1. j \in DOMAIN period /\ PaidAtMostToday(j)
    BY <1>1, <1>5 DEF ContractSound
  <2>2. CASE j = id
    <3>1. claimed[id] \subseteq beneficiaries'[id] /\ claimed'[id] = claimed[id]
          /\ beneficiaries'[id] \subseteq beneficiaries[id]
      BY <1>1, <2>1, <2>2 DEF PaidAtMostToday
    <3> QED
      BY <1>1, <1>3, <1>4, <1>5, <1>6, <2>1, <2>2, <3>1, GrowingPartsStayPaid
  <2>3. CASE j # id
    BY <1>1, <1>5, <2>1, <2>3, UntouchedStayPaid
  <2> QED
    BY <2>2, <2>3
<1> QED
  BY <1>6, <1>7, <1>8 DEF ContractSound, PeriodsSound

LEMMA CreateKeepsSound ==
  ASSUME ContractSound, NEW span \in Spans, NEW revenue, create_period(span, revenue)
  PROVE  ContractSound'
<1> DEFINE p == [start_ledger |-> span.start, end_ledger |-> span.end,
                 revenue_amount |-> revenue, claimed_amount |-> 0]
           new == Len(period) + 1
<1>1. TypeOK /\ PeriodsSound
  BY DEF ContractSound, PeriodsSound
<1>2. /\ span \in [start : Nat, end : Nat] /\ span.start < span.end
      /\ revenue \in Nat /\ balance' = balance + revenue
      /\ UNCHANGED <<ledger, initialized, authorized, diluted>>
  BY Inputs DEF create_period
<1>3. p \in Period /\ p.start_ledger = span.start /\ p.end_ledger = span.end
      /\ p.claimed_amount = 0
  BY <1>2 DEF Period
<1>4. /\ period' = Append(period, p)
      /\ beneficiaries' = Append(beneficiaries, {})
      /\ claimed' = Append(claimed, {})
  BY DEF create_period
<1>5. \A j \in DOMAIN period :
        span.end < period[j].start_ledger \/ span.start > period[j].end_ledger
  BY DEF create_period, assert_no_overlap, Apart
<1> HIDE DEF p
<1>6. /\ period' \in Seq(Period) /\ Len(period') = Len(period) + 1
      /\ DOMAIN period' = DOMAIN period \cup {new} /\ new \notin DOMAIN period
      /\ period'[new] = p /\ \A j \in DOMAIN period : period'[j] = period[j]
  BY <1>1, <1>3, <1>4, Appended DEF TypeOK
<1>7. /\ beneficiaries' \in Seq(SUBSET Beneficiaries)
      /\ Len(beneficiaries') = Len(beneficiaries) + 1
      /\ \A j \in DOMAIN beneficiaries : beneficiaries'[j] = beneficiaries[j]
  <2>1. {} \in SUBSET Beneficiaries
    OBVIOUS
  <2> QED
    BY <1>1, <1>4, <2>1, Appended DEF TypeOK
<1>8. /\ claimed' \in Seq(SUBSET Beneficiaries)
      /\ Len(claimed') = Len(claimed) + 1 /\ claimed'[Len(claimed) + 1] = {}
      /\ \A j \in DOMAIN claimed : claimed'[j] = claimed[j]
  <2>1. {} \in SUBSET Beneficiaries
    OBVIOUS
  <2> QED
    BY <1>1, <1>4, <2>1, Appended DEF TypeOK
<1>9. TypeOK'
  <2>1. balance' \in Nat
    BY <1>1, <1>2 DEF TypeOK
  <2>2. diluted' \subseteq DOMAIN period'
    BY <1>1, <1>2, <1>6 DEF TypeOK
  <2>3. /\ ledger' \in Nat /\ authorized' \subseteq DepositOfferings
        /\ initialized' \in BOOLEAN
    BY <1>1, <1>2, Zenon DEF TypeOK
  <2>4. Len(beneficiaries') = Len(period') /\ Len(claimed') = Len(period')
    BY <1>1, <1>6, <1>7, <1>8 DEF TypeOK
  <2> QED
    BY <1>6, <1>7, <1>8, <2>1, <2>2, <2>3, <2>4 DEF TypeOK
<1>10. PeriodsSound'
  <2>1. \A j \in DOMAIN period' : period'[j].end_ledger >= period'[j].start_ledger
    BY <1>1, <1>2, <1>3, <1>6 DEF PeriodsSound
  <2>2. PeriodsApart'
    <3> SUFFICES ASSUME NEW i \in DOMAIN period', NEW j \in DOMAIN period', i # j
                 PROVE  \/ period'[i].end_ledger < period'[j].start_ledger
                        \/ period'[j].end_ledger < period'[i].start_ledger
      BY DEF PeriodsApart
    <3>1. CASE i = new
      BY <1>3, <1>5, <1>6, <3>1
    <3>2. CASE j = new
      BY <1>3, <1>5, <1>6, <3>2
    <3>3. CASE i # new /\ j # new
      BY <1>1, <1>6, <3>3 DEF PeriodsSound, PeriodsApart
    <3> QED
      BY <3>1, <3>2, <3>3
  <2> QED
    BY <2>1, <2>2 DEF PeriodsSound
<1>11. ASSUME NEW j \in DOMAIN period' \ diluted'
       PROVE  PaidAtMostToday(j)'
  <2>1. CASE j = new
    BY <1>1, <1>3, <1>6, <1>8, <2>1 DEF PaidAtMostToday, TypeOK
  <2>2. CASE j # new
    <3>1. j \in DOMAIN period \ diluted
      BY <1>2, <1>6, <2>2
    <3> HIDE DEF new
    <3>2. j \in DOMAIN beneficiaries /\ j \in DOMAIN claimed /\ PaidAtMostToday(j)
      BY <1>1, <3>1, PeriodTyped DEF ContractSound
    <3> QED
      BY <1>6, <1>7, <1>8, <3>1, <3>2, UntouchedStayPaid
  <2> QED
    BY <2>1, <2>2
<1> QED
  BY <1>9, <1>10, <1>11 DEF ContractSound, PeriodsSound

\* A change of one list, by which the period is diluted or parts grow.
LEMMA ListChangeKeepsSound ==
  ASSUME ContractSound, NEW id \in DOMAIN period, NEW list \in SUBSET Beneficiaries,
         beneficiaries' = [beneficiaries EXCEPT ![id] = list],
         UNCHANGED <<ledger, initialized, authorized, period, claimed, balance>>,
         diluted' \in {diluted, diluted \cup {id}},
         \/ id \in diluted'
         \/ /\ claimed[id] \subseteq list
            /\ claimed[id] # {} => list \subseteq beneficiaries[id]
  PROVE  ContractSound'
<1>1. TypeOK /\ PeriodsSound
  BY DEF ContractSound, PeriodsSound
<1>2. id \in DOMAIN beneficiaries /\ beneficiaries \in Seq(SUBSET Beneficiaries)
  BY <1>1, PeriodTyped DEF TypeOK
<1>3. /\ beneficiaries' \in Seq(SUBSET Beneficiaries) /\ Len(beneficiaries') = Len(beneficiaries)
      /\ beneficiaries'[id] = list
      /\ \A j \in DOMAIN beneficiaries \ {id} : beneficiaries'[j] = beneficiaries[j]
  BY <1>2, Replaced
<1>4. TypeOK'
  BY <1>1, <1>3 DEF TypeOK
<1>5. PeriodsSound'
  BY <1>1, AmountsKeepPeriods
<1>6. ASSUME NEW j \in DOMAIN period' \ diluted'
      PROVE  PaidAtMostToday(j)'
  <2>1. j \in DOMAIN period \ diluted /\ PaidAtMostToday(j) /\ j \in DOMAIN beneficiaries
    BY <1>1, PeriodTyped DEF ContractSound
  <2>2. CASE j = id
    <3>1. period[id].revenue_amount \in Nat
      BY <1>1, PeriodTyped
    <3> QED
      BY <1>1, <1>3, <1>4, <2>1, <2>2, <3>1, GrowingPartsStayPaid
  <2>3. CASE j # id
    BY <1>3, <2>1, <2>3, UntouchedStayPaid
  <2> QED
    BY <2>2, <2>3
<1> QED
  BY <1>4, <1>5, <1>6 DEF ContractSound, PeriodsSound

LEMMA AddKeepsSound ==
  ASSUME ContractSound, NEW id, NEW b \in Beneficiaries, add_beneficiary(id, b)
  PROVE  ContractSound'
<1>1. /\ id \in DOMAIN period
      /\ beneficiaries' = [beneficiaries EXCEPT ![id] = beneficiaries[id] \cup {b}]
      /\ UNCHANGED <<ledger, initialized, authorized, period, claimed, balance>>
      /\ diluted' = IF b \notin beneficiaries[id] /\ claimed[id] # {}
                      THEN diluted \cup {id} ELSE diluted
  BY DEF add_beneficiary, Dilute
<1>2. beneficiaries[id] \subseteq Beneficiaries
  BY <1>1, PeriodTyped DEF ContractSound
<1> DEFINE list == beneficiaries[id] \cup {b}
<1>3. id \notin diluted => claimed[id] \subseteq beneficiaries[id]
  BY <1>1 DEF ContractSound, PaidAtMostToday
<1>4. diluted' \in {diluted, diluted \cup {id}} /\ list \in SUBSET Beneficiaries
  BY <1>1, <1>2
<1>5. \/ id \in diluted'
      \/ /\ claimed[id] \subseteq list
         /\ claimed[id] # {} => list \subseteq beneficiaries[id]
  BY <1>1, <1>3
<1> HIDE DEF list
<1>6. beneficiaries' = [beneficiaries EXCEPT ![id] = list]
  BY <1>1 DEF list
<1> QED
  BY <1>1, <1>4, <1>5, <1>6, ListChangeKeepsSound

LEMMA RemoveKeepsSound ==
  ASSUME ContractSound, NEW id, NEW b \in Beneficiaries, remove_beneficiary(id, b)
  PROVE  ContractSound'
<1>1. /\ id \in DOMAIN period
      /\ beneficiaries' = [beneficiaries EXCEPT ![id] = beneficiaries[id] \ {b}]
      /\ UNCHANGED <<ledger, initialized, authorized, period, claimed, balance>>
      /\ diluted' = IF b \in claimed[id] THEN diluted \cup {id} ELSE diluted
  BY DEF remove_beneficiary, Dilute
<1>2. beneficiaries[id] \subseteq Beneficiaries
  BY <1>1, PeriodTyped DEF ContractSound
<1> DEFINE list == beneficiaries[id] \ {b}
<1>3. id \notin diluted => claimed[id] \subseteq beneficiaries[id]
  BY <1>1 DEF ContractSound, PaidAtMostToday
<1>4. diluted' \in {diluted, diluted \cup {id}} /\ list \in SUBSET Beneficiaries
  BY <1>1, <1>2
<1>5. \/ id \in diluted'
      \/ /\ claimed[id] \subseteq list
         /\ claimed[id] # {} => list \subseteq beneficiaries[id]
  BY <1>1, <1>3
<1> HIDE DEF list
<1>6. beneficiaries' = [beneficiaries EXCEPT ![id] = list]
  BY <1>1 DEF list
<1> QED
  BY <1>1, <1>4, <1>5, <1>6, ListChangeKeepsSound

LEMMA ClaimKeepsSound ==
  ASSUME ContractSound, NEW id, NEW b, claim(id, b)
  PROVE  ContractSound'
<1> DEFINE part == EqualShare(id)
           p == [period[id] EXCEPT !.claimed_amount = period[id].claimed_amount + part]
           paid == claimed[id] \cup {b}
<1>1. /\ id \in DOMAIN period /\ b \in beneficiaries[id] \ claimed[id]
      /\ part > 0 /\ part <= balance /\ balance' = balance - part
      /\ UNCHANGED <<ledger, initialized, authorized, beneficiaries, diluted>>
      /\ period' = [period EXCEPT ![id] = p]
      /\ claimed' = [claimed EXCEPT ![id] = paid]
  BY DEF claim, Covered
<1>2. TypeOK /\ PeriodsSound
  BY DEF ContractSound, PeriodsSound
<1>3. /\ period[id] \in Period
      /\ period[id].revenue_amount \in Nat /\ period[id].claimed_amount \in Nat
      /\ id \in DOMAIN claimed /\ id \in DOMAIN beneficiaries
      /\ beneficiaries[id] \subseteq Beneficiaries /\ IsFiniteSet(beneficiaries[id])
      /\ claimed[id] \subseteq Beneficiaries /\ IsFiniteSet(claimed[id])
      /\ Cardinality(beneficiaries[id]) \in Nat /\ Cardinality(claimed[id]) \in Nat
  BY <1>1, <1>2, PeriodTyped
<1>4. part \in Nat
  <2>1. Cardinality(beneficiaries[id]) # 0
    BY <1>1, <1>3, FS_EmptySet
  <2> QED
    BY <1>3, <2>1, QuotientBounds DEF EqualShare
<1> HIDE DEF part
<1>5. /\ p \in Period
      /\ p.start_ledger = period[id].start_ledger /\ p.end_ledger = period[id].end_ledger
      /\ p.claimed_amount = period[id].claimed_amount + part
      /\ p.revenue_amount = period[id].revenue_amount
  BY <1>3, <1>4 DEF Period
<1>6. paid \in SUBSET Beneficiaries
  BY <1>1, <1>3
<1> HIDE DEF p, paid
<1>7. /\ period' \in Seq(Period) /\ Len(period') = Len(period) /\ DOMAIN period' = DOMAIN period
      /\ period'[id] = p /\ \A j \in DOMAIN period \ {id} : period'[j] = period[j]
  BY <1>1, <1>2, <1>5, Replaced DEF TypeOK
<1>8. /\ claimed' \in Seq(SUBSET Beneficiaries) /\ Len(claimed') = Len(claimed)
      /\ claimed'[id] = paid /\ \A j \in DOMAIN claimed \ {id} : claimed'[j] = claimed[j]
  BY <1>1, <1>2, <1>3, <1>6, Replaced DEF TypeOK
<1>9. TypeOK'
  <2>1. balance' \in Nat
    BY <1>1, <1>2, <1>4 DEF TypeOK
  <2> QED
    BY <1>1, <1>2, <1>7, <1>8, <2>1 DEF TypeOK
<1>10. PeriodsSound'
  <2>1. \A j \in DOMAIN period :
          /\ period'[j].start_ledger = period[j].start_ledger
          /\ period'[j].end_ledger = period[j].end_ledger
    BY <1>5, <1>7
  <2> QED
    BY <1>2, <1>7, <2>1, AmountsKeepPeriods
<1>11. ASSUME id \notin diluted
       PROVE  PaidAtMostToday(id)'
  <2>1. PaidAtMostToday(id)
    BY <1>1, <1>11 DEF ContractSound
  <2> DEFINE k == Cardinality(claimed[id])
  <2>2. Cardinality(paid) = k + 1 /\ paid # {} /\ k \in Nat
    BY <1>1, <1>3, FS_AddElement DEF paid
  <2>3. EqualShare(id)' = part
    BY <1>1, <1>5, <1>7 DEF EqualShare, part
  <2>4. period[id].claimed_amount <= k * part
    <3>1. CASE claimed[id] = {}
      <4>1. k = 0
        BY <3>1, FS_EmptySet
      <4> QED
        BY <1>4, <2>1, <3>1, <4>1 DEF PaidAtMostToday
    <3>2. CASE claimed[id] # {}
      BY <2>1, <3>2 DEF PaidAtMostToday, part
    <3> QED
      BY <3>1, <3>2
  <2> HIDE DEF k
  <2>5. (k + 1) * part = k * part + part /\ k * part \in Int
    BY <1>4, <2>2
  <2>6. p.claimed_amount <= (k + 1) * part
    BY <1>3, <1>4, <1>5, <2>4, <2>5
  <2>7. paid \subseteq beneficiaries'[id]
    BY <1>1, <2>1 DEF paid, PaidAtMostToday
  <2> QED
    BY <1>7, <1>8, <2>2, <2>3, <2>6, <2>7 DEF PaidAtMostToday
<1>12. ASSUME NEW j \in DOMAIN period' \ diluted'
       PROVE  PaidAtMostToday(j)'
  <2>1. j \in DOMAIN period \ diluted /\ PaidAtMostToday(j) /\ j \in DOMAIN claimed
    BY <1>1, <1>2, <1>7, PeriodTyped DEF ContractSound
  <2>2. CASE j = id
    BY <1>11, <2>1, <2>2
  <2>3. CASE j # id
    BY <1>1, <1>7, <1>8, <2>1, <2>3, UntouchedStayPaid
  <2> QED
    BY <2>2, <2>3
<1> QED
  BY <1>9, <1>10, <1>12 DEF ContractSound, PeriodsSound

-----------------------------------------------------------------------------
(***************************************************************************)
(* The invariant and what follows from it                                  *)
(***************************************************************************)

LEMMA ContractSoundness == Spec => []ContractSound
<1>1. Init => ContractSound
  <2> SUFFICES ASSUME Init
               PROVE  ContractSound
    OBVIOUS
  <2>1. DOMAIN period = {} /\ Len(period) = 0 /\ Len(beneficiaries) = 0 /\ Len(claimed) = 0
        /\ period \in Seq(Period) /\ beneficiaries \in Seq(SUBSET Beneficiaries)
        /\ claimed \in Seq(SUBSET Beneficiaries)
    BY DEF Init
  <2>2. TypeOK
    BY <2>1 DEF Init, TypeOK
  <2> QED
    BY <2>1, <2>2 DEF ContractSound, PeriodsApart
<1>2. ContractSound /\ [Next]_vars => ContractSound'
  <2> SUFFICES ASSUME ContractSound, [Next]_vars
               PROVE  ContractSound'
    OBVIOUS
  <2>1. CASE AdminNext
    BY <2>1, QuietKeepsSound, CreateKeepsSound, AddKeepsSound, RemoveKeepsSound DEF AdminNext
  <2>2. CASE \E o \in DepositOfferings, id \in 1..MaxPeriods, a \in Revenues : deposit(o, id, a)
    BY <2>2, DepositKeepsSound
  <2>3. CASE \E id \in 1..MaxPeriods, b \in Beneficiaries : claim(id, b)
    BY <2>3, ClaimKeepsSound
  <2>4. CASE Tick \/ UNCHANGED vars
    BY <2>4, QuietKeepsSound
  <2> QED
    BY <2>1, <2>2, <2>3, <2>4 DEF Next
<1> QED
  BY <1>1, <1>2, PTL DEF Spec

(***************************************************************************)
(* Types: in particular the balance is never negative.                     *)
(***************************************************************************)
THEOREM TypeCorrect == Spec => []TypeOK
<1>1. ContractSound => TypeOK
  BY DEF ContractSound
<1> QED
  BY <1>1, ContractSoundness, PTL

(***************************************************************************)
(* assert_no_overlap keeps every ledger out of all periods but one.        *)
(***************************************************************************)
THEOREM PeriodsStayApart == Spec => []PeriodsApart
<1>1. ContractSound => PeriodsApart
  BY DEF ContractSound
<1> QED
  BY <1>1, ContractSoundness, PTL

(***************************************************************************)
(* Whatever top-ups and removals come between claims, a period that was    *)
(* not diluted has enough left for everyone on its list who did not claim. *)
(***************************************************************************)
THEOREM UndilutedPeriodsPay == Spec => []PeriodsCovered
<1>1. ContractSound => PeriodsCovered
  <2> SUFFICES ASSUME ContractSound, NEW id \in DOMAIN period \ diluted,
                      beneficiaries[id] \ claimed[id] # {}
               PROVE  Cardinality(beneficiaries[id] \ claimed[id]) * EqualShare(id)
                        <= unclaimed_summary(id)
    BY DEF PeriodsCovered
  <2> DEFINE n == Cardinality(beneficiaries[id])
             k == Cardinality(claimed[id])
             r == period[id].revenue_amount
             c == period[id].claimed_amount
  <2>1. PaidAtMostToday(id)
    BY DEF ContractSound
  <2>2. /\ r \in Nat /\ c \in Nat /\ n \in Nat /\ k \in Nat
        /\ IsFiniteSet(beneficiaries[id]) /\ claimed[id] \subseteq beneficiaries[id]
    BY <2>1, PeriodTyped DEF ContractSound, PaidAtMostToday
  <2>3. n # 0 /\ k <= n
    BY <2>2, FS_EmptySet, FS_Subset
  <2>4. Cardinality(beneficiaries[id] \ claimed[id]) = n - k
    <3>1. beneficiaries[id] \cap claimed[id] = claimed[id]
      BY <2>2
    <3> QED
      BY <2>2, <3>1, FS_Difference
  <2>5. c <= k * (r \div n)
    <3>1. CASE claimed[id] = {}
      <4>1. k = 0 /\ c = 0
        BY <2>1, <3>1, FS_EmptySet DEF PaidAtMostToday
      <4>2. r \div n \in Nat
        BY <2>2, <2>3, QuotientBounds
      <4> QED
        BY <4>1, <4>2
    <3>2. CASE claimed[id] # {}
      BY <2>1, <3>2 DEF PaidAtMostToday, EqualShare
    <3> QED
      BY <3>1, <3>2
  <2> HIDE DEF n, k, r, c
  <2>6. (n - k) * (r \div n) <= r - c
    BY <2>2, <2>3, <2>5, RestIsCovered
  <2> QED
    BY <2>4, <2>6 DEF EqualShare, unclaimed_summary, n, r, c
<1> QED
  BY <1>1, ContractSoundness, PTL


-----------------------------------------------------------------------------
(***************************************************************************)
(* The balance, as a sum over a sequence of periods                        *)
(***************************************************************************)

Left(p) == [id \in DOMAIN p |-> p[id].revenue_amount - p[id].claimed_amount]

LEMMA BalanceIsSum == /\ BalanceIsUnclaimed <=> balance = SumFunction(Left(period))
                      /\ BalanceIsUnclaimed' <=> balance' = SumFunction(Left(period'))
BY DEF BalanceIsUnclaimed, unclaimed_summary, Left

\* What is left of each period is a number, and there are finitely many.
LEMMA LeftTyped ==
  ASSUME NEW p \in Seq(Period)
  PROVE  /\ IsFiniteSet(DOMAIN p) /\ DOMAIN Left(p) = DOMAIN p
         /\ \A j \in DOMAIN p : Left(p)[j] = p[j].revenue_amount - p[j].claimed_amount
         /\ \A j \in DOMAIN p : Left(p)[j] \in Int
<1>1. DOMAIN p = 1 .. Len(p) /\ Len(p) \in Nat
  OBVIOUS
<1>2. IsFiniteSet(1 .. Len(p))
  BY <1>1, FS_Interval
<1>3. \A j \in DOMAIN p : p[j].revenue_amount \in Nat /\ p[j].claimed_amount \in Nat
  <2>1. \A j \in DOMAIN p : p[j] \in Period
    OBVIOUS
  <2> QED
    BY <2>1 DEF Period
<1> QED
  BY <1>1, <1>2, <1>3 DEF Left

LEMMA OneTermChanges ==
  ASSUME NEW p \in Seq(Period), NEW q \in Seq(Period), DOMAIN q = DOMAIN p,
         NEW id \in DOMAIN p, \A j \in DOMAIN p \ {id} : q[j] = p[j]
  PROVE  SumFunction(Left(q)) = SumFunction(Left(p)) - Left(p)[id] + Left(q)[id]
<1> DEFINE f == Left(p)
           g == Left(q)
           S == DOMAIN p
<1>1. IsFiniteSet(S) /\ DOMAIN f = S /\ DOMAIN g = S /\ \A j \in S : f[j] \in Int /\ g[j] \in Int
  BY LeftTyped
<1>2. \A j \in S \ {id} : g[j] = f[j]
  BY LeftTyped
<1>3. id \in S
  OBVIOUS
<1> HIDE DEF f, g, S
<1>4. SumFunctionOnSet(g, S) = SumFunctionOnSet(f, S) - f[id] + g[id]
  BY <1>1, <1>2, <1>3, SumOfUpdate
<1>5. SumFunction(g) = SumFunction(f) - f[id] + g[id]
  BY <1>1, <1>4 DEF SumFunction
<1> QED
  BY <1>5 DEF f, g

LEMMA OneTermAdded ==
  ASSUME NEW p \in Seq(Period), NEW q \in Seq(Period), NEW new, new \notin DOMAIN p,
         DOMAIN q = DOMAIN p \cup {new}, \A j \in DOMAIN p : q[j] = p[j]
  PROVE  SumFunction(Left(q)) = SumFunction(Left(p)) + Left(q)[new]
<1> DEFINE f == Left(p)
           g == Left(q)
           S == DOMAIN p
<1>1. /\ IsFiniteSet(S) /\ DOMAIN f = S /\ DOMAIN g = S \cup {new}
      /\ g[new] \in Int /\ \A j \in S : f[j] \in Int
  BY LeftTyped
<1>2. \A j \in S : g[j] = f[j]
  BY LeftTyped
<1>3. new \notin S
  OBVIOUS
<1> HIDE DEF f, g, S
<1>4. SumFunctionOnSet(g, S \cup {new}) = SumFunctionOnSet(f, S) + g[new]
  BY <1>1, <1>2, <1>3, SumOfExtension
<1>5. SumFunction(g) = SumFunction(f) + g[new]
  BY <1>1, <1>4 DEF SumFunction
<1> QED
  BY <1>5 DEF f, g

\* A top-up, a new period and a claim move the balance by what they change of
\* a period; no other call touches either.
LEMMA BalanceStep ==
  ASSUME TypeOK, TypeOK', BalanceIsUnclaimed, [Next]_vars
  PROVE  BalanceIsUnclaimed'
<1>0. balance = SumFunction(Left(period))
  BY BalanceIsSum
<1>a. period \in Seq(Period) /\ period' \in Seq(Period) /\ balance \in Nat
  BY DEF TypeOK
<1>b. ASSUME UNCHANGED <<period, balance>>
      PROVE  BalanceIsUnclaimed'
  BY <1>0, <1>b, BalanceIsSum
<1>c. ASSUME NEW id \in DOMAIN period, NEW x \in Period, period' = [period EXCEPT ![id] = x],
             balance' = balance - (period[id].revenue_amount - period[id].claimed_amount)
                                + (x.revenue_amount - x.claimed_amount)
      PROVE  BalanceIsUnclaimed'
  <2>1. /\ DOMAIN period' = DOMAIN period /\ period'[id] = x
        /\ \A j \in DOMAIN period \ {id} : period'[j] = period[j]
    BY <1>a, <1>c
  <2>2. SumFunction(Left(period')) =
          SumFunction(Left(period)) - Left(period)[id] + Left(period')[id]
    BY <1>a, <2>1, OneTermChanges
  <2>3. /\ Left(period)[id] = period[id].revenue_amount - period[id].claimed_amount
        /\ Left(period')[id] = x.revenue_amount - x.claimed_amount
    BY <1>a, <2>1, LeftTyped
  <2> QED
    BY <1>0, <1>c, <2>2, <2>3, BalanceIsSum
<1>1. ASSUME NEW o \in DepositOfferings, NEW id \in 1..MaxPeriods, NEW a \in Revenues,
             deposit(o, id, a)
      PROVE  BalanceIsUnclaimed'
  <2> DEFINE x == [period[id] EXCEPT !.revenue_amount = period[id].revenue_amount + a]
  <2>1. /\ id \in DOMAIN period /\ a \in Nat /\ balance' = balance + a
        /\ period' = [period EXCEPT ![id] = x]
    BY <1>1, Inputs DEF deposit
  <2>2. /\ period[id] \in Period
        /\ period[id].revenue_amount \in Nat /\ period[id].claimed_amount \in Nat
    BY <2>1, PeriodTyped
  <2>3. /\ x \in Period /\ x.revenue_amount = period[id].revenue_amount + a
        /\ x.claimed_amount = period[id].claimed_amount
    BY <2>1, <2>2 DEF Period
  <2> HIDE DEF x
  <2>4. balance' = balance - (period[id].revenue_amount - period[id].claimed_amount)
                           + (x.revenue_amount - x.claimed_amount)
    BY <1>a, <2>1, <2>2, <2>3
  <2> QED
    BY <1>c, <2>1, <2>3, <2>4
<1>2. ASSUME NEW id \in 1..MaxPeriods, NEW b \in Beneficiaries, claim(id, b)
      PROVE  BalanceIsUnclaimed'
  <2> DEFINE part == EqualShare(id)
             x == [period[id] EXCEPT !.claimed_amount = period[id].claimed_amount + part]
  <2>1. /\ id \in DOMAIN period /\ b \in beneficiaries[id] /\ balance' = balance - part
        /\ period' = [period EXCEPT ![id] = x]
    BY <1>2 DEF claim
  <2>2. /\ period[id] \in Period
        /\ period[id].revenue_amount \in Nat /\ period[id].claimed_amount \in Nat
        /\ Cardinality(beneficiaries[id]) \in Nat /\ IsFiniteSet(beneficiaries[id])
    BY <2>1, PeriodTyped
  <2>3. part \in Nat
    <3>1. Cardinality(beneficiaries[id]) # 0
      BY <2>1, <2>2, FS_EmptySet
    <3> QED
      BY <2>2, <3>1, QuotientBounds DEF EqualShare
  <2> HIDE DEF part
  <2>4. /\ x \in Period /\ x.revenue_amount = period[id].revenue_amount
        /\ x.claimed_amount = period[id].claimed_amount + part
    BY <2>2, <2>3 DEF Period
  <2> HIDE DEF x
  <2>5. balance' = balance - (period[id].revenue_amount - period[id].claimed_amount)
                           + (x.revenue_amount - x.claimed_amount)
    BY <1>a, <2>1, <2>2, <2>3, <2>4
  <2> QED
    BY <1>c, <2>1, <2>4, <2>5
<1>3. ASSUME NEW span \in Spans, NEW revenue \in Revenues, create_period(span, revenue)
      PROVE  BalanceIsUnclaimed'
  <2> DEFINE x == [start_ledger |-> span.start, end_ledger |-> span.end,
                   revenue_amount |-> revenue, claimed_amount |-> 0]
             new == Len(period) + 1
  <2>1. /\ balance' = balance + revenue /\ revenue \in Nat
        /\ period' = Append(period, x)
    BY <1>3 DEF create_period
  <2>2. x \in Period /\ x.revenue_amount = revenue /\ x.claimed_amount = 0
    <3>1. span.start \in Nat /\ span.end \in Nat
      BY Inputs
    <3> QED
      BY <2>1, <3>1 DEF Period
  <2> HIDE DEF x
  <2>3. /\ DOMAIN period' = DOMAIN period \cup {new} /\ new \notin DOMAIN period
        /\ period'[new] = x /\ \A j \in DOMAIN period : period'[j] = period[j]
    BY <1>a, <2>1, <2>2, Appended
  <2> HIDE DEF new
  <2>4. SumFunction(Left(period')) = SumFunction(Left(period)) + Left(period')[new]
    BY <1>a, <2>3, OneTermAdded
  <2>5. Left(period')[new] = revenue - 0
    BY <1>a, <2>2, <2>3, LeftTyped
  <2> QED
    BY <1>0, <1>a, <2>1, <2>4, <2>5, BalanceIsSum
<1>4. ASSUME NEW id \in 1..MaxPeriods, NEW b \in Beneficiaries,
             add_beneficiary(id, b) \/ remove_beneficiary(id, b)
      PROVE  BalanceIsUnclaimed'
  BY <1>b, <1>4 DEF add_beneficiary, remove_beneficiary
<1>5. CASE \/ initialize \/ Tick \/ UNCHANGED vars
           \/ \E o \in DepositOfferings :
                add_authorized_offering(o) \/ remove_authorized_offering(o)
  <2>1. UNCHANGED <<period, balance>>
    BY <1>5, Zenon DEF initialize, Tick, vars, add_authorized_offering, remove_authorized_offering
  <2> QED
    BY <1>b, <2>1
<1> QED
  BY <1>1, <1>2, <1>3, <1>4, <1>5, Zenon DEF Next, AdminNext

(***************************************************************************)
(* The whole of PeriodsCoverTheirClaims: disjoint periods, a balance that  *)
(* is what they say is unclaimed, and cover for everyone left on the list  *)
(* of a period that was not diluted.                                       *)
(***************************************************************************)
THEOREM PeriodsAlwaysCover == Spec => []PeriodsCoverTheirClaims
<1>1. Init => BalanceIsUnclaimed
  <2> SUFFICES ASSUME Init
               PROVE  SumFunction(Left(period)) = 0
    BY BalanceIsSum DEF Init
  <2>1. DOMAIN Left(period) = {}
    BY DEF Init, Left
  <2> QED
    BY <2>1, SumOfNone DEF SumFunction
<1>2. TypeOK /\ TypeOK' /\ BalanceIsUnclaimed /\ [Next]_vars => BalanceIsUnclaimed'
  BY BalanceStep
<1>3. PeriodsApart /\ BalanceIsUnclaimed /\ PeriodsCovered => PeriodsCoverTheirClaims
  BY DEF PeriodsCoverTheirClaims
<1> QED
  BY <1>1, <1>2, <1>3, TypeCorrect, PeriodsStayApart, UndilutedPeriodsPay, PTL DEF Spec
=============================================================================
