--------------------- MODULE RevenueDistribution_proofs ---------------------
(***************************************************************************)
(* Theorems about the money path and their proofs.                         *)
(***************************************************************************)
EXTENDS RevenueDistribution, SequenceTheorems, SumTheorems, TLAPS

-----------------------------------------------------------------------------
(***************************************************************************)
(* Arithmetic                                                              *)
(***************************************************************************)

\* The scaling factors are positive.
LEMMA PowerOfTenType ==
  ASSUME NEW n \in 1..10
  PROVE  PowersOfTen[n] \in Nat \ {0}
BY DEF PowersOfTen

\* The result of a division of naturals is a natural.
LEMMA DivType ==
  ASSUME NEW a \in Nat, NEW b \in Nat \ {0}
  PROVE  a \div b \in Nat
OBVIOUS

\* A product of naturals is a natural.
LEMMA ProductType ==
  ASSUME NEW a \in Nat, NEW b \in Nat
  PROVE  a * b \in Nat
OBVIOUS

\* Normalising a natural amount gives a natural amount.
LEMMA NormalizeType ==
  ASSUME NEW a \in Nat, NEW d \in 0..16
  PROVE  normalize_amount(a, d) \in Nat
<1>1. CASE d <= CANONICAL_DECIMALS
  <2>1. CANONICAL_DECIMALS - d + 1 \in 1..10
    BY <1>1 DEF CANONICAL_DECIMALS
  <2>2. PowersOfTen[CANONICAL_DECIMALS - d + 1] \in Nat
    BY <2>1, PowerOfTenType
  <2> QED
    BY <1>1, <2>2, ProductType DEF normalize_amount
<1>2. CASE ~(d <= CANONICAL_DECIMALS)
  <2>1. d - CANONICAL_DECIMALS + 1 \in 1..10
    BY <1>2 DEF CANONICAL_DECIMALS
  <2>2. PowersOfTen[d - CANONICAL_DECIMALS + 1] \in Nat \ {0}
    BY <2>1, PowerOfTenType
  <2> QED
    BY <1>2, <2>2, DivType DEF normalize_amount
<1> QED
  BY <1>1, <1>2

\* A payout is a natural amount.
LEMMA ClaimPayoutType ==
  ASSUME TypeOK, NEW o \in Offerings, NEW h \in Holders, NEW i \in 1 .. Len(periods[o])
  PROVE  ClaimPayout(o, h, i) \in Nat
<1>1. periods[o][i].amount \in Nat
  <2>1. periods[o] \in Seq(Period)
    BY DEF TypeOK, PoolTypeOK
  <2>2. periods[o][i] \in Period
    BY <2>1
  <2> QED
    BY <2>2 DEF Period
<1>2. decimals[o] \in 0..16 /\ share[o][h] \in Nat
  BY DEF TypeOK, ConfigTypeOK, RegisterTypeOK
<1>3. normalize_amount(periods[o][i].amount, decimals[o]) \in Nat
  BY <1>1, <1>2, NormalizeType
<1>4. normalize_amount(periods[o][i].amount, decimals[o]) * share[o][h] \in Nat
  BY <1>2, <1>3, ProductType
<1>5. FULL_BPS \in Nat \ {0}
  BY DEF FULL_BPS
<1> QED
  BY <1>4, <1>5, DivType DEF ClaimPayout

-----------------------------------------------------------------------------
(***************************************************************************)
(* The register                                                            *)
(***************************************************************************)

\* A checkpointed schedule is a schedule.
LEMMA TransitionType ==
  ASSUME NEW sched, IsSchedule(sched), NEW count \in 0..MaxPeriods,
         NEW old \in 0..FULL_BPS, NEW new \in 0..FULL_BPS
  PROVE  IsSchedule(record_holder_share_transition(sched, count, old, new))
<1> DEFINE existing == get_holder_share_schedule(sched, new)
<1>1. IsSchedule(existing)
  <2>1. IsSchedule(NoSchedule)
    BY DEF NoSchedule, IsSchedule
  <2>2. IsSchedule([start \in {0} |-> new])
    BY PositiveLimits DEF IsSchedule
  <2> QED
    BY <2>1, <2>2 DEF get_holder_share_schedule
<1> HIDE DEF existing
<1>2. IsSchedule([start \in DOMAIN existing \cup {count} |->
                    IF start = count THEN new ELSE existing[start]])
  BY <1>1 DEF IsSchedule
<1> QED
  BY <1>2 DEF record_holder_share_transition, existing

\* Writing a share keeps the register well typed, both caps included.
LEMMA SetShareType ==
  ASSUME TypeOK, NEW o \in Offerings, NEW h \in Holders, NEW s \in Nat,
         set_holder_share_internal(o, h, s, Len(periods[o]))
  PROVE  RegisterTypeOK'
<1>a. FULL_BPS \in Nat
  BY DEF FULL_BPS
<1>b. s <= FULL_BPS
  BY DEF set_holder_share_internal
<1>1. FULL_BPS \in Nat /\ s \in 0..FULL_BPS
  BY <1>a, <1>b
<1> USE DEF TypeOK, RegisterTypeOK
<1>2. share' \in [Offerings -> [Holders -> 0..FULL_BPS]]
  BY <1>1 DEF set_holder_share_internal
<1>3. TotalAfter(o, h, s) \in 0..FULL_BPS
  BY <1>1 DEF set_holder_share_internal, TotalAfter, SubOrZero
<1>4. shareTotal' \in [Offerings -> 0..FULL_BPS]
  BY <1>3 DEF set_holder_share_internal
<1>5. IssuedAfter(o, h, s) \in Int
  BY <1>1 DEF IssuedAfter
<1>6. sharesIssued' \in [Offerings -> Int] /\ maxShares' \in [Offerings -> Nat]
  BY <1>5 DEF set_holder_share_internal
<1>7. Len(periods[o]) \in 0..MaxPeriods
  BY PositiveLimits DEF PoolTypeOK
<1>8. IsSchedule(record_holder_share_transition(schedule[o][h], Len(periods[o]), share[o][h], s))
  BY <1>1, <1>7, TransitionType DEF SchedulesTypeOK
<1>9. SchedulesTypeOK'
  <2>1. schedule' = [schedule EXCEPT ![o][h] =
          record_holder_share_transition(@, Len(periods[o]), share[o][h], s)]
    BY DEF set_holder_share_internal
  <2> QED
    BY <1>8, <2>1 DEF SchedulesTypeOK
<1> QED
  BY <1>2, <1>4, <1>6, <1>9

-----------------------------------------------------------------------------
(***************************************************************************)
(* Deposits and claims                                                     *)
(***************************************************************************)

\* A deposit keeps the pool and the balance well typed.
LEMMA DepositType ==
  ASSUME TypeOK, NEW o \in Offerings, NEW t \in PayTokens, NEW a \in Int,
         NEW p \in Int, p <= MaxPeriods, do_deposit_revenue(o, t, a, p)
  PROVE  PoolTypeOK' /\ VaultTypeOK'
<1> DEFINE normalized == normalize_amount(a, decimals[o])
           period == [amount |-> a, time |-> now, accrued |-> normalized]
<1>1. a \in Nat
  BY DEF do_deposit_revenue
<1>2. normalized \in Nat
  BY <1>1, NormalizeType DEF TypeOK, ConfigTypeOK
<1>3. period \in Period
  BY <1>1, <1>2 DEF Period, TypeOK, GateTypeOK
<1>4. periods' = [periods EXCEPT ![o] = Append(periods[o], period)]
  BY DEF do_deposit_revenue
<1> HIDE DEF normalized, period
<1>5. periods' \in [Offerings -> Seq(Period)]
  BY <1>3, <1>4 DEF TypeOK, PoolTypeOK
<1>6. \A q \in Offerings : Len(periods'[q]) <= MaxPeriods
  <2>1. Len(Append(periods[o], period)) = Len(periods[o]) + 1
    BY <1>3 DEF TypeOK, PoolTypeOK
  <2>2. Len(periods[o]) + 1 <= MaxPeriods
    BY DEF do_deposit_revenue
  <2> QED
    BY <1>4, <2>1, <2>2 DEF TypeOK, PoolTypeOK
<1>7. lockedToken' \in [Offerings -> PayTokens \cup {NoToken}]
  BY DEF do_deposit_revenue, TypeOK, PoolTypeOK
<1>8. deposited' \in [Offerings -> Nat]
  BY <1>1 DEF do_deposit_revenue, TypeOK, PoolTypeOK
<1>9. accrualIndex' \in [Offerings -> Nat]
  <2>1. shareTotal[o] \in Nat /\ accrualIndex[o] \in Nat
    BY DEF TypeOK, RegisterTypeOK, PoolTypeOK
  <2>2. normalized * E18 \in Nat
    BY <1>2, PositiveLimits, ProductType
  <2>3. shareTotal[o] > 0 => (normalized * E18) \div shareTotal[o] \in Nat
    BY <2>1, <2>2, DivType
  <2>4. AccrueOverHeldShares(o, normalized)
    BY DEF do_deposit_revenue, normalized
  <2> QED
    BY <2>1, <2>3, <2>4 DEF AccrueOverHeldShares, TypeOK, PoolTypeOK
<1>10. vault' \in [PayTokens -> Nat]
  BY <1>1 DEF do_deposit_revenue, TypeOK, VaultTypeOK
<1> QED
  BY <1>5, <1>6, <1>7, <1>8, <1>9, <1>10 DEF PoolTypeOK, VaultTypeOK

\* A transfer out never leaves a negative balance.
LEMMA PayOutType ==
  ASSUME TypeOK, NEW o \in Offerings, NEW amount, PayOut(o, amount)
  PROVE  VaultTypeOK'
BY DEF PayOut, TypeOK, PoolTypeOK, VaultTypeOK

\* The receipts of one claim.
LEMMA ReceiptsForType ==
  ASSUME TypeOK, NEW o \in Offerings, NEW h \in Holders, NEW start \in Nat,
         NEW end \in start + 1 .. Len(periods[o])
  PROVE  /\ ReceiptsFor(o, h, start, end) \in Seq(Receipt)
         /\ Len(ReceiptsFor(o, h, start, end)) = end - start
         /\ \A k \in 1 .. end - start :
              ReceiptsFor(o, h, start, end)[k].period = start + k
<1>1. end \in Nat /\ end - start \in Nat /\ Len(periods[o]) \in Nat
  BY DEF TypeOK, PoolTypeOK
<1>2. ASSUME NEW k \in 1 .. end - start
      PROVE  [period |-> start + k, amount |-> ClaimPayout(o, h, start + k)] \in Receipt
  <2>1. start + k \in 1 .. Len(periods[o]) /\ start + k \in Nat
    BY <1>1
  <2> QED
    BY <2>1, ClaimPayoutType DEF Receipt
<1> QED
  BY <1>1, <1>2 DEF ReceiptsFor

-----------------------------------------------------------------------------
(***************************************************************************)
(* Type correctness                                                        *)
(***************************************************************************)

\* The type invariant holds initially.
LEMMA TypeInit == Init => TypeOK
<1> SUFFICES ASSUME Init PROVE TypeOK
  OBVIOUS
<1>1. SchedulesTypeOK
  BY DEF Init, RegisterInit, SchedulesTypeOK, NoSchedule, IsSchedule
<1>2. RegisterTypeOK
  BY <1>1 DEF Init, RegisterInit, RegisterTypeOK, FULL_BPS
<1>3. PoolTypeOK /\ VaultTypeOK
  BY PositiveLimits DEF Init, PoolTypeOK, VaultTypeOK
<1>4. ConfigTypeOK
  BY DEF Init, ConfigTypeOK
<1>5. BarTypeOK /\ GateTypeOK
  BY DEF Init, BarTypeOK, GateTypeOK, PauseState
<1>6. HolderTypeOK /\ HistoryTypeOK
  BY DEF Init, HolderTypeOK, HistoryTypeOK, FULL_BPS
<1> QED
  BY <1>2, <1>3, <1>4, <1>5, <1>6 DEF TypeOK

\* A claim keeps the types.
LEMMA ClaimType ==
  ASSUME TypeOK, NEW h \in Holders, NEW o \in Offerings, NEW n, claim(h, o, n)
  PROVE  TypeOK'
<1> DEFINE start == lastClaimed[o][h]
           bound == Least(start + EffectiveMax(n, MAX_CLAIM_PERIODS), Len(periods[o]))
<1>1. start \in Nat /\ Len(periods[o]) \in Nat
  BY DEF TypeOK, HolderTypeOK, PoolTypeOK
<1>2. EffectiveMax(n, MAX_CLAIM_PERIODS) \in Nat
  BY PositiveLimits DEF EffectiveMax
<1>3. bound \in Nat /\ bound <= Len(periods[o])
  BY <1>1, <1>2 DEF Least
<1>4. PICK end \in start + 1 .. bound :
        /\ \/ UNCHANGED vault
           \/ PayOut(o, SumFunction([i \in start + 1 .. end |-> ClaimPayout(o, h, i)]))
        /\ Settle(o, h, start, end)
  BY Zenon DEF claim
<1> HIDE DEF start, bound
<1>5. end \in Nat /\ end \in start + 1 .. Len(periods[o])
  BY <1>1, <1>3
<1>6. VaultTypeOK'
  BY <1>4, PayOutType DEF TypeOK, VaultTypeOK
<1>7. HolderTypeOK'
  BY <1>4, <1>5 DEF claim, Settle, TypeOK, HolderTypeOK
<1>8. HistoryTypeOK'
  <2>1. ReceiptsFor(o, h, start, end) \in Seq(Receipt)
    BY <1>1, <1>5, ReceiptsForType
  <2>2. receipts[o][h] \o ReceiptsFor(o, h, start, end) \in Seq(Receipt)
    BY <2>1 DEF TypeOK, HistoryTypeOK
  <2>3. receipts' \in [Offerings -> [Holders -> Seq(Receipt)]]
    BY <1>4, <2>2 DEF Settle, TypeOK, HistoryTypeOK
  <2> QED
    BY <2>3 DEF claim, TypeOK, HistoryTypeOK
<1>9. UNCHANGED <<registerVars, now, gateVars, poolVars, configVars, barVars>>
  BY Zenon DEF claim
<1>10. RegisterTypeOK' /\ PoolTypeOK' /\ ConfigTypeOK' /\ BarTypeOK' /\ GateTypeOK'
  BY <1>9 DEF TypeOK, RegisterTypeOK, SchedulesTypeOK, PoolTypeOK, ConfigTypeOK, BarTypeOK,
    GateTypeOK, registerVars, poolVars, configVars, barVars, gateVars
<1> QED
  BY <1>6, <1>7, <1>8, <1>10 DEF TypeOK

\* A fulfilled redemption keeps the types.
LEMMA FulfillType ==
  ASSUME TypeOK, NEW o \in Offerings, NEW h \in Holders, NEW a,
         fulfill_redemption(o, h, a)
  PROVE  TypeOK'
<1> DEFINE new_share == share[o][h] - Least(redemption[o][h], share[o][h])
<1>1. set_holder_share_internal(o, h, new_share, Len(periods[o])) /\ PayOut(o, a)
      /\ a > 0
  BY Zenon DEF fulfill_redemption
<1>2. share[o][h] \in Nat /\ redemption[o][h] \in Nat
  BY DEF TypeOK, RegisterTypeOK, HolderTypeOK
<1>3. new_share \in Nat
  BY <1>2 DEF Least
<1>4. RegisterTypeOK' /\ VaultTypeOK'
  BY <1>1, <1>3, SetShareType, PayOutType
<1>5. HolderTypeOK'
  <2>1. lastClaimed' = lastClaimed /\ redemption' = [redemption EXCEPT ![o][h] = 0]
    BY Zenon DEF fulfill_redemption
  <2>2. 0 \in 0..FULL_BPS
    BY DEF FULL_BPS
  <2> QED
    BY <2>1, <2>2 DEF TypeOK, HolderTypeOK
<1>6. a \in Nat
  BY <1>1 DEF PayOut, TypeOK, VaultTypeOK, PoolTypeOK
<1>7. HistoryTypeOK'
  BY <1>6 DEF fulfill_redemption, TypeOK, HistoryTypeOK
<1>8. UNCHANGED <<now, gateVars, poolVars, configVars, barVars>>
  BY Zenon DEF fulfill_redemption
<1>9. PoolTypeOK' /\ ConfigTypeOK' /\ BarTypeOK' /\ GateTypeOK'
  BY <1>8 DEF TypeOK, PoolTypeOK, ConfigTypeOK, BarTypeOK, GateTypeOK,
    poolVars, configVars, barVars, gateVars
<1> QED
  BY <1>4, <1>5, <1>7, <1>9 DEF TypeOK

\* A step of the issuer keeps the types.
LEMMA IssuerType ==
  ASSUME TypeOK, NEW o \in Offerings, IssuerNext(o)
  PROVE  TypeOK'
<1> USE DEF TypeOK
<1>1. ASSUME NEW t \in PayTokens, NEW a \in Amounts, NEW p \in 1..MaxPeriods,
             deposit_revenue(o, t, a, p)
      PROVE  TypeOK'
  <2>1. do_deposit_revenue(o, t, a, p) /\ p <= MaxPeriods
    BY <1>1, Zenon DEF deposit_revenue
  <2>2. PoolTypeOK' /\ VaultTypeOK'
    BY <2>1, InputRanges, PositiveLimits, DepositType
  <2>3. UNCHANGED <<registerVars, now, gateVars, configVars, barVars, lastClaimed,
                    redemption, historyVars>>
    BY <1>1, Zenon DEF deposit_revenue
  <2> QED
    BY <2>2, <2>3 DEF RegisterTypeOK, SchedulesTypeOK, ConfigTypeOK, BarTypeOK, GateTypeOK,
      HolderTypeOK, HistoryTypeOK, registerVars, gateVars, configVars, barVars,
      historyVars
<1>2. ASSUME NEW h \in Holders, NEW s \in Shares, set_holder_share(o, h, s)
      PROVE  TypeOK'
  <2>1. set_holder_share_internal(o, h, s, Len(periods[o])) /\ NoteRaise(o, h, s)
    BY <1>2, Zenon DEF set_holder_share
  <2>2. RegisterTypeOK'
    BY <2>1, InputRanges, SetShareType
  <2>3. UNCHANGED <<now, gateVars, poolVars, vault, configVars, barVars,
                    lastClaimed, redemption, receipts, redeemedOut>>
    BY <1>2, Zenon DEF set_holder_share
  <2>4. HistoryTypeOK'
    BY <2>1, <2>3 DEF NoteRaise, HistoryTypeOK, PoolTypeOK
  <2> QED
    BY <2>2, <2>3, <2>4 DEF PoolTypeOK, VaultTypeOK, ConfigTypeOK, BarTypeOK,
      GateTypeOK, HolderTypeOK, gateVars, poolVars, configVars, barVars
<1>3. ASSUME NEW cap \in ShareCaps, set_max_total_supply_shares(o, cap)
      PROVE  TypeOK'
  <2>1. cap \in Nat
    BY InputRanges
  <2> QED
    BY <1>3, <2>1 DEF set_max_total_supply_shares, RegisterTypeOK, SchedulesTypeOK, PoolTypeOK,
      VaultTypeOK, ConfigTypeOK, BarTypeOK, GateTypeOK, HolderTypeOK,
      HistoryTypeOK, gateVars, poolVars, configVars, barVars, historyVars
<1>4. ASSUME NEW d \in Delays, set_claim_delay(o, d)
      PROVE  TypeOK'
  <2>1. d \in Nat
    BY InputRanges
  <2> QED
    BY <1>4, <2>1 DEF set_claim_delay, RegisterTypeOK, SchedulesTypeOK, PoolTypeOK,
      VaultTypeOK, ConfigTypeOK, BarTypeOK, GateTypeOK, HolderTypeOK,
      HistoryTypeOK, registerVars, gateVars, poolVars, barVars, historyVars
<1>5. ASSUME NEW w \in Windows, set_claim_window(o, w)
      PROVE  TypeOK'
  BY <1>5 DEF set_claim_window, RegisterTypeOK, SchedulesTypeOK, PoolTypeOK,
    VaultTypeOK, ConfigTypeOK, BarTypeOK, GateTypeOK, HolderTypeOK,
    HistoryTypeOK, registerVars, gateVars, poolVars, barVars, historyVars
<1>6. ASSUME NEW d \in Decimals, set_payment_token_decimals(o, d)
      PROVE  TypeOK'
  <2>1. d \in 0..16
    BY InputRanges
  <2> QED
    BY <1>6, <2>1 DEF set_payment_token_decimals, RegisterTypeOK, SchedulesTypeOK, PoolTypeOK,
      VaultTypeOK, ConfigTypeOK, BarTypeOK, GateTypeOK, HolderTypeOK,
      HistoryTypeOK, registerVars, gateVars, poolVars, barVars, historyVars
<1>7. ASSUME NEW h \in Holders, NEW a \in Amounts, fulfill_redemption(o, h, a)
      PROVE  TypeOK'
  BY <1>7, FulfillType
<1> QED
  BY <1>1, <1>2, <1>3, <1>4, <1>5, <1>6, <1>7, Zenon DEF IssuerNext

\* A step that bars or frees a holder, or a step of the holder, keeps the types.
LEMMA HolderStepType ==
  ASSUME TypeOK, NEW o \in Offerings, NEW h \in Holders,
         BarNext(o, h) \/ HolderNext(o, h)
  PROVE  TypeOK'
<1> USE DEF TypeOK
<1>1. ASSUME \/ blacklist_add(o, h)
             \/ blacklist_remove(o, h)
             \/ \E r \in FreezeReasons : \/ emergency_freeze_holder(o, h, r)
                                         \/ emergency_unfreeze_holder(o, h, r)
      PROVE  TypeOK'
  <2>1. BarTypeOK'
    BY <1>1 DEF blacklist_add, blacklist_remove, emergency_freeze_holder,
      emergency_unfreeze_holder, BarTypeOK
  <2>2. UNCHANGED <<registerVars, now, gateVars, poolVars, vault, configVars,
                    lastClaimed, redemption, historyVars>>
    BY <1>1, Zenon DEF blacklist_add, blacklist_remove, emergency_freeze_holder,
      emergency_unfreeze_holder
  <2> QED
    BY <2>1, <2>2 DEF RegisterTypeOK, SchedulesTypeOK, PoolTypeOK, VaultTypeOK, ConfigTypeOK,
      GateTypeOK, HolderTypeOK, HistoryTypeOK, registerVars, gateVars, poolVars,
      configVars, historyVars
<1>2. ASSUME NEW n \in BatchSizes, claim(h, o, n)
      PROVE  TypeOK'
  BY <1>2, ClaimType
<1>3. ASSUME NEW s \in RedeemShares, request_redemption(h, o, s)
      PROVE  TypeOK'
  <2>1. s \in 0..FULL_BPS
    <3>1. s \in 1..share[o][h]
      BY <1>3, Zenon DEF request_redemption
    <3>2. share[o][h] \in 0..FULL_BPS
      BY DEF RegisterTypeOK
    <3>3. FULL_BPS \in Nat
      BY DEF FULL_BPS
    <3> QED
      BY <3>1, <3>2, <3>3
  <2> QED
    BY <1>3, <2>1 DEF request_redemption, RegisterTypeOK, SchedulesTypeOK, PoolTypeOK,
      VaultTypeOK, ConfigTypeOK, BarTypeOK, GateTypeOK, HolderTypeOK,
      HistoryTypeOK, registerVars, gateVars, poolVars, configVars, barVars,
      historyVars
<1> QED
  BY <1>1, <1>2, <1>3, Zenon DEF BarNext, HolderNext

\* Every step keeps the types.
LEMMA TypeStep == TypeOK /\ [Next]_vars => TypeOK'
<1> SUFFICES ASSUME TypeOK, [Next]_vars PROVE TypeOK'
  OBVIOUS
<1>1. ASSUME NEW o \in Offerings, IssuerNext(o) PROVE TypeOK'
  BY <1>1, IssuerType
<1>2. ASSUME NEW o \in Offerings, NEW h \in Holders,
             BarNext(o, h) \/ HolderNext(o, h)
      PROVE  TypeOK'
  BY <1>2, HolderStepType
<1>3. CASE AdminNext \/ Tick
  <2>1. GateTypeOK'
    <3>1. CASE AdminNext
      BY <3>1, Zenon DEF AdminNext, pause_admin, hard_pause_admin, unpause_admin,
        pause_safety, unpause_safety, SetPaused,
        set_freeze, migrate_storage, Halt, set_storage_layout_version, TypeOK,
        GateTypeOK, PauseState
    <3>2. CASE Tick
      BY <3>2 DEF Tick, TypeOK, GateTypeOK, gateVars
    <3> QED
      BY <1>3, <3>1, <3>2
  <2>2. UNCHANGED <<registerVars, poolVars, vault, configVars, barVars,
                    lastClaimed, redemption, historyVars>>
    BY <1>3, Zenon DEF AdminNext, pause_admin, hard_pause_admin, unpause_admin,
      pause_safety, unpause_safety, SetPaused,
      set_freeze, migrate_storage, Halt, set_storage_layout_version, Tick
  <2> QED
    BY <2>1, <2>2 DEF TypeOK, RegisterTypeOK, SchedulesTypeOK, PoolTypeOK, VaultTypeOK,
      ConfigTypeOK, BarTypeOK, HolderTypeOK, HistoryTypeOK, registerVars,
      poolVars, configVars, barVars, historyVars
<1>4. CASE UNCHANGED vars
  BY <1>4 DEF vars, TypeOK, RegisterTypeOK, SchedulesTypeOK, PoolTypeOK, VaultTypeOK,
    ConfigTypeOK, BarTypeOK, GateTypeOK, HolderTypeOK, HistoryTypeOK,
    registerVars, gateVars, poolVars, configVars, barVars, historyVars
<1> QED
  BY <1>1, <1>2, <1>3, <1>4, Zenon DEF Next

(***************************************************************************)
(* Every reachable state is well typed, for every choice of offerings,     *)
(* holders, tokens and inputs: among other things the running total of an  *)
(* offering's shares stays within 100%, a checkpoint never starts beyond   *)
(* the bound on periods, and the contract's balance never goes negative.   *)
(***************************************************************************)
THEOREM TypeCorrect == Spec => []TypeOK
<1>1. Init => TypeOK
  BY TypeInit
<1>2. TypeOK /\ [Next]_vars => TypeOK'
  BY TypeStep
<1> QED
  BY <1>1, <1>2, PTL DEF Spec

-----------------------------------------------------------------------------
(***************************************************************************)
(* Claims settle every period once and in order                            *)
(***************************************************************************)

\* The receipts of holder h agree with its claim index and the periods.
HolderSettled(o, h) ==
  /\ lastClaimed[o][h] = Len(receipts[o][h])
  /\ lastClaimed[o][h] <= Len(periods[o])
  /\ \A k \in 1 .. Len(receipts[o][h]) : receipts[o][h][k].period = k

\* Receipts appended from the index on continue the numbering.
LEMMA AppendedReceipts ==
  ASSUME TypeOK, NEW o \in Offerings, NEW h \in Holders, HolderSettled(o, h),
         NEW end \in lastClaimed[o][h] + 1 .. Len(periods[o])
  PROVE  LET all == receipts[o][h] \o ReceiptsFor(o, h, lastClaimed[o][h], end)
         IN  Len(all) = end /\ \A k \in 1 .. end : all[k].period = k
<1> DEFINE old == receipts[o][h]
           new == ReceiptsFor(o, h, lastClaimed[o][h], end)
           start == lastClaimed[o][h]
<1>1. old \in Seq(Receipt) /\ start \in Nat /\ end \in Nat /\ start = Len(old)
      /\ start + 1 <= end
  BY DEF TypeOK, HolderTypeOK, HistoryTypeOK, PoolTypeOK, HolderSettled
<1>2. /\ new \in Seq(Receipt)
      /\ Len(new) = end - start
      /\ \A k \in 1 .. end - start : new[k].period = start + k
  BY <1>1, ReceiptsForType
<1>3. \A k \in 1 .. start : old[k].period = k
  BY <1>1 DEF HolderSettled
<1> HIDE DEF old, new, start
<1>4. Len(old \o new) = end
  BY <1>1, <1>2
<1>5. ASSUME NEW k \in 1 .. end
      PROVE  (old \o new)[k].period = k
  <2>1. CASE k <= start
    <3>1. k \in 1 .. start /\ k \in 1 .. Len(old)
      BY <1>1, <2>1
    <3>2. (old \o new)[k] = old[k]
      BY <1>1, <1>2, <3>1
    <3> QED
      BY <1>3, <3>1, <3>2
  <2>2. CASE k > start
    <3>1. (old \o new)[k] = new[k - start] /\ k - start \in 1 .. end - start
      BY <1>1, <1>2, <2>2
    <3> QED
      BY <1>1, <1>2, <3>1
  <2>3. k <= start \/ k > start
    BY <1>1
  <2> QED
    BY <2>1, <2>2, <2>3, Zenon
<1> QED
  BY <1>4, <1>5 DEF old, new, start

\* No call but claim touches the index or the receipts, and none shortens the
\* list of periods.
LEMMA OnlyClaimSettles ==
  ASSUME TypeOK, [Next]_vars,
         ~ \E o \in Offerings, h \in Holders, n \in BatchSizes : claim(h, o, n)
  PROVE  /\ UNCHANGED <<lastClaimed, receipts>>
         /\ \A q \in Offerings : Len(periods[q]) <= Len(periods'[q])
<1>1. CASE UNCHANGED vars
  BY <1>1 DEF vars, poolVars, historyVars, TypeOK, PoolTypeOK
<1>2. CASE AdminNext \/ Tick
  BY <1>2 DEF AdminNext, pause_admin, hard_pause_admin, unpause_admin,
    pause_safety, unpause_safety, SetPaused, set_freeze,
    migrate_storage, Halt, set_storage_layout_version, Tick, poolVars, historyVars,
    TypeOK, PoolTypeOK
<1>3. ASSUME NEW o \in Offerings, IssuerNext(o)
      PROVE  /\ UNCHANGED <<lastClaimed, receipts>>
             /\ \A q \in Offerings : Len(periods[q]) <= Len(periods'[q])
  <2>1. ASSUME NEW t \in PayTokens, NEW a \in Amounts, NEW p \in 1..MaxPeriods,
               deposit_revenue(o, t, a, p)
        PROVE  /\ UNCHANGED <<lastClaimed, receipts>>
               /\ \A q \in Offerings : Len(periods[q]) <= Len(periods'[q])
    <3>1. UNCHANGED <<lastClaimed, receipts>>
      BY <2>1 DEF deposit_revenue, historyVars
    <3>2. PICK period : periods' = [periods EXCEPT ![o] = Append(periods[o], period)]
      BY <2>1 DEF deposit_revenue, do_deposit_revenue
    <3>3. Len(Append(periods[o], period)) = Len(periods[o]) + 1
      BY DEF TypeOK, PoolTypeOK
    <3> QED
      BY <3>1, <3>2, <3>3 DEF TypeOK, PoolTypeOK
  <2>2. CASE ~ \E t \in PayTokens, a \in Amounts, p \in 1..MaxPeriods :
                 deposit_revenue(o, t, a, p)
    <3>1. UNCHANGED <<lastClaimed, receipts, periods>>
      BY <1>3, <2>2 DEF IssuerNext, set_holder_share, set_max_total_supply_shares,
        set_claim_delay, set_claim_window, set_payment_token_decimals,
        fulfill_redemption, poolVars, historyVars
    <3> QED
      BY <3>1 DEF TypeOK, PoolTypeOK
  <2> QED
    BY <2>1, <2>2
<1>4. ASSUME NEW o \in Offerings, NEW h \in Holders, BarNext(o, h) \/ HolderNext(o, h)
      PROVE  /\ UNCHANGED <<lastClaimed, receipts>>
             /\ \A q \in Offerings : Len(periods[q]) <= Len(periods'[q])
  <2>1. UNCHANGED <<lastClaimed, receipts, periods>>
    BY <1>4 DEF BarNext, HolderNext, blacklist_add, blacklist_remove,
      emergency_freeze_holder, emergency_unfreeze_holder, request_redemption,
      poolVars, historyVars
  <2> QED
    BY <2>1 DEF TypeOK, PoolTypeOK
<1> QED
  BY <1>1, <1>2, <1>3, <1>4, Zenon DEF Next

\* Every step keeps the receipts in order.
LEMMA SettledStep ==
  ASSUME TypeOK, SettledOnceInOrder, [Next]_vars
  PROVE  SettledOnceInOrder'
<1>1. \A q \in Offerings, g \in Holders : HolderSettled(q, g)
  BY DEF SettledOnceInOrder, HolderSettled
<1>2. SUFFICES \A q \in Offerings, g \in Holders : HolderSettled(q, g)'
  BY DEF SettledOnceInOrder, HolderSettled
<1>3. ASSUME NEW o \in Offerings, NEW h \in Holders, NEW n \in BatchSizes,
             claim(h, o, n)
      PROVE  \A q \in Offerings, g \in Holders : HolderSettled(q, g)'
  <2> DEFINE start == lastClaimed[o][h]
             bound == Least(start + EffectiveMax(n, MAX_CLAIM_PERIODS), Len(periods[o]))
  <2>1. PICK end \in start + 1 .. bound : Settle(o, h, start, end)
    BY <1>3, Zenon DEF claim
  <2>2. start \in Nat /\ Len(periods[o]) \in Nat /\ EffectiveMax(n, MAX_CLAIM_PERIODS) \in Nat
    BY PositiveLimits DEF TypeOK, HolderTypeOK, PoolTypeOK, EffectiveMax
  <2>3. bound <= Len(periods[o]) /\ bound \in Nat
    BY <2>2 DEF Least
  <2> HIDE DEF bound
  <2>4. end \in start + 1 .. Len(periods[o]) /\ end \in Nat
    BY <2>2, <2>3
  <2>5. periods' = periods
    BY <1>3, Zenon DEF claim, poolVars
  <2> DEFINE all == receipts[o][h] \o ReceiptsFor(o, h, start, end)
  <2>6. Len(all) = end /\ \A k \in 1 .. end : all[k].period = k
    <3>1. HolderSettled(o, h)
      BY <1>1
    <3> QED
      BY <2>4, <3>1, AppendedReceipts, Zenon
  <2> HIDE DEF all
  <2>7. /\ receipts' = [receipts EXCEPT ![o][h] = all]
        /\ lastClaimed' = [lastClaimed EXCEPT ![o][h] = end]
    BY <2>1 DEF Settle, all
  <2>8. receipts'[o][h] = all /\ lastClaimed'[o][h] = end
    BY <2>7 DEF TypeOK, HistoryTypeOK, HolderTypeOK
  <2>9. HolderSettled(o, h)'
    BY <2>4, <2>5, <2>6, <2>8 DEF HolderSettled
  <2>10. ASSUME NEW q \in Offerings, NEW g \in Holders, ~(q = o /\ g = h)
         PROVE  HolderSettled(q, g)'
    <3>1. receipts'[q][g] = receipts[q][g] /\ lastClaimed'[q][g] = lastClaimed[q][g]
      BY <2>7, <2>10 DEF TypeOK, HistoryTypeOK, HolderTypeOK
    <3> QED
      BY <1>1, <2>5, <3>1 DEF HolderSettled
  <2> QED
    BY <2>9, <2>10
<1>4. CASE ~ \E o \in Offerings, h \in Holders, n \in BatchSizes : claim(h, o, n)
  <2>1. /\ UNCHANGED <<lastClaimed, receipts>>
        /\ \A q \in Offerings : Len(periods[q]) <= Len(periods'[q])
    BY <1>4, OnlyClaimSettles
  <2>2. TypeOK'
    BY TypeStep
  <2> QED
    BY <1>1, <2>1, <2>2 DEF HolderSettled, TypeOK, HolderTypeOK, PoolTypeOK
<1> QED
  BY <1>3, <1>4

(***************************************************************************)
(* No holder is ever paid twice for a period, or for a period that was not *)
(* deposited, and none is passed over: the claim index is an exact record  *)
(* of the receipts.  The type invariant is the only strengthening that the *)
(* induction needs.                                                        *)
(***************************************************************************)
THEOREM EveryPeriodSettledOnce == Spec => []SettledOnceInOrder
<1>1. Init => SettledOnceInOrder
  BY DEF Init, SettledOnceInOrder
<1>2. TypeOK /\ SettledOnceInOrder /\ [Next]_vars => SettledOnceInOrder'
  BY SettledStep
<1> QED
  BY <1>1, <1>2, TypeCorrect, PTL DEF Spec

-----------------------------------------------------------------------------
(***************************************************************************)
(* The totals of the register                                              *)
(***************************************************************************)

\* The running total of every offering is the sum of its shares.
RunningTotals == \A o \in Offerings : shareTotal[o] = SumFunction(share[o])

\* How far the second total is ahead of the first.
IssuedAhead(o) == sharesIssued[o] - shareTotal[o]

\* A write that keeps the running totals and moves the second total along.
KeepsTotals ==
  RunningTotals' /\ \A o \in Offerings : IssuedAhead(o)' = IssuedAhead(o)

\* One share of an exact register is at most its total, and writing that
\* share changes the sum by the difference.
LEMMA RegisterSum ==
  ASSUME NEW f \in [Holders -> 0..FULL_BPS], NEW total, total = SumFunction(f),
         NEW h \in Holders, NEW s \in Nat
  PROVE  /\ f[h] <= total
         /\ SumFunction([f EXCEPT ![h] = s]) = total - f[h] + s
<1> DEFINE g == [f EXCEPT ![h] = s]
<1>1. FULL_BPS \in Nat
  BY DEF FULL_BPS
<1>2. DOMAIN f = Holders /\ DOMAIN g = Holders
  OBVIOUS
<1>3. \A k \in Holders : f[k] \in Nat
  BY <1>1
<1>4. /\ \A k \in Holders : f[k] \in Int /\ g[k] \in Int
      /\ \A k \in Holders \ {h} : g[k] = f[k]
      /\ g[h] = s
  BY <1>1, <1>3
<1>5. total = SumFunctionOnSet(f, Holders)
  BY <1>2 DEF SumFunction
<1>6. f[h] <= SumFunctionOnSet(f, Holders)
  BY <1>3, FiniteHolders, SumOfNaturals
<1>7. SumFunctionOnSet(g, Holders) = SumFunctionOnSet(f, Holders) - f[h] + g[h]
  <2> HIDE DEF g
  <2> QED
    BY <1>4, FiniteHolders, SumOfUpdate
<1> QED
  BY <1>2, <1>4, <1>5, <1>6, <1>7 DEF SumFunction

\* set_holder_share_internal, whoever calls it, keeps both totals: the
\* running total never falls back to 0, because it covers the share it drops.
LEMMA SetShareKeepsTotals ==
  ASSUME RegisterTypeOK, RunningTotals, NEW o \in Offerings, NEW h \in Holders, NEW s \in Nat,
         NEW count, set_holder_share_internal(o, h, s, count)
  PROVE  KeepsTotals
<1> DEFINE total == shareTotal[o] - share[o][h] + s
<1>1. /\ share[o][h] <= shareTotal[o]
      /\ SumFunction([share[o] EXCEPT ![h] = s]) = total
  <2>1. share[o] \in [Holders -> 0..FULL_BPS] /\ shareTotal[o] = SumFunction(share[o])
    BY DEF RegisterTypeOK, RunningTotals
  <2> QED
    BY <2>1, RegisterSum
<1>2. shareTotal[o] \in Nat /\ share[o][h] \in Nat /\ sharesIssued[o] \in Int
  <2>1. FULL_BPS \in Nat
    BY DEF FULL_BPS
  <2>2. /\ shareTotal[o] \in 0..FULL_BPS /\ share[o][h] \in 0..FULL_BPS
        /\ sharesIssued[o] \in Int
    BY DEF RegisterTypeOK
  <2> QED
    BY <2>1, <2>2
<1>3. /\ TotalAfter(o, h, s) = total
      /\ IssuedAfter(o, h, s) - total = sharesIssued[o] - shareTotal[o]
  BY <1>1, <1>2 DEF TotalAfter, IssuedAfter, SubOrZero
<1>4. /\ share' = [share EXCEPT ![o] = [share[o] EXCEPT ![h] = s]]
      /\ shareTotal' = [shareTotal EXCEPT ![o] = total]
      /\ sharesIssued' = [sharesIssued EXCEPT ![o] = IssuedAfter(o, h, s)]
  BY <1>3 DEF set_holder_share_internal
<1>5. DOMAIN share = Offerings /\ DOMAIN shareTotal = Offerings /\ DOMAIN sharesIssued = Offerings
  BY DEF RegisterTypeOK
<1> SUFFICES ASSUME NEW q \in Offerings
             PROVE  /\ shareTotal'[q] = SumFunction(share'[q])
                    /\ sharesIssued'[q] - shareTotal'[q] = sharesIssued[q] - shareTotal[q]
  BY DEF KeepsTotals, RunningTotals, IssuedAhead
<1> HIDE DEF total
<1>6. CASE q = o
  <2>1. share'[q] = [share[o] EXCEPT ![h] = s]
    BY <1>4, <1>5, <1>6
  <2>2. shareTotal'[q] = total /\ sharesIssued'[q] = IssuedAfter(o, h, s)
    BY <1>4, <1>5, <1>6
  <2> QED
    BY <1>1, <1>3, <1>6, <2>1, <2>2
<1>7. CASE q # o
  <2>1. share'[q] = share[q] /\ shareTotal'[q] = shareTotal[q] /\ sharesIssued'[q] = sharesIssued[q]
    BY <1>4, <1>5, <1>7
  <2> QED
    BY <2>1 DEF RunningTotals
<1> QED
  BY <1>6, <1>7

\* Every step keeps both totals: set_holder_share and fulfill_redemption
\* write the register through set_holder_share_internal, nobody else does.
LEMMA TotalsStep ==
  ASSUME TypeOK, RunningTotals, [Next]_vars
  PROVE  KeepsTotals
<1>a. RegisterTypeOK
  BY DEF TypeOK
<1>1. ASSUME UNCHANGED <<share, shareTotal, sharesIssued>>
      PROVE  KeepsTotals
  BY <1>1 DEF KeepsTotals, RunningTotals, IssuedAhead
<1>2. CASE UNCHANGED vars
  BY <1>1, <1>2 DEF vars, registerVars
<1>3. CASE AdminNext \/ Tick
  <2>1. UNCHANGED registerVars
    BY <1>3, Zenon DEF AdminNext, pause_admin, hard_pause_admin, unpause_admin,
      pause_safety, unpause_safety, SetPaused, set_freeze,
      migrate_storage, Halt, set_storage_layout_version, Tick
  <2> QED
    BY <1>1, <2>1 DEF registerVars
<1>4. ASSUME NEW o \in Offerings, IssuerNext(o)
      PROVE  KeepsTotals
  <2>1. ASSUME NEW h \in Holders, NEW s \in Shares, set_holder_share(o, h, s)
        PROVE  KeepsTotals
    <3>1. s \in Nat /\ set_holder_share_internal(o, h, s, Len(periods[o]))
      BY <2>1, InputRanges DEF set_holder_share
    <3> QED
      BY <1>a, <3>1, SetShareKeepsTotals
  <2>2. ASSUME NEW h \in Holders, NEW a \in Amounts, fulfill_redemption(o, h, a)
        PROVE  KeepsTotals
    <3> DEFINE s == share[o][h] - Least(redemption[o][h], share[o][h])
    <3>1. set_holder_share_internal(o, h, s, Len(periods[o]))
      BY <2>2 DEF fulfill_redemption
    <3>2. share[o][h] \in 0..FULL_BPS /\ redemption[o][h] \in 0..FULL_BPS
      BY DEF TypeOK, RegisterTypeOK, HolderTypeOK
    <3>3. s \in Nat
      BY <3>2 DEF Least
    <3> HIDE DEF s
    <3> QED
      BY <1>a, <3>1, <3>3, SetShareKeepsTotals
  <2>3. ASSUME NEW cap \in ShareCaps, set_max_total_supply_shares(o, cap)
        PROVE  KeepsTotals
    BY <1>1, <2>3 DEF set_max_total_supply_shares
  <2>4. CASE \/ \E t \in PayTokens, a \in Amounts, p \in 1..MaxPeriods : deposit_revenue(o, t, a, p)
             \/ \E d \in Delays : set_claim_delay(o, d)
             \/ \E w \in Windows : set_claim_window(o, w)
             \/ \E d \in Decimals : set_payment_token_decimals(o, d)
    <3>1. UNCHANGED registerVars
      BY <2>4, Zenon DEF deposit_revenue, set_claim_delay, set_claim_window,
        set_payment_token_decimals
    <3> QED
      BY <1>1, <3>1 DEF registerVars
  <2> QED
    BY <1>4, <2>1, <2>2, <2>3, <2>4, Zenon DEF IssuerNext
<1>5. ASSUME NEW o \in Offerings, NEW h \in Holders, BarNext(o, h) \/ HolderNext(o, h)
      PROVE  KeepsTotals
  <2>1. UNCHANGED registerVars
    BY <1>5, Zenon DEF BarNext, HolderNext, blacklist_add, blacklist_remove,
      emergency_freeze_holder, emergency_unfreeze_holder, request_redemption, claim
  <2> QED
    BY <1>1, <2>1 DEF registerVars
<1> QED
  BY <1>2, <1>3, <1>4, <1>5, Zenon DEF Next

\* Nobody holds a share at first.
LEMMA TotalsInit == Init => TotalsExact
<1> SUFFICES ASSUME Init, NEW o \in Offerings
             PROVE  /\ shareTotal[o] = SumFunction(share[o])
                    /\ sharesIssued[o] = shareTotal[o]
                    /\ shareTotal[o] <= FULL_BPS
  BY DEF TotalsExact
<1> DEFINE f == share[o]
<1>1. /\ DOMAIN f = Holders /\ \A h \in Holders : f[h] = 0
      /\ shareTotal[o] = 0 /\ sharesIssued[o] = 0
  BY DEF Init, RegisterInit
<1>2. SumFunction(f) = 0
  <2> HIDE DEF f
  <2>1. SumFunctionOnSet(f, Holders) = 0
    BY <1>1, FiniteHolders, SumOfZeros
  <2> QED
    BY <1>1, <2>1 DEF SumFunction
<1> QED
  BY <1>1, <1>2 DEF FULL_BPS

(***************************************************************************)
(* Both running totals always equal the sum of the shares, which is at     *)
(* most 100%, whatever the number of holders.                              *)
(***************************************************************************)
THEOREM TotalsStayExact == Spec => []TotalsExact
<1>1. Init => TotalsExact
  BY TotalsInit
<1>2. TypeOK /\ TypeOK' /\ TotalsExact /\ [Next]_vars => TotalsExact'
  <2> SUFFICES ASSUME TypeOK, TypeOK', TotalsExact, [Next]_vars, NEW o \in Offerings
               PROVE  /\ shareTotal'[o] = SumFunction(share'[o])
                      /\ sharesIssued'[o] = shareTotal'[o]
                      /\ shareTotal'[o] <= FULL_BPS
    BY DEF TotalsExact
  <2>1. /\ shareTotal[o] \in Int /\ sharesIssued[o] \in Int
        /\ shareTotal'[o] \in 0..FULL_BPS /\ sharesIssued'[o] \in Int
    BY DEF TypeOK, RegisterTypeOK
  <2>2. RunningTotals /\ IssuedAhead(o) = 0
    BY <2>1 DEF TotalsExact, RunningTotals, IssuedAhead
  <2>3. RunningTotals' /\ IssuedAhead(o)' = 0
    BY <2>2, TotalsStep DEF KeepsTotals
  <2>4. shareTotal'[o] <= FULL_BPS
    <3>1. FULL_BPS \in Nat
      BY DEF FULL_BPS
    <3> QED
      BY <2>1, <3>1
  <2> QED
    BY <2>1, <2>3, <2>4 DEF RunningTotals, IssuedAhead
<1> QED
  BY <1>1, <1>2, TypeCorrect, PTL DEF Spec
=============================================================================
