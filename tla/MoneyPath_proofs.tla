-------------------------- MODULE MoneyPath_proofs --------------------------
(***************************************************************************)
(* Theorems about the money path and their proofs, continued: what no step *)
(* may do, that it implements the pool, that its accounts balance, that    *)
(* what the holders can take is covered, that the preview adds up, and     *)
(* that nothing but the balance stands between a holder and its claim.     *)
(***************************************************************************)
EXTENDS RevenueDistribution_proofs, WellFoundedInduction

-----------------------------------------------------------------------------
(***************************************************************************)
(* A halt is final                                                         *)
(***************************************************************************)

\* What a step of a halted contract must leave alone.
HaltedFrame == <<registerVars, poolVars, claimDelay, claimWindow, barVars,
                 redemption, redeemedOut>>

\* Once halted, the calls of an issuer reduce to the decimals of the token.
LEMMA HaltedIssuer ==
  ASSUME NEW o \in Offerings, halted, IssuerNext(o)
  PROVE  halted' /\ UNCHANGED HaltedFrame
<1>1. PICK d \in Decimals : set_payment_token_decimals(o, d)
  BY Zenon DEF IssuerNext, deposit_revenue, set_holder_share,
    set_max_total_supply_shares, set_claim_delay, set_claim_window,
    fulfill_redemption, require_not_frozen
<1> QED
  BY <1>1 DEF set_payment_token_decimals, HaltedFrame, gateVars, historyVars

\* Once halted, the calls about one holder reduce to its claims.
LEMMA HaltedHolder ==
  ASSUME NEW o \in Offerings, NEW h \in Holders, halted,
         BarNext(o, h) \/ HolderNext(o, h)
  PROVE  halted' /\ UNCHANGED HaltedFrame
<1>1. PICK n \in BatchSizes : claim(h, o, n)
  BY Zenon DEF BarNext, HolderNext, blacklist_add, blacklist_remove,
    emergency_freeze_holder, emergency_unfreeze_holder, request_redemption,
    require_not_frozen
<1>2. UNCHANGED <<registerVars, gateVars, poolVars, configVars, barVars,
                  redemption, redeemedOut>>
  BY <1>1, Zenon DEF claim
<1> QED
  BY <1>2 DEF HaltedFrame, gateVars, configVars

\* What a step may do to a halted contract.
LEMMA HaltedStep ==
  [Next]_vars => [halted => /\ halted'
                            /\ UNCHANGED <<registerVars, poolVars, claimDelay, claimWindow,
                                           barVars, redemption, redeemedOut>>]_vars
<1> SUFFICES ASSUME Next, halted PROVE halted' /\ UNCHANGED HaltedFrame
  BY DEF HaltedFrame
<1>1. CASE AdminNext \/ Tick
  BY <1>1, Zenon DEF AdminNext, pause_admin, hard_pause_admin, unpause_admin,
    pause_safety, unpause_safety, SetPaused, set_freeze,
    migrate_storage, Halt, set_storage_layout_version, Tick, HaltedFrame, gateVars,
    configVars, historyVars
<1> QED
  BY <1>1, HaltedIssuer, HaltedHolder, Zenon DEF Next

(***************************************************************************)
(* After a freeze, or a migration past this binary, no call of anybody     *)
(* touches the register, the entitlements or the bars on holders again.    *)
(***************************************************************************)
THEOREM HaltStaysFinal == Spec => HaltIsFinal
<1>1. [Next]_vars => [halted => /\ halted'
                                /\ UNCHANGED <<registerVars, poolVars, claimDelay, claimWindow,
                                               barVars, redemption, redeemedOut>>]_vars
  BY HaltedStep
<1> QED
  BY <1>1, PTL DEF Spec, HaltIsFinal

-----------------------------------------------------------------------------
(***************************************************************************)
(* Share changes are forward-only                                          *)
(***************************************************************************)

\* A checkpoint written at count does not change the share that prices any of
\* the first count periods.
LEMMA TransitionKeepsPast ==
  ASSUME NEW sched, IsSchedule(sched), DOMAIN sched # {},
         NEW count \in Nat, NEW old, NEW new, NEW i \in 1..count
  PROVE  ShareInForce(record_holder_share_transition(sched, count, old, new), i)
           = ShareInForce(sched, i)
<1> DEFINE after == [start \in DOMAIN sched \cup {count} |->
                       IF start = count THEN new ELSE sched[start]]
           started == {start \in DOMAIN sched : start < i}
<1>1. CASE old = new
  BY <1>1 DEF record_holder_share_transition
<1>2. CASE old # new
  <2>1. record_holder_share_transition(sched, count, old, new) = after
    BY <1>2 DEF record_holder_share_transition, get_holder_share_schedule
  <2>2. DOMAIN sched \subseteq 0..MaxPeriods /\ MaxPeriods \in Nat
    BY PositiveLimits DEF IsSchedule
  <2>3. {start \in DOMAIN after : start < i} = started
    BY <2>2
  <2>4. CASE started = {}
    BY <2>1, <2>3, <2>4 DEF ShareInForce
  <2>5. CASE started # {}
    <3>1. started \in SUBSET (0..MaxPeriods)
      BY <2>2
    <3>2. \E m \in started : \A t \in started : t <= m
      <4> HIDE DEF started
      <4> QED
        BY <2>2, <2>5, <3>1, LargestMember
    <3> DEFINE last == CHOOSE s \in started : \A t \in started : t <= s
    <3>3. last \in started
      <4> HIDE DEF started
      <4> QED
        BY <3>2
    <3>4. last \in DOMAIN sched /\ last # count
      <4> HIDE DEF last
      <4> QED
        BY <2>2, <3>3
    <3>5. after[last] = sched[last]
      <4> HIDE DEF last
      <4> QED
        BY <3>4
    <3>6. ShareInForce(sched, i) = sched[last]
      BY <2>5 DEF ShareInForce
    <3>7. ShareInForce(after, i) = after[last]
      <4> HIDE DEF after, started
      <4> QED
        BY <2>3, <2>5 DEF ShareInForce
    <3> QED
      BY <2>1, <3>5, <3>6, <3>7
  <2> QED
    BY <2>4, <2>5
<1> QED
  BY <1>1, <1>2

\* The schedule of h got a checkpoint for a share of new, at the current count.
Checkpoint(o, h, new) ==
  schedule' = [schedule EXCEPT ![o][h] =
    record_holder_share_transition(@, Len(periods[o]), share[o][h], new)]

\* Only the register's writer touches a schedule, at the current period count.
LEMMA ScheduleStep ==
  ASSUME TypeOK, Next
  PROVE  \/ schedule' = schedule
         \/ \E o \in Offerings, h \in Holders, new \in Int : Checkpoint(o, h, new)
<1>1. ASSUME NEW o \in Offerings, NEW h \in Holders, NEW s \in Shares,
             set_holder_share(o, h, s)
      PROVE  \E new \in Int : Checkpoint(o, h, new)
  <2>1. s \in Int
    BY InputRanges
  <2>2. Checkpoint(o, h, s)
    BY <1>1, Zenon DEF set_holder_share, set_holder_share_internal, Checkpoint
  <2> QED
    BY <2>1, <2>2
<1>2. ASSUME NEW o \in Offerings, NEW h \in Holders, NEW a \in Amounts,
             fulfill_redemption(o, h, a)
      PROVE  \E new \in Int : Checkpoint(o, h, new)
  <2> DEFINE new_share == share[o][h] - Least(redemption[o][h], share[o][h])
  <2>1. share[o][h] \in Nat /\ redemption[o][h] \in Nat
    BY DEF TypeOK, RegisterTypeOK, HolderTypeOK
  <2>2. new_share \in Int
    BY <2>1 DEF Least
  <2>3. Checkpoint(o, h, new_share)
    BY <1>2, Zenon DEF fulfill_redemption, set_holder_share_internal, Checkpoint
  <2> HIDE DEF new_share
  <2> QED
    BY <2>2, <2>3
<1>3. ASSUME NEW o \in Offerings, IssuerNext(o),
             ~ \E h \in Holders, s \in Shares : set_holder_share(o, h, s),
             ~ \E h \in Holders, a \in Amounts : fulfill_redemption(o, h, a)
      PROVE  schedule' = schedule
  BY <1>3 DEF IssuerNext, deposit_revenue, set_max_total_supply_shares,
    set_claim_delay, set_claim_window, set_payment_token_decimals, registerVars
<1>4. ASSUME NEW o \in Offerings, NEW h \in Holders, BarNext(o, h) \/ HolderNext(o, h)
      PROVE  schedule' = schedule
  BY <1>4 DEF BarNext, HolderNext, blacklist_add, blacklist_remove, claim,
    emergency_freeze_holder, emergency_unfreeze_holder, request_redemption, registerVars
<1>5. CASE AdminNext \/ Tick
  BY <1>5 DEF AdminNext, pause_admin, hard_pause_admin, unpause_admin,
    pause_safety, unpause_safety, SetPaused, set_freeze,
    migrate_storage, Halt, set_storage_layout_version, Tick, registerVars
<1> QED
  BY <1>1, <1>2, <1>3, <1>4, <1>5, Zenon DEF Next

\* The step leaves the shares that price the deposited periods.
KeepsPastShares ==
  \A o \in Offerings, h \in Holders :
    DOMAIN schedule[o][h] # {} =>
      \A i \in 1 .. Len(periods[o]) :
        ShareInForce(schedule'[o][h], i) = ShareInForce(schedule[o][h], i)

\* Every step does.
LEMMA PastSharesStep ==
  TypeOK /\ [Next]_vars => [KeepsPastShares]_vars
<1> SUFFICES ASSUME TypeOK, Next,
                    NEW q \in Offerings, NEW g \in Holders,
                    DOMAIN schedule[q][g] # {},
                    NEW i \in 1 .. Len(periods[q])
             PROVE  ShareInForce(schedule'[q][g], i) = ShareInForce(schedule[q][g], i)
  BY DEF KeepsPastShares
<1>1. CASE schedule' = schedule
  BY <1>1
<1>2. ASSUME NEW o \in Offerings, NEW h \in Holders, NEW new \in Int,
             Checkpoint(o, h, new)
      PROVE  ShareInForce(schedule'[q][g], i) = ShareInForce(schedule[q][g], i)
  <2>1. SchedulesTypeOK
    BY DEF TypeOK, RegisterTypeOK
  <2>2. CASE q = o /\ g = h
    <3>1. schedule'[q][g] = record_holder_share_transition(schedule[q][g], Len(periods[q]),
                                                           share[q][g], new)
      BY <1>2, <2>1, <2>2 DEF Checkpoint, SchedulesTypeOK
    <3>2. IsSchedule(schedule[q][g]) /\ Len(periods[q]) \in Nat
      BY <2>1 DEF TypeOK, PoolTypeOK, SchedulesTypeOK
    <3> QED
      BY <3>1, <3>2, TransitionKeepsPast
  <2>3. CASE ~(q = o /\ g = h)
    <3>1. schedule'[q][g] = schedule[q][g]
      BY <1>2, <2>1, <2>3 DEF Checkpoint, SchedulesTypeOK
    <3> QED
      BY <3>1
  <2> QED
    BY <2>2, <2>3
<1> QED
  BY <1>1, <1>2, ScheduleStep

(***************************************************************************)
(* No call changes the share with which a holder's schedule prices a       *)
(* period that is already deposited, in any instance: what a holder with a *)
(* schedule is shown for a period is settled when the period is deposited. *)
(***************************************************************************)
THEOREM PastSharesKept == Spec => DepositedPeriodsKeepTheirShare
<1>1. TypeOK /\ [Next]_vars => [KeepsPastShares]_vars
  BY PastSharesStep
<1> QED
  BY <1>1, TypeCorrect, PTL DEF Spec, DepositedPeriodsKeepTheirShare, KeepsPastShares

-----------------------------------------------------------------------------
(***************************************************************************)
(* The money path implements the pool                                      *)
(***************************************************************************)

\* An offering with a period to settle has a token to settle it in.
TokenLocked == \A o \in Offerings : Len(periods[o]) > 0 => lockedToken[o] \in PayTokens

\* The variables of the pool, as functions of the state of the contract.
poolView == <<periods, lockedToken, vault, lastClaimed, halted>>

\* The calls that move money or indices, each with all that the pool sees of it.
PoolStep ==
  \/ \E o \in Offerings, t \in PayTokens, a \in Amounts, p \in 1..MaxPeriods :
       deposit_revenue(o, t, a, p)
  \/ \E o \in Offerings, h \in Holders, n \in BatchSizes : claim(h, o, n)
  \/ \E o \in Offerings, h \in Holders, a \in Amounts : fulfill_redemption(o, h, a)
  \/ set_freeze \/ migrate_storage

\* Every other call leaves the pool alone.
LEMMA OtherStep ==
  ASSUME [Next]_vars, ~PoolStep
  PROVE  UNCHANGED poolView
<1>1. CASE UNCHANGED vars
  BY <1>1 DEF vars, poolView, poolVars, gateVars
<1>2. ASSUME NEW o \in Offerings, IssuerNext(o) PROVE UNCHANGED poolView
  BY <1>2, Zenon DEF IssuerNext, PoolStep, set_holder_share, set_max_total_supply_shares,
    set_claim_delay, set_claim_window, set_payment_token_decimals, poolView,
    poolVars, gateVars
<1>3. ASSUME NEW o \in Offerings, NEW h \in Holders, BarNext(o, h) \/ HolderNext(o, h)
      PROVE  UNCHANGED poolView
  BY <1>3, Zenon DEF BarNext, HolderNext, PoolStep, blacklist_add, blacklist_remove,
    emergency_freeze_holder, emergency_unfreeze_holder, request_redemption,
    poolView, poolVars, gateVars
<1>4. CASE AdminNext \/ Tick
  BY <1>4, Zenon DEF AdminNext, PoolStep, pause_admin, hard_pause_admin, unpause_admin,
    pause_safety, unpause_safety, SetPaused,
    set_storage_layout_version, Tick, poolView, poolVars, gateVars
<1> QED
  BY <1>1, <1>2, <1>3, <1>4, Zenon DEF Next

\* A successful deposit of a payable amount, as the pool sees it.
LEMMA DepositTakesIn ==
  ASSUME TypeOK, NEW o \in Offerings, NEW t \in PayTokens, NEW a \in Amounts,
         NEW p \in 1..MaxPeriods, deposit_revenue(o, t, a, p)
  PROVE  Pool!TakeIn(o, t) /\ lockedToken' = [lockedToken EXCEPT ![o] = t]
         /\ (\A q \in Offerings : q # o => periods'[q] = periods[q])
<1>1. PICK period : periods' = [periods EXCEPT ![o] = Append(periods[o], period)]
  BY DEF deposit_revenue, do_deposit_revenue
<1>2. /\ a > 0 /\ a \in Int
      /\ lockedToken[o] \in {NoToken, t}
      /\ vault' = [vault EXCEPT ![t] = @ + a]
      /\ lockedToken' = [lockedToken EXCEPT ![o] = t]
      /\ UNCHANGED <<lastClaimed, halted>> /\ ~halted
  BY InputRanges DEF deposit_revenue, do_deposit_revenue, TokenAccepted,
    require_not_frozen, gateVars
<1>3. vault \in [PayTokens -> Nat] /\ periods \in [Offerings -> Seq(Period)]
  BY DEF TypeOK, VaultTypeOK, PoolTypeOK
<1>4. vault'[t] = vault[t] + a /\ vault'[t] > vault[t]
  BY <1>2, <1>3
<1>5. [q \in Offerings |-> Len(periods'[q])]
        = [[q \in Offerings |-> Len(periods[q])] EXCEPT ![o] = @ + 1]
  <2>1. Len(Append(periods[o], period)) = Len(periods[o]) + 1
    BY <1>3
  <2> QED
    BY <1>1, <1>3, <2>1
<1> QED
  BY <1>1, <1>2, <1>3, <1>4, <1>5 DEF Pool!TakeIn

\* A claim, as the pool sees it.
LEMMA ClaimSettles ==
  ASSUME TypeOK, TokenLocked, NEW o \in Offerings, NEW h \in Holders,
         NEW n \in BatchSizes, claim(h, o, n)
  PROVE  Pool!Settle(o, h) /\ UNCHANGED <<periods, lockedToken>>
<1> DEFINE start == lastClaimed[o][h]
           bound == Least(start + EffectiveMax(n, MAX_CLAIM_PERIODS), Len(periods[o]))
<1>1. PICK end \in start + 1 .. bound :
        /\ vault' = vault \/ \E total : PayOut(o, total)
        /\ Settle(o, h, start, end)
  BY Zenon DEF claim
<1>2. UNCHANGED <<periods, lockedToken, halted>>
  BY Zenon DEF claim, poolVars, gateVars
<1>3. start \in Nat /\ Len(periods[o]) \in Nat /\ EffectiveMax(n, MAX_CLAIM_PERIODS) \in Nat
  BY PositiveLimits DEF TypeOK, HolderTypeOK, PoolTypeOK, EffectiveMax
<1>4. bound <= Len(periods[o]) /\ bound \in Nat
  BY <1>3 DEF Least
<1> HIDE DEF bound
<1>5. end \in start + 1 .. Len(periods[o]) /\ Len(periods[o]) > 0
  BY <1>3, <1>4
<1>6. lastClaimed' = [lastClaimed EXCEPT ![o][h] = end]
  BY <1>1 DEF Settle
<1>7. lockedToken[o] \in PayTokens /\ lockedToken[o] # NoToken
  BY <1>5, Sentinels DEF TokenLocked
<1>8. Pool!PayFrom(o, 0)
  <2>1. vault \in [PayTokens -> Nat]
    BY DEF TypeOK, VaultTypeOK
  <2>2. CASE vault' = vault
    <3>1. 0 \in 0 .. vault[lockedToken[o]]
      BY <1>7, <2>1
    <3>2. vault' = [vault EXCEPT ![lockedToken[o]] = @ - 0]
      BY <1>7, <2>1, <2>2
    <3> QED
      BY <1>7, <3>1, <3>2 DEF Pool!PayFrom
  <2>3. ASSUME NEW total, PayOut(o, total) PROVE Pool!PayFrom(o, 0)
    <3>1. total \in 0 .. vault[lockedToken[o]]
      BY <1>7, <2>1, <2>3 DEF PayOut
    <3> QED
      BY <1>7, <2>3, <3>1 DEF PayOut, Pool!PayFrom
  <2> QED
    BY <1>1, <2>2, <2>3
<1>9. Pool!Settle(o, h)
  BY <1>2, <1>5, <1>6, <1>8 DEF Pool!Settle
<1> QED
  BY <1>2, <1>9

\* A fulfilled redemption, as the pool sees it.
LEMMA FulfillBuysOut ==
  ASSUME TypeOK, NEW o \in Offerings, NEW h \in Holders, NEW a \in Amounts,
         fulfill_redemption(o, h, a)
  PROVE  Pool!BuyOut(o) /\ UNCHANGED <<periods, lockedToken>>
<1>1. PayOut(o, a) /\ ~halted
  BY Zenon DEF fulfill_redemption, require_not_frozen
<1>2. UNCHANGED <<periods, lockedToken, lastClaimed, halted>>
  BY Zenon DEF fulfill_redemption, poolVars, gateVars
<1>3. Pool!PayFrom(o, 1)
  BY <1>1 DEF PayOut, Pool!PayFrom
<1> QED
  BY <1>1, <1>2, <1>3 DEF Pool!BuyOut

\* A freeze or a migration, as the pool sees it.
LEMMA HaltCloses ==
  ASSUME set_freeze \/ migrate_storage
  PROVE  Pool!Close /\ UNCHANGED <<periods, lockedToken>>
BY DEF set_freeze, migrate_storage, Halt, poolVars, Pool!Close

\* A token, once locked, stays locked, and a period is never without one.
LEMMA TokenLockedStep ==
  ASSUME TypeOK, TokenLocked, [Next]_vars
  PROVE  TokenLocked'
<1>1. CASE UNCHANGED <<periods, lockedToken>>
  BY <1>1 DEF TokenLocked
<1>2. ASSUME NEW o \in Offerings, NEW t \in PayTokens, NEW a \in Amounts,
             NEW p \in 1..MaxPeriods, deposit_revenue(o, t, a, p)
      PROVE  TokenLocked'
  <2>1. /\ lockedToken' = [lockedToken EXCEPT ![o] = t]
        /\ \A q \in Offerings : q # o => periods'[q] = periods[q]
    BY <1>2, DepositTakesIn
  <2> QED
    BY <2>1 DEF TokenLocked, TypeOK, PoolTypeOK
<1>3. CASE ~PoolStep
  BY <1>1, <1>3, OtherStep DEF poolView
<1> QED
  BY <1>1, <1>2, <1>3, ClaimSettles, FulfillBuysOut, HaltCloses, Zenon DEF PoolStep

\* Every step is one of the pool, or leaves the pool alone.
LEMMA PoolSteps ==
  TypeOK /\ TokenLocked /\ [Next]_vars => [Pool!Next]_(Pool!vars)
<1> SUFFICES ASSUME TypeOK, TokenLocked, [Next]_vars
             PROVE  Pool!Next \/ UNCHANGED Pool!vars
  OBVIOUS
<1>1. CASE PoolStep
  BY <1>1, DepositTakesIn, ClaimSettles, FulfillBuysOut, HaltCloses, Zenon
    DEF PoolStep, Pool!Next
<1>2. CASE ~PoolStep
  BY <1>2, OtherStep DEF poolView, Pool!vars
<1> QED
  BY <1>1, <1>2

(***************************************************************************)
(* Whatever the instance, the contract is a pool: money enters with a      *)
(* period and leaves to holders only, from the offering's own token and    *)
(* within the balance, claim indices move forward within the periods taken *)
(* in, and a halt leaves nothing but settling.  The strengthening says     *)
(* that an offering with periods has a token.                              *)
(***************************************************************************)
THEOREM MoneyPathIsAPool == Spec => ImplementsPool
<1>1. Init => Pool!Init /\ TokenLocked
  BY DEF Init, Pool!Init, TokenLocked
<1>2. TypeOK /\ TokenLocked /\ [Next]_vars => TokenLocked'
  BY TokenLockedStep
<1>3. TypeOK /\ TokenLocked /\ [Next]_vars => [Pool!Next]_(Pool!vars)
  BY PoolSteps
<1> QED
  BY <1>1, <1>2, <1>3, TypeCorrect, PTL DEF Spec, ImplementsPool, Pool!Spec

-----------------------------------------------------------------------------
(***************************************************************************)
(* The balance of the contract                                             *)
(***************************************************************************)

\* The sum of the amounts of a sequence of periods or of receipts.
AmountsOf(s) == SumFunction([i \in 1 .. Len(s) |-> s[i].amount])

LEMMA AmountsOfType ==
  ASSUME NEW s, Len(s) \in Nat, \A i \in 1 .. Len(s) : s[i].amount \in Nat
  PROVE  AmountsOf(s) \in Nat
<1> DEFINE f == [i \in 1 .. Len(s) |-> s[i].amount]
<1>1. DOMAIN f = 1 .. Len(s) /\ \A i \in 1 .. Len(s) : f[i] \in Nat
  OBVIOUS
<1>2. IsFiniteSet(1 .. Len(s))
  BY RangeIsFinite
<1> HIDE DEF f
<1>3. SumFunctionOnSet(f, 1 .. Len(s)) \in Nat
  BY <1>1, <1>2, SumOfNaturals
<1> QED
  BY <1>1, <1>3 DEF AmountsOf, SumFunction, f

\* A longer sequence adds the amounts of its new part.
LEMMA AmountsOfLonger ==
  ASSUME NEW s, NEW u, NEW g, Len(s) \in Nat, Len(u) \in Nat, Len(s) <= Len(u),
         \A i \in 1 .. Len(s) : s[i].amount \in Nat /\ u[i].amount = s[i].amount,
         \A i \in Len(s) + 1 .. Len(u) : g[i] \in Nat /\ u[i].amount = g[i]
  PROVE  AmountsOf(u) = AmountsOf(s) + SumFunctionOnSet(g, Len(s) + 1 .. Len(u))
<1> DEFINE n == Len(s)
           m == Len(u)
           f == [i \in 1 .. n |-> s[i].amount]
           all == [i \in 1 .. m |-> u[i].amount]
<1>1. /\ n \in Nat /\ m \in Nat /\ n <= m
      /\ 1 .. m = (1 .. n) \cup (n + 1 .. m)
      /\ (1 .. n) \cap (n + 1 .. m) = {}
      /\ IsFiniteSet(1 .. n) /\ IsFiniteSet(n + 1 .. m)
  BY RangeIsFinite
<1>2. /\ DOMAIN f = 1 .. n /\ DOMAIN all = 1 .. m
      /\ \A i \in 1 .. n : f[i] \in Int /\ all[i] = f[i]
      /\ \A i \in n + 1 .. m : g[i] \in Int /\ all[i] = g[i]
  <2>1. ASSUME NEW i \in 1 .. n PROVE f[i] \in Int /\ all[i] = f[i]
    BY <1>1
  <2>2. ASSUME NEW i \in n + 1 .. m PROVE g[i] \in Int /\ all[i] = g[i]
    BY <1>1
  <2> QED
    BY <2>1, <2>2
<1>3. AmountsOf(s) = SumFunctionOnSet(f, 1 .. n) /\ AmountsOf(u) = SumFunctionOnSet(all, 1 .. m)
  BY <1>2 DEF AmountsOf, SumFunction
<1> DEFINE A == 1 .. n
           B == n + 1 .. m
<1>4. IsFiniteSet(A) /\ IsFiniteSet(B) /\ A \cap B = {} /\ 1 .. m = A \cup B
  BY <1>1
<1>5. /\ \A i \in A : f[i] \in Int /\ all[i] = f[i]
      /\ \A i \in B : g[i] \in Int /\ all[i] = g[i]
  BY <1>2
<1>6. /\ AmountsOf(s) = SumFunctionOnSet(f, A) /\ AmountsOf(u) = SumFunctionOnSet(all, A \cup B)
      /\ SumFunctionOnSet(g, Len(s) + 1 .. Len(u)) = SumFunctionOnSet(g, B)
  BY <1>3, <1>4
<1> HIDE DEF f, all, n, m, A, B
<1>7. SumFunctionOnSet(all, A \cup B) = SumFunctionOnSet(all, A) + SumFunctionOnSet(all, B)
  BY <1>4, <1>5, SumOfUnion
<1>8. SumFunctionOnSet(f, A) = SumFunctionOnSet(all, A)
  BY <1>4, <1>5, SumOfSameTerms
<1>9. SumFunctionOnSet(g, B) = SumFunctionOnSet(all, B)
  BY <1>4, <1>5, SumOfSameTerms
<1> QED
  BY <1>6, <1>7, <1>8, <1>9

\* What an offering added to the balance of its token.
Net(o) == Revenue(o) - Claimed(o) - redeemedOut[o]

LEMMA AccountsAreAmounts ==
  ASSUME NEW o, NEW h
  PROVE  Revenue(o) = AmountsOf(periods[o]) /\ ClaimedBy(o, h) = AmountsOf(receipts[o][h])
BY DEF Revenue, ClaimedBy, AmountsOf

\* Deposits and receipts are of natural amounts.
LEMMA AmountsType ==
  ASSUME TypeOK, NEW o \in Offerings
  PROVE  /\ Len(periods[o]) \in Nat
         /\ \A i \in 1 .. Len(periods[o]) : periods[o][i] \in Period /\ periods[o][i].amount \in Nat
         /\ \A h \in Holders :
              /\ Len(receipts[o][h]) \in Nat
              /\ \A i \in 1 .. Len(receipts[o][h]) : receipts[o][h][i].amount \in Nat
<1>1. periods[o] \in Seq(Period)
  BY DEF TypeOK, PoolTypeOK
<1>2. ASSUME NEW h \in Holders PROVE receipts[o][h] \in Seq(Receipt)
  BY DEF TypeOK, HistoryTypeOK
<1>3. ASSUME NEW i \in 1 .. Len(periods[o])
      PROVE  periods[o][i] \in Period /\ periods[o][i].amount \in Nat
  <2>1. periods[o][i] \in Period
    BY <1>1
  <2> QED
    BY <2>1 DEF Period
<1>4. ASSUME NEW h \in Holders, NEW i \in 1 .. Len(receipts[o][h])
      PROVE  receipts[o][h][i].amount \in Nat
  <2>1. receipts[o][h][i] \in Receipt
    BY <1>2
  <2> QED
    BY <2>1 DEF Receipt
<1> QED
  BY <1>1, <1>2, <1>3, <1>4

\* The accounts of an offering are integers.
LEMMA NetType ==
  ASSUME TypeOK, NEW o \in Offerings
  PROVE  /\ Revenue(o) \in Nat /\ Claimed(o) \in Nat /\ Net(o) \in Int
         /\ \A h \in Holders : ClaimedBy(o, h) \in Nat
<1>1. Revenue(o) \in Nat
  BY AmountsType, AmountsOfType, AccountsAreAmounts
<1>2. \A h \in Holders : ClaimedBy(o, h) \in Nat
  BY AmountsType, AmountsOfType, AccountsAreAmounts
<1>3. Claimed(o) \in Nat
  <2> DEFINE f == [h \in Holders |-> ClaimedBy(o, h)]
  <2>1. DOMAIN f = Holders /\ \A h \in Holders : f[h] \in Nat
    BY <1>2
  <2>2. Claimed(o) = SumFunctionOnSet(f, Holders)
    BY <2>1 DEF Claimed, SumFunction
  <2> HIDE DEF f
  <2> QED
    BY <2>1, <2>2, FiniteHolders, SumOfNaturals
<1>4. redeemedOut[o] \in Nat
  BY DEF TypeOK, HistoryTypeOK
<1> QED
  BY <1>1, <1>2, <1>3, <1>4 DEF Net

\* A sum moves with one of its terms, an index that had no part in it included.
LEMMA SumFollows ==
  ASSUME NEW net, NEW net2, NEW A, IsFiniteSet(A), NEW o, NEW d \in Int,
         \A q \in A \cup {o} : net[q] \in Int /\ net2[q] \in Int,
         o \in A \/ net[o] = 0,
         net2[o] = net[o] + d, \A q \in A \ {o} : net2[q] = net[q]
  PROVE  SumFunctionOnSet(net2, A \cup {o}) = SumFunctionOnSet(net, A) + d
<1>1. SumFunctionOnSet(net, A) \in Int
  BY SumIsInt
<1>2. CASE o \in A
  <2>1. A \cup {o} = A
    BY <1>2
  <2>2. SumFunctionOnSet(net2, A) = SumFunctionOnSet(net, A) - net[o] + net2[o]
    BY <1>2, SumOfUpdate
  <2>3. SumFunctionOnSet(net2, A) = SumFunctionOnSet(net, A) + d
    BY <1>1, <2>2
  <2> QED
    BY <2>1, <2>3, Zenon
<1>3. CASE o \notin A
  <2>1. \A q \in A : net[q] \in Int /\ net2[q] = net[q]
    BY <1>3
  <2>2. SumFunctionOnSet(net2, A \cup {o}) = SumFunctionOnSet(net, A) + net2[o]
    BY <1>3, <2>1, SumOfExtension
  <2> QED
    BY <1>3, <2>2
<1> QED
  BY <1>2, <1>3

\* The part of the accounts that an induction over the calls carries.
Accounts ==
  /\ IsFiniteSet({o \in Offerings : lockedToken[o] # NoToken})
  /\ \A o \in Offerings : lockedToken[o] = NoToken => Net(o) = 0
  /\ \A t \in PayTokens :
       vault[t] = SumFunctionOnSet([o \in Offerings |-> Net(o)], OfferingsPaidIn(t))

\* One offering locked to t, or not locked before, and t's balance move alike.
LEMMA AccountsFollow ==
  ASSUME TypeOK, TypeOK', Accounts, NEW o \in Offerings, NEW t \in PayTokens, NEW d \in Int,
         lockedToken[o] \in {NoToken, t}, lockedToken' = [lockedToken EXCEPT ![o] = t],
         vault' = [vault EXCEPT ![t] = @ + d],
         Net(o)' = Net(o) + d, \A q \in Offerings \ {o} : Net(q)' = Net(q)
  PROVE  Accounts'
<1> DEFINE net == [q \in Offerings |-> Net(q)]
           net2 == [q \in Offerings |-> Net(q)']
           lock2 == lockedToken'
           vault2 == vault'
<1>1. \A q \in Offerings : net[q] \in Int /\ net2[q] \in Int
  <2>1. \A q \in Offerings : Net(q) \in Int
    BY NetType
  <2>2. \A q \in Offerings \ {o} : net2[q] \in Int /\ net2[o] \in Int
    BY <2>1
  <2> QED
    BY <2>1
<1>2. /\ net2[o] = net[o] + d
      /\ \A q \in Offerings \ {o} : net2[q] = net[q]
  OBVIOUS
<1>3. /\ lock2[o] = t /\ \A q \in Offerings \ {o} : lock2[q] = lockedToken[q]
      /\ vault2[t] = vault[t] + d /\ \A u \in PayTokens \ {t} : vault2[u] = vault[u]
  BY DEF TypeOK, PoolTypeOK, VaultTypeOK
<1>4. \A q \in Offerings : lock2[q] = NoToken => net2[q] = 0
  BY <1>2, <1>3, Sentinels DEF Accounts
<1> DEFINE Locked == {q \in Offerings : lockedToken[q] # NoToken}
           Locked2 == {q \in Offerings : lock2[q] # NoToken}
           In(u) == {q \in Offerings : lockedToken[q] = u}
           In2(u) == {q \in Offerings : lock2[q] = u}
<1>5. IsFiniteSet(Locked) /\ Locked2 = Locked \cup {o}
  BY <1>3, Sentinels DEF Accounts
<1>6. ASSUME NEW u \in PayTokens
      PROVE  /\ IsFiniteSet(In(u)) /\ In(u) \subseteq Offerings
             /\ vault[u] = SumFunctionOnSet(net, In(u))
  <2>1. In(u) \subseteq Locked
    BY Sentinels
  <2>2. IsFiniteSet(In(u))
    <3> HIDE DEF In, Locked
    <3> QED
      BY <1>5, <2>1, FS_Subset
  <2> QED
    BY <2>2 DEF Accounts, OfferingsPaidIn
<1>7. In2(t) = In(t) \cup {o} /\ (o \in In(t) \/ net[o] = 0)
  BY <1>3 DEF Accounts
<1>8. ASSUME NEW u \in PayTokens \ {t} PROVE In2(u) = In(u) /\ o \notin In(u)
  BY <1>3, Sentinels
<1> HIDE DEF net, net2, lock2, vault2, Locked, Locked2, In, In2
<1>9. IsFiniteSet(Locked2)
  BY <1>5, FS_AddElement, Zenon
<1>10. vault2[t] = SumFunctionOnSet(net2, In2(t))
  <2>1. \A q \in In(t) \cup {o} : net[q] \in Int /\ net2[q] \in Int
    BY <1>1, <1>6
  <2>2. \A q \in In(t) \ {o} : net2[q] = net[q]
    BY <1>2, <1>6
  <2>3. SumFunctionOnSet(net2, In(t) \cup {o}) = SumFunctionOnSet(net, In(t)) + d
    <3> DEFINE A == In(t)
    <3>1. IsFiniteSet(A) /\ (o \in A \/ net[o] = 0) /\ net2[o] = net[o] + d
      BY <1>2, <1>6, <1>7
    <3>2. /\ \A q \in A \cup {o} : net[q] \in Int /\ net2[q] \in Int
          /\ \A q \in A \ {o} : net2[q] = net[q]
      BY <2>1, <2>2
    <3> HIDE DEF A
    <3>3. SumFunctionOnSet(net2, A \cup {o}) = SumFunctionOnSet(net, A) + d
      BY <3>1, <3>2, SumFollows
    <3> QED
      BY <3>3 DEF A
  <2>4. vault2[t] = SumFunctionOnSet(net2, In(t) \cup {o})
    BY <1>3, <1>6, <2>3
  <2> QED
    BY <1>7, <2>4, Zenon
<1>11. ASSUME NEW u \in PayTokens \ {t} PROVE vault2[u] = SumFunctionOnSet(net2, In2(u))
  <2>1. \A q \in In(u) : net[q] \in Int /\ net[q] = net2[q]
    BY <1>1, <1>2, <1>6, <1>8
  <2>2. SumFunctionOnSet(net, In(u)) = SumFunctionOnSet(net2, In(u))
    BY <1>6, <2>1, SumOfSameTerms
  <2>3. vault2[u] = SumFunctionOnSet(net2, In(u))
    BY <1>3, <1>6, <2>2
  <2> QED
    BY <1>8, <2>3, Zenon
<1>12. \A u \in PayTokens : vault2[u] = SumFunctionOnSet(net2, In2(u))
  BY <1>10, <1>11
<1> QED
  BY <1>4, <1>9, <1>12 DEF Accounts, OfferingsPaidIn, net2, lock2, vault2, Locked2, In2

\* The counter of the supply cap agrees with the periods, and keeps to the cap.
DepositsCounted ==
  \A o \in Offerings :
    /\ deposited[o] = Revenue(o)
    /\ SupplyCap[o] > 0 => deposited[o] <= SupplyCap[o]

\* The accounts of an offering depend on its periods, receipts and buy-outs.
LEMMA AccountsFrame ==
  ASSUME NEW q, periods'[q] = periods[q], receipts'[q] = receipts[q]
  PROVE  Revenue(q)' = Revenue(q) /\ Claimed(q)' = Claimed(q)
BY DEF Revenue, Claimed, ClaimedBy

\* Calls that leave the periods, the receipts and the buy-outs alone.
LEMMA NetFrame ==
  ASSUME NEW q, periods'[q] = periods[q], receipts'[q] = receipts[q],
         redeemedOut'[q] = redeemedOut[q]
  PROVE  Net(q)' = Net(q)
BY AccountsFrame DEF Net

\* A deposit adds its amount to the revenue of its offering, to the cap
\* counter and to the balance.
LEMMA DepositBooked ==
  ASSUME TypeOK, TypeOK', Accounts, DepositsCounted, NEW o \in Offerings, NEW t \in PayTokens,
         NEW a \in Amounts, NEW p \in 1..MaxPeriods, deposit_revenue(o, t, a, p)
  PROVE  Accounts' /\ DepositsCounted'
<1>1. PICK period : /\ period.amount = a
                    /\ periods' = [periods EXCEPT ![o] = Append(periods[o], period)]
  BY DEF deposit_revenue, do_deposit_revenue
<1>2. /\ a > 0 /\ a \in Int
      /\ lockedToken[o] \in {NoToken, t}
      /\ vault' = [vault EXCEPT ![t] = @ + a]
      /\ lockedToken' = [lockedToken EXCEPT ![o] = t]
      /\ deposited' = [deposited EXCEPT ![o] = @ + a]
      /\ WithinSupplyCap(o, a)
      /\ UNCHANGED <<receipts, redeemedOut>>
  BY InputRanges DEF deposit_revenue, do_deposit_revenue, TokenAccepted, historyVars
<1>3. ASSUME NEW q \in Offerings \ {o}
      PROVE  periods'[q] = periods[q] /\ deposited'[q] = deposited[q]
  BY <1>1, <1>2 DEF TypeOK, PoolTypeOK
<1>4. Revenue(o)' = Revenue(o) + a
  <2> DEFINE s == periods[o]
             u == periods'[o]
             n == Len(periods[o])
             g == [i \in {n + 1} |-> a]
  <2>1. s \in Seq(Period) /\ u = Append(s, period)
    BY <1>1 DEF TypeOK, PoolTypeOK
  <2>2. /\ n \in Nat /\ Len(s) = n /\ Len(u) = n + 1
        /\ u[n + 1] = period /\ \A i \in 1 .. n : u[i] = s[i]
    BY <2>1
  <2>3. \A i \in 1 .. n : s[i].amount \in Nat
    BY AmountsType
  <2>4. n + 1 .. n + 1 = {n + 1} /\ g[n + 1] = a /\ a \in Nat
    BY <1>2, <2>2
  <2>5. Revenue(o) = AmountsOf(s) /\ Revenue(o)' = AmountsOf(u)
    BY DEF Revenue, AmountsOf
  <2> HIDE DEF s, u, n, g
  <2>6. AmountsOf(u) = AmountsOf(s) + SumFunctionOnSet(g, n + 1 .. n + 1)
    <3>1. \A i \in n + 1 .. n + 1 : g[i] \in Nat /\ u[i].amount = g[i]
      BY <1>1, <2>2, <2>4
    <3>2. \A i \in 1 .. n : s[i].amount \in Nat /\ u[i].amount = s[i].amount
      BY <2>2, <2>3
    <3>3. Len(s) <= Len(u) /\ Len(s) \in Nat /\ Len(u) \in Nat
      BY <2>2
    <3>4. AmountsOf(u) = AmountsOf(s) + SumFunctionOnSet(g, Len(s) + 1 .. Len(u))
      BY <2>2, <3>1, <3>2, <3>3, AmountsOfLonger
    <3> QED
      BY <2>2, <3>4
  <2>7. SumFunctionOnSet(g, {n + 1}) = a
    BY <1>2, <2>4, SumOfOne
  <2>8. SumFunctionOnSet(g, n + 1 .. n + 1) = SumFunctionOnSet(g, {n + 1})
    BY <2>4, Zenon
  <2> QED
    BY <2>5, <2>6, <2>7, <2>8
<1>5. Net(o)' = Net(o) + a
  <2>1. Claimed(o)' = Claimed(o)
    BY <1>2 DEF Claimed, ClaimedBy
  <2>2. redeemedOut'[o] = redeemedOut[o]
    BY <1>2
  <2>3. Revenue(o) \in Nat /\ Claimed(o) \in Nat /\ redeemedOut[o] \in Nat
    BY NetType DEF TypeOK, HistoryTypeOK
  <2> QED
    BY <1>2, <1>4, <2>1, <2>2, <2>3 DEF Net
<1>6. \A q \in Offerings \ {o} : Net(q)' = Net(q)
  BY <1>2, <1>3, NetFrame
<1>7. Accounts'
  BY <1>2, <1>5, <1>6, AccountsFollow
<1>8. DepositsCounted'
  <2>1. deposited'[o] = deposited[o] + a
    BY <1>2 DEF TypeOK, PoolTypeOK
  <2>2. deposited'[o] = Revenue(o)' /\ (SupplyCap[o] > 0 => deposited'[o] <= SupplyCap[o])
    BY <1>2, <1>4, <2>1 DEF DepositsCounted, WithinSupplyCap
  <2>3. ASSUME NEW q \in Offerings \ {o}
        PROVE  deposited'[q] = Revenue(q)' /\ (SupplyCap[q] > 0 => deposited'[q] <= SupplyCap[q])
    BY <1>2, <1>3, AccountsFrame DEF DepositsCounted
  <2> QED
    BY <2>2, <2>3 DEF DepositsCounted
<1> QED
  BY <1>7, <1>8

\* The amounts of the receipts of one claim follow those of the earlier claims.
LEMMA AppendedAmounts ==
  ASSUME TypeOK, NEW o \in Offerings, NEW h \in Holders, HolderSettled(o, h),
         NEW end \in lastClaimed[o][h] + 1 .. Len(periods[o])
  PROVE  LET all == receipts[o][h] \o ReceiptsFor(o, h, lastClaimed[o][h], end)
         IN  /\ Len(all) = end
             /\ \A k \in 1 .. lastClaimed[o][h] : all[k] = receipts[o][h][k]
             /\ \A k \in lastClaimed[o][h] + 1 .. end : all[k].amount = ClaimPayout(o, h, k)
<1> DEFINE old == receipts[o][h]
           new == ReceiptsFor(o, h, lastClaimed[o][h], end)
           start == lastClaimed[o][h]
<1>1. old \in Seq(Receipt) /\ start \in Nat /\ end \in Nat /\ start = Len(old)
      /\ start + 1 <= end
  BY DEF TypeOK, HolderTypeOK, HistoryTypeOK, PoolTypeOK, HolderSettled
<1>2. new \in Seq(Receipt) /\ Len(new) = end - start
  BY <1>1, ReceiptsForType
<1>3. \A k \in 1 .. end - start : new[k].amount = ClaimPayout(o, h, start + k)
  BY <1>1 DEF ReceiptsFor
<1> HIDE DEF old, new, start
<1>4. Len(old \o new) = end
  BY <1>1, <1>2
<1>5. ASSUME NEW k \in 1 .. start PROVE (old \o new)[k] = old[k]
  BY <1>1, <1>2
<1>6. ASSUME NEW k \in start + 1 .. end PROVE (old \o new)[k].amount = ClaimPayout(o, h, k)
  <2>1. (old \o new)[k] = new[k - start] /\ k - start \in 1 .. end - start /\ start + (k - start) = k
    BY <1>1, <1>2
  <2> QED
    BY <1>3, <2>1
<1> QED
  BY <1>4, <1>5, <1>6 DEF old, new, start

\* A claim adds to the claims of its offering what it takes from the balance.
LEMMA ClaimBooked ==
  ASSUME TypeOK, TypeOK', Accounts, DepositsCounted, SettledOnceInOrder, TokenLocked,
         NEW o \in Offerings, NEW h \in Holders, NEW n \in BatchSizes, claim(h, o, n)
  PROVE  Accounts' /\ DepositsCounted'
<1> DEFINE start == lastClaimed[o][h]
           bound == Least(start + EffectiveMax(n, MAX_CLAIM_PERIODS), Len(periods[o]))
           pay(end) == [i \in start + 1 .. end |-> ClaimPayout(o, h, i)]
<1>1. PICK end \in start + 1 .. bound :
        /\ \/ SumFunction(pay(end)) = 0 /\ UNCHANGED vault
           \/ PayOut(o, SumFunction(pay(end)))
        /\ Settle(o, h, start, end)
  BY Zenon DEF claim
<1>2. UNCHANGED <<periods, lockedToken, deposited, redeemedOut>>
  BY Zenon DEF claim, poolVars
<1>3. start \in Nat /\ Len(periods[o]) \in Nat /\ EffectiveMax(n, MAX_CLAIM_PERIODS) \in Nat
  BY PositiveLimits DEF TypeOK, HolderTypeOK, PoolTypeOK, EffectiveMax
<1>4. bound <= Len(periods[o]) /\ bound \in Nat
  BY <1>3 DEF Least
<1> HIDE DEF bound
<1>5. end \in start + 1 .. Len(periods[o]) /\ end \in Nat /\ Len(periods[o]) > 0
  BY <1>3, <1>4
<1> DEFINE g == pay(end)
           all == receipts[o][h] \o ReceiptsFor(o, h, start, end)
           total == SumFunction(g)
<1>6. /\ DOMAIN g = start + 1 .. end
      /\ \A k \in start + 1 .. end : g[k] = ClaimPayout(o, h, k) /\ g[k] \in Nat
  <2>1. ASSUME NEW k \in start + 1 .. end PROVE ClaimPayout(o, h, k) \in Nat
    <3>1. k \in 1 .. Len(periods[o])
      BY <1>3, <1>5
    <3> QED
      BY <3>1, ClaimPayoutType
  <2> QED
    BY <2>1
<1>7. /\ receipts' = [receipts EXCEPT ![o][h] = all]
      /\ (vault' = vault /\ total = 0) \/ PayOut(o, total)
  BY <1>1 DEF Settle
<1>8. /\ Len(all) = end
      /\ \A k \in 1 .. start : all[k] = receipts[o][h][k]
      /\ \A k \in start + 1 .. end : all[k].amount = ClaimPayout(o, h, k)
  <2>1. HolderSettled(o, h)
    BY DEF SettledOnceInOrder, HolderSettled
  <2>2. end \in lastClaimed[o][h] + 1 .. Len(periods[o])
    BY <1>5
  <2> QED
    BY <2>1, <2>2, AppendedAmounts, Zenon
<1>9. ClaimedBy(o, h)' = ClaimedBy(o, h) + total /\ total \in Nat
  <2> DEFINE s == receipts[o][h]
  <2>1. Len(s) = start /\ \A k \in 1 .. start : s[k].amount \in Nat
    <3>1. Len(s) = start
      BY DEF SettledOnceInOrder
    <3> QED
      BY <3>1, AmountsType
  <2>2. receipts'[o][h] = all
    BY <1>7 DEF TypeOK, HistoryTypeOK
  <2>3. ClaimedBy(o, h) = AmountsOf(s) /\ ClaimedBy(o, h)' = AmountsOf(all)
    BY <2>2 DEF ClaimedBy, AmountsOf
  <2>4. total = SumFunctionOnSet(g, start + 1 .. end)
    BY <1>6 DEF SumFunction
  <2> HIDE DEF s, all, g, total
  <2>5. /\ \A k \in 1 .. start : s[k].amount \in Nat /\ all[k].amount = s[k].amount
        /\ \A k \in start + 1 .. end : g[k] \in Nat /\ all[k].amount = g[k]
    BY <1>6, <1>8, <2>1 DEF s
  <2>6. AmountsOf(all) = AmountsOf(s) + SumFunctionOnSet(g, start + 1 .. end)
    <3>1. AmountsOf(all) = AmountsOf(s) + SumFunctionOnSet(g, Len(s) + 1 .. Len(all))
      <4>1. Len(s) = start /\ Len(all) = end /\ start \in Nat /\ end \in Nat /\ start <= end
        BY <1>3, <1>5, <1>8, <2>1
      <4>2. /\ \A i \in 1 .. Len(s) : s[i].amount \in Nat /\ all[i].amount = s[i].amount
            /\ \A i \in Len(s) + 1 .. Len(all) : g[i] \in Nat /\ all[i].amount = g[i]
        BY <2>5, <4>1
      <4> HIDE DEF start
      <4> QED
        BY <4>1, <4>2, AmountsOfLonger
    <3> QED
      BY <1>8, <2>1, <3>1
  <2>7. SumFunctionOnSet(g, start + 1 .. end) \in Nat
    <3> DEFINE R == start + 1 .. end
    <3>1. IsFiniteSet(R) /\ \A k \in R : g[k] \in Nat
      BY <1>3, <1>5, <1>6, RangeIsFinite
    <3> HIDE DEF R
    <3>2. SumFunctionOnSet(g, R) \in Nat
      BY <3>1, SumOfNaturals
    <3> QED
      BY <3>2 DEF R
  <2> QED
    BY <2>3, <2>4, <2>6, <2>7
<1> HIDE DEF all, g, total
<1>10. Claimed(o)' = Claimed(o) + total
  <2> DEFINE f == [k \in Holders |-> ClaimedBy(o, k)]
             f2 == [k \in Holders |-> ClaimedBy(o, k)']
  <2>1. \A k \in Holders : f[k] \in Nat
    BY NetType
  <2>2. \A k \in Holders \ {h} : f2[k] = f[k]
    <3> SUFFICES ASSUME NEW k \in Holders \ {h} PROVE ClaimedBy(o, k)' = ClaimedBy(o, k)
      OBVIOUS
    <3>1. receipts'[o][k] = receipts[o][k]
      BY <1>7 DEF TypeOK, HistoryTypeOK
    <3> QED
      BY <3>1 DEF ClaimedBy
  <2>3. f2[h] = f[h] + total
    BY <1>9
  <2>4. Claimed(o) = SumFunctionOnSet(f, Holders) /\ Claimed(o)' = SumFunctionOnSet(f2, Holders)
    BY DEF Claimed, SumFunction
  <2> HIDE DEF f, f2
  <2>5. \A k \in Holders : f[k] \in Int /\ f2[k] \in Int
    BY <1>9, <2>1, <2>2, <2>3
  <2>6. SumFunctionOnSet(f2, Holders) = SumFunctionOnSet(f, Holders) - f[h] + f2[h]
    BY <2>2, <2>5, FiniteHolders, SumOfUpdate
  <2>7. SumFunctionOnSet(f, Holders) \in Int
    BY <2>5, FiniteHolders, SumIsInt
  <2> QED
    BY <1>9, <2>1, <2>3, <2>4, <2>6, <2>7
<1>11. Net(o)' = Net(o) + (- total)
  <2>1. Revenue(o)' = Revenue(o) /\ redeemedOut'[o] = redeemedOut[o]
    BY <1>2 DEF Revenue
  <2>2. Revenue(o) \in Nat /\ Claimed(o) \in Nat /\ redeemedOut[o] \in Nat
    BY NetType DEF TypeOK, HistoryTypeOK
  <2> QED
    BY <1>9, <1>10, <2>1, <2>2 DEF Net
<1>12. \A q \in Offerings \ {o} : Net(q)' = Net(q)
  <2>1. \A q \in Offerings \ {o} : receipts'[q] = receipts[q]
    BY <1>7 DEF TypeOK, HistoryTypeOK
  <2> QED
    BY <1>2, <2>1, NetFrame
<1> DEFINE t == lockedToken[o]
<1>13. t \in PayTokens /\ lockedToken' = [lockedToken EXCEPT ![o] = t]
  BY <1>2, <1>5 DEF TokenLocked, TypeOK, PoolTypeOK
<1>14. vault' = [vault EXCEPT ![t] = @ + (- total)]
  BY <1>7, <1>9, <1>13 DEF PayOut, TypeOK, VaultTypeOK
<1>15. Accounts'
  <2>1. - total \in Int
    BY <1>9
  <2> QED
    BY <1>11, <1>12, <1>13, <1>14, <2>1, AccountsFollow
<1>16. DepositsCounted'
  BY <1>2 DEF DepositsCounted, Revenue
<1> QED
  BY <1>15, <1>16

\* A buy-out is entered with what it takes from the balance.
LEMMA FulfillBooked ==
  ASSUME TypeOK, TypeOK', Accounts, DepositsCounted, NEW o \in Offerings, NEW h \in Holders,
         NEW a \in Amounts, fulfill_redemption(o, h, a)
  PROVE  Accounts' /\ DepositsCounted'
<1> DEFINE t == lockedToken[o]
<1>1. /\ PayOut(o, a) /\ a > 0
      /\ redeemedOut' = [redeemedOut EXCEPT ![o] = @ + a]
      /\ UNCHANGED <<periods, lockedToken, deposited, receipts>>
  BY Zenon DEF fulfill_redemption, poolVars
<1>2. a \in Nat
  BY <1>1, InputRanges
<1>3. /\ t \in PayTokens /\ lockedToken' = [lockedToken EXCEPT ![o] = t]
      /\ vault' = [vault EXCEPT ![t] = @ + (- a)]
  BY <1>1, <1>2 DEF PayOut, TypeOK, PoolTypeOK, VaultTypeOK
<1>4. Net(o)' = Net(o) + (- a)
  <2>1. Revenue(o)' = Revenue(o) /\ Claimed(o)' = Claimed(o)
    BY <1>1, AccountsFrame
  <2>2. Revenue(o) \in Nat /\ Claimed(o) \in Nat /\ redeemedOut[o] \in Nat
    BY NetType DEF TypeOK, HistoryTypeOK
  <2>3. redeemedOut'[o] = redeemedOut[o] + a
    BY <1>1 DEF TypeOK, HistoryTypeOK
  <2> QED
    BY <1>2, <2>1, <2>2, <2>3 DEF Net
<1>5. \A q \in Offerings \ {o} : Net(q)' = Net(q)
  <2>1. \A q \in Offerings \ {o} : redeemedOut'[q] = redeemedOut[q]
    BY <1>1 DEF TypeOK, HistoryTypeOK
  <2> QED
    BY <1>1, <2>1, NetFrame
<1>6. Accounts'
  <2>1. - a \in Int
    BY <1>2
  <2> QED
    BY <1>3, <1>4, <1>5, <2>1, AccountsFollow
<1>7. DepositsCounted'
  BY <1>1 DEF DepositsCounted, Revenue
<1> QED
  BY <1>6, <1>7

\* No other call makes an entry.
LEMMA OthersUnbooked ==
  ASSUME [Next]_vars, ~PoolStep
  PROVE  UNCHANGED <<periods, lockedToken, vault, deposited, receipts, redeemedOut>>
<1>1. CASE UNCHANGED vars
  BY <1>1 DEF vars, poolVars, historyVars
<1>2. ASSUME NEW o \in Offerings, IssuerNext(o)
      PROVE  UNCHANGED <<periods, lockedToken, vault, deposited, receipts, redeemedOut>>
  BY <1>2, Zenon DEF IssuerNext, PoolStep, set_holder_share, set_max_total_supply_shares,
    set_claim_delay, set_claim_window, set_payment_token_decimals, poolVars, historyVars
<1>3. ASSUME NEW o \in Offerings, NEW h \in Holders, BarNext(o, h) \/ HolderNext(o, h)
      PROVE  UNCHANGED <<periods, lockedToken, vault, deposited, receipts, redeemedOut>>
  BY <1>3, Zenon DEF BarNext, HolderNext, PoolStep, blacklist_add, blacklist_remove,
    emergency_freeze_holder, emergency_unfreeze_holder, request_redemption, poolVars, historyVars
<1>4. CASE AdminNext \/ Tick
  BY <1>4, Zenon DEF AdminNext, pause_admin, hard_pause_admin, unpause_admin,
    pause_safety, unpause_safety, SetPaused, set_freeze,
    migrate_storage, Halt, set_storage_layout_version, Tick, poolVars, historyVars
<1> QED
  BY <1>1, <1>2, <1>3, <1>4, Zenon DEF Next

\* Every step keeps the accounts.
LEMMA AccountsStep ==
  ASSUME TypeOK, SettledOnceInOrder, TokenLocked, Accounts, DepositsCounted, [Next]_vars
  PROVE  Accounts' /\ DepositsCounted'
<1>1. TypeOK'
  BY TypeStep
<1>2. CASE UNCHANGED <<periods, lockedToken, vault, deposited, receipts, redeemedOut>>
  BY <1>2 DEF Accounts, DepositsCounted, OfferingsPaidIn, Net, Revenue, Claimed, ClaimedBy
<1>3. CASE set_freeze \/ migrate_storage
  <2>1. UNCHANGED <<periods, lockedToken, vault, deposited, receipts, redeemedOut>>
    BY <1>3 DEF set_freeze, migrate_storage, Halt, poolVars, historyVars
  <2> QED
    BY <1>2, <2>1
<1> QED
  BY <1>1, <1>2, <1>3, OthersUnbooked, DepositBooked, ClaimBooked, FulfillBooked, Zenon
    DEF PoolStep

\* An empty contract has empty accounts.
LEMMA AccountsInit ==
  ASSUME Init
  PROVE  Accounts /\ DepositsCounted
<1>1. TypeOK
  BY TypeInit
<1>2. ASSUME NEW s, s = <<>> PROVE AmountsOf(s) = 0
  <2> DEFINE f == [i \in 1 .. Len(s) |-> s[i].amount]
  <2>1. DOMAIN f = {}
    BY <1>2
  <2> QED
    BY <2>1, SumOfNone DEF AmountsOf, SumFunction
<1>3. \A o \in Offerings : /\ periods[o] = <<>> /\ \A h \in Holders : receipts[o][h] = <<>>
                           /\ lockedToken[o] = NoToken /\ deposited[o] = 0 /\ redeemedOut[o] = 0
  BY DEF Init
<1>4. ASSUME NEW o \in Offerings
      PROVE  Revenue(o) = 0 /\ Claimed(o) = 0 /\ Net(o) = 0
  <2>1. Revenue(o) = 0
    BY <1>2, <1>3, AccountsAreAmounts
  <2> DEFINE f == [h \in Holders |-> ClaimedBy(o, h)]
  <2>2. \A h \in Holders : f[h] = 0
    BY <1>2, <1>3, AccountsAreAmounts
  <2>3. Claimed(o) = SumFunctionOnSet(f, Holders)
    BY DEF Claimed, SumFunction
  <2> HIDE DEF f
  <2>4. Claimed(o) = 0
    BY <2>2, <2>3, FiniteHolders, SumOfZeros
  <2> QED
    BY <1>3, <2>1, <2>4 DEF Net
<1>5. IsFiniteSet({o \in Offerings : lockedToken[o] # NoToken})
  <2>1. {o \in Offerings : lockedToken[o] # NoToken} = {}
    BY <1>3
  <2> QED
    BY <2>1, FS_EmptySet
<1>6. ASSUME NEW t \in PayTokens
      PROVE  vault[t] = SumFunctionOnSet([o \in Offerings |-> Net(o)], OfferingsPaidIn(t))
  <2>1. OfferingsPaidIn(t) = {}
    BY <1>3, Sentinels DEF OfferingsPaidIn
  <2>2. SumFunctionOnSet([o \in Offerings |-> Net(o)], {}) = 0
    BY SumOfNone
  <2>3. vault[t] = 0
    BY DEF Init
  <2> QED
    BY <2>1, <2>2, <2>3
<1>7. DepositsCounted
  BY <1>3, <1>4, InputRanges DEF DepositsCounted
<1> QED
  BY <1>4, <1>5, <1>6, <1>7 DEF Accounts

\* The accounts are the balance that the run checks.
LEMMA AccountsBalance ==
  ASSUME TypeOK, Accounts, DepositsCounted
  PROVE  VaultBalanced
<1> SUFFICES ASSUME NEW t \in PayTokens
             PROVE  vault[t] = SumFunction([o \in OfferingsPaidIn(t) |->
                                              Revenue(o) - Claimed(o) - redeemedOut[o]])
  BY DEF VaultBalanced, DepositsCounted
<1> DEFINE P == OfferingsPaidIn(t)
           f == [o \in Offerings |-> Net(o)]
           g == [o \in P |-> Revenue(o) - Claimed(o) - redeemedOut[o]]
<1>1. IsFiniteSet(P)
  <2>1. P \subseteq {o \in Offerings : lockedToken[o] # NoToken}
    BY Sentinels DEF OfferingsPaidIn
  <2> QED
    BY <2>1, FS_Subset DEF Accounts
<1>2. DOMAIN g = P /\ \A o \in P : f[o] \in Int /\ f[o] = g[o]
  BY NetType DEF OfferingsPaidIn, Net
<1>3. vault[t] = SumFunctionOnSet(f, P)
  BY DEF Accounts
<1>4. SumFunction(g) = SumFunctionOnSet(g, P)
  BY <1>2 DEF SumFunction
<1> HIDE DEF f, P, g
<1>5. SumFunctionOnSet(f, P) = SumFunctionOnSet(g, P)
  BY <1>1, <1>2, SumOfSameTerms
<1>6. vault[t] = SumFunction(g)
  BY <1>3, <1>4, <1>5
<1> QED
  BY <1>6 DEF g, P

\* The accounts hold in every reachable state.
LEMMA AccountsAlways == Spec => [](Accounts /\ DepositsCounted)
<1>1. Init => TokenLocked /\ Accounts /\ DepositsCounted
  <2>1. Init => TokenLocked
    BY DEF Init, TokenLocked
  <2> QED
    BY <2>1, AccountsInit
<1>2. TypeOK /\ TokenLocked /\ [Next]_vars => TokenLocked'
  BY TokenLockedStep
<1>3. TypeOK /\ SettledOnceInOrder /\ TokenLocked /\ Accounts /\ DepositsCounted /\ [Next]_vars
        => Accounts' /\ DepositsCounted'
  BY AccountsStep
<1> QED
  BY <1>1, <1>2, <1>3, TypeCorrect, EveryPeriodSettledOnce, PTL DEF Spec

(***************************************************************************)
(* The balance of the contract in a token is, at every moment and in any   *)
(* instance, what the offerings locked to it deposited less what their     *)
(* holders claimed and redeemed; and no offering deposits beyond its cap.  *)
(* The induction needs the claim index (a claim's receipts are exactly the *)
(* payouts it transfers) and that what an offering without a token adds to *)
(* no balance is nothing.                                                  *)
(***************************************************************************)
THEOREM VaultIsAlwaysBalanced == Spec => []VaultBalanced
<1>1. TypeOK /\ Accounts /\ DepositsCounted => VaultBalanced
  BY AccountsBalance
<1> QED
  BY <1>1, AccountsAlways, TypeCorrect, PTL

-----------------------------------------------------------------------------
(***************************************************************************)
(* The checkpoints of a holder                                             *)
(***************************************************************************)

\* The share in force is the one of the last checkpoint before the period.
LEMMA InForceAtLast ==
  ASSUME NEW sched, NEW i \in Nat, DOMAIN sched \subseteq Nat,
         NEW m \in DOMAIN sched, m < i, \A t \in DOMAIN sched : t < i => t <= m
  PROVE  ShareInForce(sched, i) = sched[m]
<1> DEFINE started == {start \in DOMAIN sched : start < i}
           last == CHOOSE s \in started : \A t \in started : t <= s
<1>1. m \in started /\ \A t \in started : t <= m
  OBVIOUS
<1>2. last \in started /\ \A t \in started : t <= last
  <2> HIDE DEF started
  <2> QED
    BY <1>1
<1>3. started \subseteq Nat
  OBVIOUS
<1>4. ShareInForce(sched, i) = sched[last]
  BY <1>1 DEF ShareInForce
<1> HIDE DEF started, last
<1>5. last = m
  BY <1>1, <1>2, <1>3
<1> QED
  BY <1>4, <1>5

\* The share in force is a share.
LEMMA InForceType ==
  ASSUME NEW sched, IsSchedule(sched), NEW i \in Nat
  PROVE  ShareInForce(sched, i) \in 0..FULL_BPS
<1> DEFINE started == {start \in DOMAIN sched : start < i}
<1>1. CASE started = {}
  <2>1. 0 \in 0..FULL_BPS
    BY DEF FULL_BPS
  <2> QED
    BY <1>1, <2>1 DEF ShareInForce
<1>2. CASE started # {}
  <2>1. started \in SUBSET (0..MaxPeriods) /\ MaxPeriods \in Nat
    BY PositiveLimits DEF IsSchedule
  <2>2. PICK m \in started : \A t \in started : t <= m
    <3> HIDE DEF started
    <3> QED
      BY <1>2, <2>1, LargestMember
  <2>3. m \in DOMAIN sched /\ m < i /\ \A t \in DOMAIN sched : t < i => t <= m
    BY <2>2
  <2>4. DOMAIN sched \subseteq Nat /\ sched[m] \in 0..FULL_BPS
    BY <2>3 DEF IsSchedule
  <2> QED
    BY <2>3, <2>4, InForceAtLast
<1> QED
  BY <1>1, <1>2

\* A new checkpoint is the last one, and prices every period still to come.
LEMMA TransitionEndsAtNew ==
  ASSUME NEW sched, NEW count \in Nat, DOMAIN sched \subseteq 0..count,
         NEW old, NEW new, old # new
  PROVE  LET after == record_holder_share_transition(sched, count, old, new)
         IN  /\ DOMAIN after \subseteq 0..count /\ DOMAIN after # {}
             /\ \A i \in Nat : i > count => ShareInForce(after, i) = new
<1> DEFINE existing == get_holder_share_schedule(sched, new)
           after == record_holder_share_transition(sched, count, old, new)
<1>1. DOMAIN existing \subseteq 0..count
  BY DEF get_holder_share_schedule, NoSchedule
<1>2. after = [start \in DOMAIN existing \cup {count} |->
                 IF start = count THEN new ELSE existing[start]]
  BY DEF record_holder_share_transition
<1> HIDE DEF existing, after
<1>3. DOMAIN after \subseteq 0..count /\ count \in DOMAIN after /\ after[count] = new
  BY <1>1, <1>2
<1>4. ASSUME NEW i \in Nat, i > count PROVE ShareInForce(after, i) = new
  <2>1. DOMAIN after \subseteq Nat /\ \A t \in DOMAIN after : t < i => t <= count
    BY <1>3
  <2> QED
    BY <1>3, <1>4, <2>1, InForceAtLast
<1> QED
  BY <1>3, <1>4 DEF after

\* The checkpoints of a holder start no later than now, and the last one is
\* the current share: what the register says is what the next period costs.
HolderCheckpointed(o, h) ==
  /\ DOMAIN schedule[o][h] \subseteq 0..Len(periods[o])
  /\ DOMAIN schedule[o][h] = {} => share[o][h] = 0
  /\ \A i \in Nat : i > Len(periods[o]) => ShareInForce(schedule[o][h], i) = share[o][h]

Checkpointed == \A o \in Offerings, h \in Holders : HolderCheckpointed(o, h)

\* The two calls that write a share; only set_holder_share can raise one.
WriteShare(o, h, s) ==
  /\ set_holder_share_internal(o, h, s, Len(periods[o]))
  /\ NoteRaise(o, h, s)
  /\ UNCHANGED <<periods, lastClaimed, receipts>>

\* The calls that the division of a period can see.
LEMMA DivisionSteps ==
  ASSUME TypeOK, [Next]_vars
  PROVE  \/ \E o \in Offerings, t \in PayTokens, a \in Amounts, p \in 1..MaxPeriods :
              deposit_revenue(o, t, a, p)
         \/ \E o \in Offerings, h \in Holders, n \in BatchSizes : claim(h, o, n)
         \/ \E o \in Offerings, h \in Holders, s \in Nat : WriteShare(o, h, s)
         \/ UNCHANGED <<share, schedule, periods, lastClaimed, receipts, lastRaise>>
<1>1. CASE UNCHANGED vars
  BY <1>1 DEF vars, registerVars, poolVars, historyVars
<1>2. ASSUME NEW o \in Offerings, NEW h \in Holders, NEW s \in Shares, set_holder_share(o, h, s)
      PROVE  s \in Nat /\ WriteShare(o, h, s)
  BY <1>2, InputRanges DEF set_holder_share, WriteShare, poolVars
<1>3. ASSUME NEW o \in Offerings, NEW h \in Holders, NEW a \in Amounts,
             fulfill_redemption(o, h, a)
      PROVE  \E s \in Nat : WriteShare(o, h, s)
  <2> DEFINE s == share[o][h] - Least(redemption[o][h], share[o][h])
  <2>1. share[o][h] \in Nat /\ redemption[o][h] \in Nat
    BY DEF TypeOK, RegisterTypeOK, HolderTypeOK
  <2>2. s \in Nat /\ ~(s > share[o][h])
    BY <2>1 DEF Least
  <2>3. /\ set_holder_share_internal(o, h, s, Len(periods[o]))
        /\ UNCHANGED <<periods, lastClaimed, receipts, lastRaise>>
    BY <1>3, Zenon DEF fulfill_redemption, poolVars
  <2>4. NoteRaise(o, h, s)
    <3> HIDE DEF s
    <3> QED
      BY <2>2, <2>3 DEF NoteRaise, TypeOK, HistoryTypeOK
  <2> HIDE DEF s
  <2> QED
    BY <2>2, <2>3, <2>4 DEF WriteShare
<1>4. ASSUME NEW o \in Offerings, IssuerNext(o),
             ~ \E t \in PayTokens, a \in Amounts, p \in 1..MaxPeriods : deposit_revenue(o, t, a, p),
             ~ \E h \in Holders, s \in Shares : set_holder_share(o, h, s),
             ~ \E h \in Holders, a \in Amounts : fulfill_redemption(o, h, a)
      PROVE  UNCHANGED <<share, schedule, periods, lastClaimed, receipts, lastRaise>>
  BY <1>4, Zenon DEF IssuerNext, set_max_total_supply_shares, set_claim_delay, set_claim_window,
    set_payment_token_decimals, registerVars, poolVars, historyVars
<1>5. ASSUME NEW o \in Offerings, NEW h \in Holders, BarNext(o, h) \/ HolderNext(o, h),
             ~ \E n \in BatchSizes : claim(h, o, n)
      PROVE  UNCHANGED <<share, schedule, periods, lastClaimed, receipts, lastRaise>>
  BY <1>5, Zenon DEF BarNext, HolderNext, blacklist_add, blacklist_remove,
    emergency_freeze_holder, emergency_unfreeze_holder, request_redemption, registerVars,
    poolVars, historyVars
<1>6. CASE AdminNext \/ Tick
  BY <1>6, Zenon DEF AdminNext, pause_admin, hard_pause_admin, unpause_admin,
    pause_safety, unpause_safety, SetPaused, set_freeze,
    migrate_storage, Halt, set_storage_layout_version, Tick, registerVars, poolVars, historyVars
<1> QED
  BY <1>1, <1>2, <1>3, <1>4, <1>5, <1>6, Zenon DEF Next

\* Every step keeps the checkpoints in line with the register.
LEMMA CheckpointedStep ==
  ASSUME TypeOK, Checkpointed, [Next]_vars
  PROVE  Checkpointed'
<1> SUFFICES ASSUME NEW q \in Offerings, NEW g \in Holders
             PROVE  HolderCheckpointed(q, g)'
  BY DEF Checkpointed
<1>1. HolderCheckpointed(q, g) /\ Len(periods[q]) \in Nat
  BY DEF Checkpointed, TypeOK, PoolTypeOK
<1>2. ASSUME NEW o \in Offerings, NEW t \in PayTokens, NEW a \in Amounts, NEW p \in 1..MaxPeriods,
             deposit_revenue(o, t, a, p)
      PROVE  HolderCheckpointed(q, g)'
  <2>1. UNCHANGED <<schedule, share>>
    BY <1>2 DEF deposit_revenue, registerVars
  <2>2. Len(periods[q]) <= Len(periods'[q]) /\ Len(periods'[q]) \in Nat
    <3>1. PICK period : periods' = [periods EXCEPT ![o] = Append(periods[o], period)]
      BY <1>2 DEF deposit_revenue, do_deposit_revenue
    <3>2. Len(Append(periods[o], period)) = Len(periods[o]) + 1
      BY DEF TypeOK, PoolTypeOK
    <3> QED
      BY <1>1, <3>1, <3>2 DEF TypeOK, PoolTypeOK
  <2> QED
    BY <1>1, <2>1, <2>2 DEF HolderCheckpointed
<1>3. ASSUME NEW o \in Offerings, NEW h \in Holders, NEW s \in Nat, WriteShare(o, h, s)
      PROVE  HolderCheckpointed(q, g)'
  <2>1. /\ share' = [share EXCEPT ![o][h] = s]
        /\ schedule' = [schedule EXCEPT ![o][h] =
             record_holder_share_transition(@, Len(periods[o]), share[o][h], s)]
        /\ periods' = periods
    BY <1>3 DEF WriteShare, set_holder_share_internal
  <2>2. CASE q = o /\ g = h /\ share[o][h] # s
    <3>1. /\ share'[q][g] = s
          /\ schedule'[q][g] = record_holder_share_transition(schedule[q][g], Len(periods[q]),
                                                              share[q][g], s)
      BY <2>1, <2>2 DEF TypeOK, RegisterTypeOK, SchedulesTypeOK
    <3>2. DOMAIN schedule[q][g] \subseteq 0..Len(periods[q])
      BY <1>1 DEF HolderCheckpointed
    <3>3. /\ DOMAIN schedule'[q][g] \subseteq 0..Len(periods[q]) /\ DOMAIN schedule'[q][g] # {}
          /\ \A i \in Nat : i > Len(periods[q]) => ShareInForce(schedule'[q][g], i) = s
      <4> DEFINE sched == schedule[q][g]
                 n == Len(periods[q])
                 old == share[q][g]
      <4>1. n \in Nat /\ DOMAIN sched \subseteq 0..n /\ old # s
        BY <1>1, <2>2, <3>2
      <4> HIDE DEF sched, n, old
      <4>2. LET after == record_holder_share_transition(sched, n, old, s)
            IN  /\ DOMAIN after \subseteq 0..n /\ DOMAIN after # {}
                /\ \A i \in Nat : i > n => ShareInForce(after, i) = s
        BY <4>1, TransitionEndsAtNew
      <4>3. schedule'[q][g] = record_holder_share_transition(sched, n, old, s)
        BY <3>1 DEF sched, n, old
      <4> QED
        BY <4>2, <4>3 DEF n
    <3> QED
      BY <2>1, <3>1, <3>3 DEF HolderCheckpointed
  <2>3. CASE ~(q = o /\ g = h /\ share[o][h] # s)
    <3>1. share'[q][g] = share[q][g] /\ schedule'[q][g] = schedule[q][g]
      BY <2>1, <2>3 DEF TypeOK, RegisterTypeOK, SchedulesTypeOK, record_holder_share_transition
    <3> QED
      BY <1>1, <2>1, <3>1 DEF HolderCheckpointed
  <2> QED
    BY <2>2, <2>3
<1>4. CASE UNCHANGED <<share, schedule, periods>>
  BY <1>1, <1>4 DEF HolderCheckpointed
<1>5. ASSUME NEW o \in Offerings, NEW h \in Holders, NEW n \in BatchSizes, claim(h, o, n)
      PROVE  UNCHANGED <<share, schedule, periods>>
  BY <1>5, Zenon DEF claim, registerVars, poolVars
<1> QED
  BY <1>2, <1>3, <1>4, <1>5, DivisionSteps, Zenon

-----------------------------------------------------------------------------
(***************************************************************************)
(* The division of a period                                                *)
(***************************************************************************)

LEMMA BpsType == FULL_BPS \in Nat \ {0}
BY DEF FULL_BPS

\* A division rounds down.
LEMMA DivRoundsDown ==
  ASSUME NEW a \in Nat, NEW b \in Nat \ {0}
  PROVE  (a \div b) * b <= a
OBVIOUS

LEMMA ProductIsMonotone ==
  ASSUME NEW a \in Nat, NEW b \in Nat, NEW c \in Nat, a <= b
  PROVE  c * a <= c * b /\ a * c <= b * c
OBVIOUS

\* From 7 decimals on, normalising never scales up.
LEMMA NormalizeShrinks ==
  ASSUME NEW a \in Nat, NEW d \in 0..16, d >= CANONICAL_DECIMALS
  PROVE  normalize_amount(a, d) <= a
<1>1. CASE d = 7
  <2>1. normalize_amount(a, d) = a * PowersOfTen[1]
    BY <1>1 DEF normalize_amount, CANONICAL_DECIMALS
  <2>2. PowersOfTen[1] = 1
    BY DEF PowersOfTen
  <2> QED
    BY <2>1, <2>2
<1>2. CASE d > 7
  <2>1. d - 7 + 1 \in 1..10
    BY <1>2
  <2> DEFINE b == PowersOfTen[d - 7 + 1]
  <2>2. b \in Nat \ {0}
    BY <2>1, PowerOfTenType
  <2>3. normalize_amount(a, d) = a \div b
    BY <1>2 DEF normalize_amount, CANONICAL_DECIMALS
  <2> HIDE DEF b
  <2>4. a \div b <= a
    <3>1. a \div b \in Nat /\ (a \div b) * b <= a
      BY <2>2, DivType, DivRoundsDown
    <3>2. (a \div b) * 1 <= (a \div b) * b
      BY <2>2, <3>1, ProductIsMonotone
    <3>3. (a \div b) * b \in Nat
      BY <2>2, <3>1, ProductType
    <3> QED
      BY <3>1, <3>2, <3>3
  <2> QED
    BY <2>3, <2>4
<1> QED
  BY <1>1, <1>2 DEF CANONICAL_DECIMALS

\* A part of n at s basis points, for n at most a, is at most that part of a.
LEMMA PartIsWithin ==
  ASSUME NEW a \in Nat, NEW n \in Nat, n <= a, NEW s \in Nat, NEW b \in Nat, s <= b
  PROVE  /\ (n * s) \div FULL_BPS \in Nat
         /\ ((n * s) \div FULL_BPS) * FULL_BPS <= a * b
<1>1. FULL_BPS \in Nat \ {0}
  BY DEF FULL_BPS
<1> HIDE DEF FULL_BPS
<1>2. n * s \in Nat /\ a * s \in Nat /\ a * b \in Nat
  BY ProductType
<1> DEFINE part == (n * s) \div FULL_BPS
<1>3. part \in Nat /\ part * FULL_BPS <= n * s
  <2> DEFINE p == n * s
  <2> HIDE DEF p
  <2>1. p \in Nat => p \div FULL_BPS \in Nat /\ (p \div FULL_BPS) * FULL_BPS <= p
    BY <1>1, DivType, DivRoundsDown
  <2> QED
    BY <1>2, <2>1 DEF p
<1>4. n * s <= a * s /\ a * s <= a * b
  BY ProductIsMonotone
<1>5. part * FULL_BPS \in Nat
  BY <1>1, <1>3, ProductType
<1> HIDE DEF part
<1>6. part * FULL_BPS <= a * b
  BY <1>2, <1>3, <1>4, <1>5
<1> QED
  BY <1>3, <1>6 DEF part

\* Without upscaling no figure that prices a period is above its amount.
NothingScaledUp ==
  NoUpscaling => \A o \in Offerings :
    /\ decimals[o] >= CANONICAL_DECIMALS
    /\ \A i \in 1 .. Len(periods[o]) : periods[o][i].accrued <= periods[o][i].amount

\* A holder's part of period i, taken or still to take, at b basis points.
HolderWithin(o, h, i, b) ==
  /\ share[o][h] <= b
  /\ ShareInForce(schedule[o][h], i) <= b
  /\ i <= lastClaimed[o][h] =>
       receipts[o][h][i].amount * FULL_BPS <= periods[o][i].amount * b

\* The parts the holders have taken of period i, or may still take of it, fit
\* into one division of it.
Divided(o, i) ==
  \E w \in [Holders -> 0..FULL_BPS] :
    /\ SumFunctionOnSet(w, Holders) <= FULL_BPS
    /\ \A h \in Holders : HolderWithin(o, h, i, w[h])

PeriodsDivided ==
  \A o \in Offerings : \A i \in lastRaise[o] + 1 .. Len(periods[o]) : Divided(o, i)

LEMMA ScalingStep ==
  ASSUME TypeOK, NothingScaledUp, [Next]_vars
  PROVE  NothingScaledUp'
<1> SUFFICES ASSUME NoUpscaling, NEW q \in Offerings
             PROVE  /\ decimals'[q] >= CANONICAL_DECIMALS
                    /\ \A i \in 1 .. Len(periods'[q]) :
                         periods'[q][i].accrued <= periods'[q][i].amount
  BY DEF NothingScaledUp, NoUpscaling
<1>1. /\ decimals[q] >= CANONICAL_DECIMALS
      /\ \A i \in 1 .. Len(periods[q]) : periods[q][i].accrued <= periods[q][i].amount
  BY DEF NothingScaledUp
<1>2. ASSUME NEW o \in Offerings, NEW t \in PayTokens, NEW a \in Amounts, NEW p \in 1..MaxPeriods,
             deposit_revenue(o, t, a, p)
      PROVE  /\ decimals'[q] >= CANONICAL_DECIMALS
             /\ \A i \in 1 .. Len(periods'[q]) :
                  periods'[q][i].accrued <= periods'[q][i].amount
  <2>1. PICK period : /\ period.amount = a /\ period.accrued = normalize_amount(a, decimals[o])
                      /\ periods' = [periods EXCEPT ![o] = Append(periods[o], period)]
    BY <1>2 DEF deposit_revenue, do_deposit_revenue
  <2>2. decimals' = decimals
    BY <1>2 DEF deposit_revenue, configVars
  <2>3. a \in Nat
    BY <1>2, InputRanges DEF deposit_revenue, do_deposit_revenue
  <2>4. period.accrued <= period.amount
    <3>1. decimals[o] \in 0..16 /\ decimals[o] >= CANONICAL_DECIMALS
      BY DEF TypeOK, ConfigTypeOK, NothingScaledUp
    <3> QED
      BY <2>1, <2>3, <3>1, NormalizeShrinks
  <2>5. CASE q = o
    <3>1. periods[q] \in Seq(Period) /\ periods'[q] = Append(periods[q], period)
      BY <2>1, <2>5 DEF TypeOK, PoolTypeOK
    <3> QED
      BY <1>1, <2>2, <2>4, <3>1
  <2>6. CASE q # o
    <3>1. periods'[q] = periods[q]
      BY <2>1, <2>6 DEF TypeOK, PoolTypeOK
    <3> QED
      BY <1>1, <2>2, <3>1
  <2> QED
    BY <2>5, <2>6
<1>3. ASSUME NEW o \in Offerings, NEW d \in Decimals, set_payment_token_decimals(o, d)
      PROVE  /\ decimals'[q] >= CANONICAL_DECIMALS
             /\ \A i \in 1 .. Len(periods'[q]) :
                  periods'[q][i].accrued <= periods'[q][i].amount
  <2>1. d >= CANONICAL_DECIMALS
    BY DEF NoUpscaling
  <2>2. decimals' = [decimals EXCEPT ![o] = d] /\ periods' = periods
    BY <1>3 DEF set_payment_token_decimals, poolVars
  <2>3. decimals'[q] \in {d, decimals[q]}
    BY <2>2 DEF TypeOK, ConfigTypeOK
  <2> QED
    BY <1>1, <2>1, <2>2, <2>3
<1>4. CASE UNCHANGED <<periods, decimals>>
  BY <1>1, <1>4
<1>5. ASSUME ~ \E o \in Offerings, t \in PayTokens, a \in Amounts, p \in 1..MaxPeriods :
                 deposit_revenue(o, t, a, p),
             ~ \E o \in Offerings, d \in Decimals : set_payment_token_decimals(o, d)
      PROVE  UNCHANGED <<periods, decimals>>
  <2>1. CASE UNCHANGED vars
    BY <2>1 DEF vars, poolVars, configVars
  <2>2. ASSUME NEW o \in Offerings, IssuerNext(o) PROVE UNCHANGED <<periods, decimals>>
    BY <1>5, <2>2, Zenon DEF IssuerNext, set_holder_share, set_max_total_supply_shares,
      set_claim_delay, set_claim_window, fulfill_redemption, poolVars, configVars
  <2>3. ASSUME NEW o \in Offerings, NEW h \in Holders, BarNext(o, h) \/ HolderNext(o, h)
        PROVE  UNCHANGED <<periods, decimals>>
    BY <2>3, Zenon DEF BarNext, HolderNext, claim, blacklist_add, blacklist_remove,
      emergency_freeze_holder, emergency_unfreeze_holder, request_redemption, poolVars, configVars
  <2>4. CASE AdminNext \/ Tick
    BY <2>4, Zenon DEF AdminNext, pause_admin, hard_pause_admin, unpause_admin,
      pause_safety, unpause_safety, SetPaused, set_freeze,
      migrate_storage, Halt, set_storage_layout_version, Tick, poolVars, configVars
  <2> QED
    BY <2>1, <2>2, <2>3, <2>4, Zenon DEF Next
<1> QED
  BY <1>2, <1>3, <1>4, <1>5, Zenon

\* A division of a period serves as long as every holder stays within its part.
LEMMA DividedFollows ==
  ASSUME NEW o, NEW i, Divided(o, i),
         \A h \in Holders, b \in 0..FULL_BPS : HolderWithin(o, h, i, b) => HolderWithin(o, h, i, b)'
  PROVE  Divided(o, i)'
<1>1. PICK w \in [Holders -> 0..FULL_BPS] :
        /\ SumFunctionOnSet(w, Holders) <= FULL_BPS
        /\ \A h \in Holders : HolderWithin(o, h, i, w[h])
  BY DEF Divided
<1>2. \A h \in Holders : HolderWithin(o, h, i, w[h])'
  <2> SUFFICES ASSUME NEW h \in Holders PROVE HolderWithin(o, h, i, w[h])'
    OBVIOUS
  <2> DEFINE b == w[h]
  <2>1. b \in 0..FULL_BPS /\ HolderWithin(o, h, i, b)
    BY <1>1
  <2> HIDE DEF b
  <2>2. HolderWithin(o, h, i, b)'
    BY <2>1
  <2> QED
    BY <2>2 DEF b
<1> QED
  BY <1>1, <1>2, Zenon DEF Divided

\* A new period is divided by the shares of the moment.
LEMMA NewPeriodDivided ==
  ASSUME TypeOK, TypeOK', RunningTotals, Checkpointed, NEW o \in Offerings, SettledOnceInOrder,
         NEW i, i = Len(periods[o]) + 1, UNCHANGED <<share, schedule, lastClaimed, receipts>>
  PROVE  Divided(o, i)'
<1>1. PICK w \in [Holders -> 0..FULL_BPS] : w = share[o]
  BY DEF TypeOK, RegisterTypeOK
<1>2. SumFunctionOnSet(w, Holders) <= FULL_BPS
  <2>1. DOMAIN w = Holders /\ shareTotal[o] \in 0..FULL_BPS
    BY DEF TypeOK, RegisterTypeOK
  <2>2. shareTotal[o] = SumFunctionOnSet(w, Holders)
    BY <1>1, <2>1 DEF RunningTotals, SumFunction
  <2> QED
    BY <2>1, <2>2, BpsType
<1>3. Len(periods[o]) \in Nat
  BY DEF TypeOK, PoolTypeOK
<1>4. ASSUME NEW h \in Holders PROVE HolderWithin(o, h, i, w[h])'
  <2>1. share'[o][h] <= w[h]
    <3>1. share'[o][h] \in 0..FULL_BPS
      BY DEF TypeOK, RegisterTypeOK
    <3>2. share'[o][h] = w[h]
      BY <1>1
    <3> QED
      BY <3>1, <3>2, BpsType
  <2>2. ShareInForce(schedule'[o][h], i) <= w[h]
    <3>1. ShareInForce(schedule[o][h], i) = share[o][h]
      BY <1>3 DEF Checkpointed, HolderCheckpointed
    <3> QED
      BY <2>1, <3>1
  <2>3. ~(i <= lastClaimed'[o][h])
    BY <1>3 DEF SettledOnceInOrder, TypeOK, HolderTypeOK
  <2> QED
    BY <2>1, <2>2, <2>3 DEF HolderWithin
<1> QED
  BY <1>1, <1>2, <1>4, Zenon DEF Divided

\* What a claim takes of a period is within the claimer's part of it.
LEMMA ClaimWithin ==
  ASSUME NoUpscaling, TypeOK, NothingScaledUp, NEW o \in Offerings, NEW h \in Holders,
         NEW i \in 1 .. Len(periods[o]), NEW b \in Nat
  PROVE  /\ share[o][h] <= b =>
              ClaimPayout(o, h, i) * FULL_BPS <= periods[o][i].amount * b
         /\ ShareInForce(get_holder_share_schedule(schedule[o][h], share[o][h]), i) <= b =>
              /\ SchedulePayout(o, h, i) \in Nat
              /\ SchedulePayout(o, h, i) * FULL_BPS <= periods[o][i].amount * b
<1> DEFINE a == periods[o][i].amount
           n == normalize_amount(a, decimals[o])
           c == periods[o][i].accrued
           s == share[o][h]
           f == ShareInForce(get_holder_share_schedule(schedule[o][h], s), i)
<1>1. a \in Nat /\ c \in Nat /\ c <= a
  <2>1. periods[o][i] \in Period
    BY AmountsType
  <2> QED
    BY <2>1 DEF Period, NothingScaledUp
<1>2. n \in Nat /\ n <= a
  <2>1. decimals[o] \in 0..16 /\ decimals[o] >= CANONICAL_DECIMALS
    BY DEF TypeOK, ConfigTypeOK, NothingScaledUp
  <2> HIDE DEF a
  <2> QED
    BY <1>1, <2>1, NormalizeType, NormalizeShrinks
<1>3. s \in Nat /\ f \in Nat
  <2>1. s \in 0..FULL_BPS /\ FULL_BPS \in Nat /\ IsSchedule(schedule[o][h])
    BY BpsType DEF TypeOK, RegisterTypeOK, SchedulesTypeOK
  <2>2. IsSchedule(get_holder_share_schedule(schedule[o][h], s))
    <3>1. IsSchedule(NoSchedule)
      BY DEF NoSchedule, IsSchedule
    <3>2. IsSchedule([start \in {0} |-> s])
      BY <2>1, PositiveLimits DEF IsSchedule
    <3> QED
      BY <2>1, <3>1, <3>2 DEF get_holder_share_schedule
  <2>3. f \in 0..FULL_BPS
    <3> i \in Nat
      OBVIOUS
    <3> QED
      BY <2>2, InForceType
  <2> QED
    BY <2>1, <2>3
<1>4. ClaimPayout(o, h, i) = (n * s) \div FULL_BPS /\ SchedulePayout(o, h, i) = (c * f) \div FULL_BPS
  BY DEF ClaimPayout, SchedulePayout
<1> HIDE DEF a, n, c, s, f
<1>5. s <= b => ((n * s) \div FULL_BPS) * FULL_BPS <= a * b
  BY <1>1, <1>2, <1>3, PartIsWithin
<1>6. f <= b => /\ (c * f) \div FULL_BPS \in Nat
                /\ ((c * f) \div FULL_BPS) * FULL_BPS <= a * b
  BY <1>1, <1>3, PartIsWithin
<1> QED
  BY <1>4, <1>5, <1>6 DEF a, s, f

\* No step takes a period that is divided out of its division, unless a share rises.
LEMMA DivisionStep ==
  ASSUME NoUpscaling, TypeOK, RunningTotals, SettledOnceInOrder, Checkpointed, NothingScaledUp,
         PeriodsDivided, [Next]_vars
  PROVE  PeriodsDivided'
<1> SUFFICES ASSUME NEW q \in Offerings, NEW i \in lastRaise'[q] + 1 .. Len(periods'[q])
             PROVE  Divided(q, i)'
  BY DEF PeriodsDivided
<1>1. TypeOK'
  BY TypeStep
<1>2. i \in Nat \ {0} /\ lastRaise[q] \in Nat /\ Len(periods[q]) \in Nat
  BY <1>1 DEF TypeOK, HistoryTypeOK, PoolTypeOK
<1>3. ASSUME i \in lastRaise[q] + 1 .. Len(periods[q])
      PROVE  Divided(q, i) /\ i \in 1 .. Len(periods[q])
  BY <1>2, <1>3 DEF PeriodsDivided
<1>4. ASSUME NEW o \in Offerings, NEW t \in PayTokens, NEW a \in Amounts, NEW p \in 1..MaxPeriods,
             deposit_revenue(o, t, a, p)
      PROVE  Divided(q, i)'
  <2>1. UNCHANGED <<share, schedule, lastClaimed, receipts, lastRaise>>
    BY <1>4 DEF deposit_revenue, registerVars, historyVars
  <2>2. PICK period : periods' = [periods EXCEPT ![o] = Append(periods[o], period)]
    BY <1>4 DEF deposit_revenue, do_deposit_revenue
  <2>3. /\ Len(periods'[q]) \in {Len(periods[q]), Len(periods[q]) + 1}
        /\ \A k \in 1 .. Len(periods[q]) : periods'[q][k] = periods[q][k]
    BY <2>2 DEF TypeOK, PoolTypeOK
  <2>4. CASE i = Len(periods[q]) + 1
    BY <1>1, <2>1, <2>4, NewPeriodDivided
  <2>5. CASE i # Len(periods[q]) + 1
    <3>1. i \in lastRaise[q] + 1 .. Len(periods[q])
      BY <1>2, <2>1, <2>3, <2>5
    <3>2. Divided(q, i) /\ periods'[q][i] = periods[q][i]
      BY <1>3, <2>3, <3>1
    <3>3. \A h \in Holders, b \in 0..FULL_BPS : HolderWithin(q, h, i, b) => HolderWithin(q, h, i, b)'
      BY <2>1, <3>2 DEF HolderWithin
    <3> QED
      BY <3>2, <3>3, DividedFollows
  <2> QED
    BY <2>4, <2>5
<1>5. ASSUME NEW o \in Offerings, NEW h \in Holders, NEW n \in BatchSizes, claim(h, o, n)
      PROVE  Divided(q, i)'
  <2> DEFINE start == lastClaimed[o][h]
             bound == Least(start + EffectiveMax(n, MAX_CLAIM_PERIODS), Len(periods[o]))
  <2>1. PICK end \in start + 1 .. bound : Settle(o, h, start, end)
    BY <1>5, Zenon DEF claim
  <2>2. UNCHANGED <<share, schedule, periods, lastRaise>>
    BY <1>5, Zenon DEF claim, registerVars, poolVars
  <2>3. start \in Nat /\ Len(periods[o]) \in Nat /\ EffectiveMax(n, MAX_CLAIM_PERIODS) \in Nat
    BY PositiveLimits DEF TypeOK, HolderTypeOK, PoolTypeOK, EffectiveMax
  <2>4. bound <= Len(periods[o]) /\ bound \in Nat
    BY <2>3 DEF Least
  <2> HIDE DEF bound
  <2>5. end \in start + 1 .. Len(periods[o]) /\ end \in Nat
    BY <2>3, <2>4
  <2> DEFINE all == receipts[o][h] \o ReceiptsFor(o, h, start, end)
  <2>6. /\ \A k \in 1 .. start : all[k] = receipts[o][h][k]
        /\ \A k \in start + 1 .. end : all[k].amount = ClaimPayout(o, h, k)
    <3>1. HolderSettled(o, h)
      BY DEF SettledOnceInOrder, HolderSettled
    <3> QED
      BY <2>5, <3>1, AppendedAmounts, Zenon
  <2>7. /\ receipts' = [receipts EXCEPT ![o][h] = all]
        /\ lastClaimed' = [lastClaimed EXCEPT ![o][h] = end]
    BY <2>1 DEF Settle
  <2> HIDE DEF all
  <2>8. i \in lastRaise[q] + 1 .. Len(periods[q])
    BY <2>2
  <2>9. ASSUME NEW g \in Holders, NEW b \in 0..FULL_BPS, HolderWithin(q, g, i, b)
        PROVE  HolderWithin(q, g, i, b)'
    <3>1. CASE q = o /\ g = h
      <4>1. lastClaimed'[q][g] = end /\ receipts'[q][g] = all
        BY <2>7, <3>1 DEF TypeOK, HolderTypeOK, HistoryTypeOK
      <4>2. ASSUME i <= end
            PROVE  all[i].amount * FULL_BPS <= periods[q][i].amount * b
        <5>1. CASE i <= start
          BY <1>2, <2>3, <2>6, <2>9, <3>1, <5>1 DEF HolderWithin
        <5>2. CASE i > start
          <6>1. all[i].amount = ClaimPayout(o, h, i)
            BY <1>2, <2>3, <2>5, <2>6, <4>2, <5>2
          <6>2. b \in Nat /\ i \in 1 .. Len(periods[o]) /\ share[o][h] <= b
            BY <1>3, <2>8, <2>9, <3>1, BpsType DEF HolderWithin
          <6> QED
            BY <3>1, <6>1, <6>2, ClaimWithin
        <5> QED
          BY <1>2, <2>3, <5>1, <5>2
      <4> QED
        BY <2>2, <2>9, <4>1, <4>2 DEF HolderWithin
    <3>2. CASE ~(q = o /\ g = h)
      <4>1. lastClaimed'[q][g] = lastClaimed[q][g] /\ receipts'[q][g] = receipts[q][g]
        BY <2>7, <3>2 DEF TypeOK, HolderTypeOK, HistoryTypeOK
      <4> QED
        BY <2>2, <2>9, <4>1 DEF HolderWithin
    <3> QED
      BY <3>1, <3>2
  <2> QED
    BY <1>3, <2>8, <2>9, DividedFollows
<1>6. ASSUME NEW o \in Offerings, NEW h \in Holders, NEW s \in Nat, WriteShare(o, h, s)
      PROVE  Divided(q, i)'
  <2>1. /\ share' = [share EXCEPT ![o][h] = s]
        /\ schedule' = [schedule EXCEPT ![o][h] =
             record_holder_share_transition(@, Len(periods[o]), share[o][h], s)]
        /\ UNCHANGED <<periods, lastClaimed, receipts>>
        /\ lastRaise' = [lastRaise EXCEPT ![o] = IF s > share[o][h] THEN Len(periods[o]) ELSE @]
    BY <1>6 DEF WriteShare, set_holder_share_internal, NoteRaise
  <2>2. i \in lastRaise[q] + 1 .. Len(periods[q]) /\ ~(q = o /\ s > share[o][h])
    BY <1>2, <2>1 DEF TypeOK, HistoryTypeOK
  <2>3. ASSUME NEW g \in Holders, NEW b \in 0..FULL_BPS, HolderWithin(q, g, i, b)
        PROVE  HolderWithin(q, g, i, b)'
    <3>1. CASE q = o /\ g = h
      <4>1. /\ share'[q][g] = s
            /\ schedule'[q][g] = record_holder_share_transition(schedule[q][g], Len(periods[q]),
                                                                share[q][g], s)
        BY <2>1, <3>1 DEF TypeOK, RegisterTypeOK, SchedulesTypeOK
      <4>2. s <= b
        <5>1. share[q][g] \in 0..FULL_BPS
          BY DEF TypeOK, RegisterTypeOK
        <5> QED
          BY <2>2, <2>3, <3>1, <5>1, BpsType DEF HolderWithin
      <4>3. ShareInForce(schedule'[q][g], i) = ShareInForce(schedule[q][g], i)
        <5>1. CASE DOMAIN schedule[q][g] = {}
          <6>1. share[q][g] = 0 /\ s = 0
            BY <2>2, <3>1, <5>1 DEF Checkpointed, HolderCheckpointed
          <6> QED
            BY <4>1, <6>1 DEF record_holder_share_transition
        <5>2. CASE DOMAIN schedule[q][g] # {}
          <6>1. IsSchedule(schedule[q][g]) /\ i \in 1 .. Len(periods[q])
            BY <1>3, <2>2 DEF TypeOK, RegisterTypeOK, SchedulesTypeOK
          <6> QED
            BY <1>2, <4>1, <5>2, <6>1, TransitionKeepsPast
        <5> QED
          BY <5>1, <5>2
      <4> QED
        BY <2>1, <2>3, <4>1, <4>2, <4>3 DEF HolderWithin
    <3>2. CASE ~(q = o /\ g = h)
      <4>1. share'[q][g] = share[q][g] /\ schedule'[q][g] = schedule[q][g]
        BY <2>1, <3>2 DEF TypeOK, RegisterTypeOK, SchedulesTypeOK
      <4> QED
        BY <2>1, <2>3, <4>1 DEF HolderWithin
    <3> QED
      BY <3>1, <3>2
  <2> QED
    BY <1>3, <2>2, <2>3, DividedFollows
<1>7. CASE UNCHANGED <<share, schedule, periods, lastClaimed, receipts, lastRaise>>
  <2>1. i \in lastRaise[q] + 1 .. Len(periods[q])
    BY <1>7
  <2>2. \A h \in Holders, b \in 0..FULL_BPS : HolderWithin(q, h, i, b) => HolderWithin(q, h, i, b)'
    BY <1>7 DEF HolderWithin
  <2> QED
    BY <1>3, <2>1, <2>2, DividedFollows
<1> QED
  BY <1>4, <1>5, <1>6, <1>7, DivisionSteps, Zenon

\* The higher of the two prices of a period is within its holder's part.
LEMMA DueWithin ==
  ASSUME NoUpscaling, TypeOK, SettledOnceInOrder, Checkpointed, NothingScaledUp,
         NEW o \in Offerings, NEW h \in Holders, NEW i \in 1 .. Len(periods[o]),
         NEW b \in 0..FULL_BPS, HolderWithin(o, h, i, b)
  PROVE  Due(o, h, i) \in Nat /\ Due(o, h, i) * FULL_BPS <= periods[o][i].amount * b
<1>1. b \in Nat
  BY BpsType
<1>2. CASE i <= lastClaimed[o][h]
  <2>1. Due(o, h, i) = receipts[o][h][i].amount
    BY <1>2 DEF Due
  <2>2. i \in 1 .. Len(receipts[o][h])
    BY <1>2 DEF SettledOnceInOrder, TypeOK, HolderTypeOK
  <2>3. receipts[o][h][i].amount \in Nat
    BY <2>2, AmountsType
  <2> QED
    BY <1>2, <2>1, <2>3 DEF HolderWithin
<1>3. CASE ~(i <= lastClaimed[o][h])
  <2>1. Due(o, h, i) \in {ClaimPayout(o, h, i), SchedulePayout(o, h, i)}
    BY <1>3 DEF Due
  <2>2. ShareInForce(get_holder_share_schedule(schedule[o][h], share[o][h]), i)
          = ShareInForce(schedule[o][h], i)
    <3>1. CASE DOMAIN schedule[o][h] = {}
      <4>1. share[o][h] = 0
        BY <3>1 DEF Checkpointed, HolderCheckpointed
      <4> QED
        BY <3>1, <4>1 DEF get_holder_share_schedule, NoSchedule, ShareInForce
    <3>2. CASE DOMAIN schedule[o][h] # {}
      BY <3>2 DEF get_holder_share_schedule
    <3> QED
      BY <3>1, <3>2
  <2>3. /\ share[o][h] <= b
        /\ ShareInForce(get_holder_share_schedule(schedule[o][h], share[o][h]), i) <= b
    BY <2>2 DEF HolderWithin
  <2>4. /\ ClaimPayout(o, h, i) \in Nat
        /\ ClaimPayout(o, h, i) * FULL_BPS <= periods[o][i].amount * b
        /\ SchedulePayout(o, h, i) \in Nat
        /\ SchedulePayout(o, h, i) * FULL_BPS <= periods[o][i].amount * b
    BY <1>1, <2>3, ClaimWithin, ClaimPayoutType
  <2> QED
    BY <2>1, <2>4
<1> QED
  BY <1>2, <1>3

\* What fits into one division of an amount adds up to no more than the amount.
LEMMA PartsAddUp ==
  ASSUME NEW f, NEW w, NEW a \in Nat,
         \A h \in Holders : /\ f[h] \in Nat /\ w[h] \in Nat
                            /\ f[h] * FULL_BPS <= a * w[h],
         SumFunctionOnSet(w, Holders) <= FULL_BPS
  PROVE  SumFunctionOnSet(f, Holders) <= a
<1> DEFINE ff == [h \in Holders |-> FULL_BPS * f[h]]
           aw == [h \in Holders |-> a * w[h]]
           F == SumFunctionOnSet(f, Holders)
           W == SumFunctionOnSet(w, Holders)
<1>1. FULL_BPS \in Nat \ {0}
  BY BpsType
<1>2. \A h \in Holders : ff[h] \in Nat /\ aw[h] \in Nat /\ ff[h] <= aw[h]
  <2> SUFFICES ASSUME NEW h \in Holders PROVE ff[h] \in Nat /\ aw[h] \in Nat /\ ff[h] <= aw[h]
    OBVIOUS
  <2>1. ff[h] = f[h] * FULL_BPS
    BY <1>1
  <2> QED
    BY <1>1, <2>1, ProductType
<1>3. F \in Nat /\ W \in Nat
  BY FiniteHolders, SumOfNaturals
<1>4. SumFunctionOnSet(ff, Holders) = FULL_BPS * F
  <2>1. \A h \in Holders : f[h] \in Int /\ ff[h] = FULL_BPS * f[h]
    OBVIOUS
  <2> HIDE DEF ff
  <2> QED
    BY <1>1, <2>1, FiniteHolders, SumOfMultiple
<1>5. SumFunctionOnSet(aw, Holders) = a * W
  <2>1. \A h \in Holders : w[h] \in Int /\ aw[h] = a * w[h]
    OBVIOUS
  <2> HIDE DEF aw
  <2> QED
    BY <2>1, FiniteHolders, SumOfMultiple
<1> HIDE DEF ff, aw
<1>6. SumFunctionOnSet(ff, Holders) <= SumFunctionOnSet(aw, Holders)
  BY <1>2, FiniteHolders, SumIsMonotone
<1>7. FULL_BPS * F <= a * W
  BY <1>4, <1>5, <1>6
<1> HIDE DEF F, W
<1>8. a * W <= a * FULL_BPS
  BY <1>1, <1>3, ProductIsMonotone DEF W
<1>9. FULL_BPS * F <= FULL_BPS * a
  <2>1. FULL_BPS * F \in Nat /\ a * W \in Nat /\ a * FULL_BPS \in Nat
        /\ FULL_BPS * a = a * FULL_BPS
    BY <1>1, <1>3, ProductType
  <2> QED
    BY <1>7, <1>8, <2>1
<1>10. F <= a
  <2> SUFFICES ASSUME ~(F <= a) PROVE FALSE
    OBVIOUS
  <2>1. a + 1 <= F
    BY <1>3
  <2>2. FULL_BPS * (a + 1) <= FULL_BPS * F
    BY <1>1, <1>3, <2>1, ProductIsMonotone
  <2>3. FULL_BPS * (a + 1) = FULL_BPS * a + FULL_BPS
    BY <1>1
  <2>4. FULL_BPS * F \in Nat /\ FULL_BPS * a \in Nat
    BY <1>1, <1>3, ProductType
  <2> QED
    BY <1>1, <1>9, <2>2, <2>3, <2>4
<1> QED
  BY <1>10 DEF F

\* The holders' dues of one period.
DueOf(o, i) == [h \in Holders |-> Due(o, h, i)]

LEMMA DueWithinDeposit ==
  ASSUME NoUpscaling, TypeOK, SettledOnceInOrder, Checkpointed, NothingScaledUp,
         NEW o \in Offerings, NEW i \in 1 .. Len(periods[o]), Divided(o, i)
  PROVE  /\ \A h \in Holders : Due(o, h, i) \in Nat
         /\ SumFunctionOnSet(DueOf(o, i), Holders) <= periods[o][i].amount
<1>1. PICK w \in [Holders -> 0..FULL_BPS] :
        /\ SumFunctionOnSet(w, Holders) <= FULL_BPS
        /\ \A h \in Holders : HolderWithin(o, h, i, w[h])
  BY DEF Divided
<1> DEFINE a == periods[o][i].amount
           f == DueOf(o, i)
<1>2. ASSUME NEW h \in Holders
      PROVE  /\ f[h] = Due(o, h, i) /\ f[h] \in Nat /\ w[h] \in Nat
             /\ f[h] * FULL_BPS <= a * w[h]
  <2>1. w[h] \in 0..FULL_BPS /\ HolderWithin(o, h, i, w[h])
    BY <1>1
  <2>2. w[h] \in Nat
    BY <2>1, BpsType
  <2> QED
    BY <2>1, <2>2, DueWithin DEF DueOf
<1>3. a \in Nat
  BY AmountsType
<1> HIDE DEF a, f
<1>4. SumFunctionOnSet(f, Holders) <= a
  BY <1>1, <1>2, <1>3, PartsAddUp
<1> QED
  BY <1>2, <1>4 DEF a, f

\* Nothing is deposited, shared or raised at first.
LEMMA DivisionInit ==
  Init => Checkpointed /\ NothingScaledUp /\ (NoUpscaling => PeriodsDivided)
<1> SUFFICES ASSUME Init PROVE Checkpointed /\ NothingScaledUp /\ PeriodsDivided
  OBVIOUS
<1>1. \A o \in Offerings : Len(periods[o]) = 0 /\ decimals[o] = 7 /\ lastRaise[o] = 0
  BY DEF Init
<1>2. \A o \in Offerings, h \in Holders : share[o][h] = 0 /\ schedule[o][h] = NoSchedule
  BY DEF Init, RegisterInit
<1>3. DOMAIN NoSchedule = {} /\ \A i \in Nat : ShareInForce(NoSchedule, i) = 0
  BY DEF NoSchedule, ShareInForce
<1> QED
  BY <1>1, <1>2, <1>3 DEF Checkpointed, HolderCheckpointed, NothingScaledUp, PeriodsDivided,
    CANONICAL_DECIMALS

\* What the division of the periods rests on holds in every reachable state.
LEMMA DivisionAlways ==
  Spec => [](Checkpointed /\ NothingScaledUp /\ (NoUpscaling => PeriodsDivided))
<1>1. Init => Checkpointed /\ NothingScaledUp /\ (NoUpscaling => PeriodsDivided)
  BY DivisionInit
<1>2. TypeOK /\ Checkpointed /\ [Next]_vars => Checkpointed'
  BY CheckpointedStep
<1>3. TypeOK /\ NothingScaledUp /\ [Next]_vars => NothingScaledUp'
  BY ScalingStep
<1>4. TypeOK /\ RunningTotals /\ SettledOnceInOrder /\ Checkpointed /\ NothingScaledUp
        /\ (NoUpscaling => PeriodsDivided) /\ [Next]_vars
        => (NoUpscaling => PeriodsDivided)'
  BY DivisionStep DEF NoUpscaling
<1>5. TotalsExact => RunningTotals
  BY DEF TotalsExact, RunningTotals
<1> QED
  BY <1>1, <1>2, <1>3, <1>4, <1>5, TypeCorrect, TotalsStayExact, EveryPeriodSettledOnce, PTL
    DEF Spec

\* Periods that are divided are not oversubscribed.
LEMMA DividedIsCovered ==
  TypeOK /\ SettledOnceInOrder /\ Checkpointed /\ NothingScaledUp
    /\ (NoUpscaling => PeriodsDivided) => PeriodNeverOversubscribed
<1> SUFFICES ASSUME TypeOK, SettledOnceInOrder, Checkpointed, NothingScaledUp,
                    NoUpscaling, PeriodsDivided,
                    NEW o \in Offerings, NEW i \in lastRaise[o] + 1 .. Len(periods[o])
             PROVE  SumFunction([h \in Holders |-> Due(o, h, i)]) <= periods[o][i].amount
  BY DEF PeriodNeverOversubscribed
<1>1. Divided(o, i) /\ i \in 1 .. Len(periods[o])
  BY DEF PeriodsDivided, TypeOK, HistoryTypeOK, PoolTypeOK
<1>2. SumFunctionOnSet(DueOf(o, i), Holders) <= periods[o][i].amount
  BY <1>1, DueWithinDeposit
<1>3. SumFunction([h \in Holders |-> Due(o, h, i)]) = SumFunctionOnSet(DueOf(o, i), Holders)
  BY DEF SumFunction, DueOf
<1> QED
  BY <1>2, <1>3

(***************************************************************************)
(* As long as no share rose since a period was deposited, the holders can  *)
(* never take more of it than was deposited, for any number of holders and *)
(* any sequence of lowered shares, redemptions, claims, delays and changes *)
(* of decimals.  The induction carries a division of the period into basis *)
(* points that add up to at most 100% and that cover, for every holder,    *)
(* its share, the share its schedule has in force and what it took.        *)
(***************************************************************************)
THEOREM NoPeriodOversubscribed == Spec => []PeriodNeverOversubscribed
<1>1. TypeOK /\ SettledOnceInOrder /\ Checkpointed /\ NothingScaledUp
        /\ (NoUpscaling => PeriodsDivided) => PeriodNeverOversubscribed
  BY DividedIsCovered
<1> QED
  BY <1>1, DivisionAlways, TypeCorrect, EveryPeriodSettledOnce, PTL

-----------------------------------------------------------------------------
(***************************************************************************)
(* Solvency                                                                *)
(***************************************************************************)

\* What holder h can still take of the periods it has not claimed.
LeftTo(o, h) ==
  SumFunction([i \in lastClaimed[o][h] + 1 .. Len(periods[o]) |-> Due(o, h, i)])

\* What a holder took and what it may still take is its due over all periods.
LEMMA DueOfHolder ==
  ASSUME TypeOK, SettledOnceInOrder, NEW o \in Offerings, NEW h \in Holders,
         \A i \in 1 .. Len(periods[o]) : Due(o, h, i) \in Nat
  PROVE  /\ SumFunctionOnSet([i \in 1 .. Len(periods[o]) |-> Due(o, h, i)], 1 .. Len(periods[o]))
              = ClaimedBy(o, h) + LeftTo(o, h)
         /\ LeftTo(o, h) \in Nat
<1> DEFINE n == Len(periods[o])
           k == lastClaimed[o][h]
           A == 1 .. k
           B == k + 1 .. n
           T == 1 .. n
           due == [i \in T |-> Due(o, h, i)]
           taken == [i \in 1 .. Len(receipts[o][h]) |-> receipts[o][h][i].amount]
           left == [i \in B |-> Due(o, h, i)]
<1>1. n \in Nat /\ k \in Nat /\ k <= n /\ Len(receipts[o][h]) = k
  BY DEF SettledOnceInOrder, TypeOK, HolderTypeOK, PoolTypeOK
<1>2. T = A \cup B /\ A \cap B = {}
  BY <1>1
<1>3. IsFiniteSet(A) /\ IsFiniteSet(B)
  BY <1>1, RangeIsFinite
<1>4. DOMAIN taken = A /\ \A i \in A : taken[i] \in Nat /\ due[i] \in Nat /\ due[i] = taken[i]
  <2>1. DOMAIN taken = A
    BY <1>1
  <2>2. ASSUME NEW i \in A PROVE taken[i] \in Nat /\ due[i] \in Nat /\ due[i] = taken[i]
    <3>1. taken[i] = receipts[o][h][i].amount /\ taken[i] \in Nat
      BY <1>1, AmountsType
    <3>2. i \in T /\ i <= k
      BY <1>1
    <3>3. due[i] = receipts[o][h][i].amount
      BY <3>2 DEF Due
    <3> QED
      BY <3>1, <3>3
  <2> QED
    BY <2>1, <2>2
<1>5. DOMAIN left = B /\ \A i \in B : left[i] \in Nat /\ due[i] \in Nat /\ due[i] = left[i]
  <2> SUFFICES ASSUME NEW i \in B PROVE left[i] \in Nat /\ due[i] \in Nat /\ due[i] = left[i]
    OBVIOUS
  <2>1. i \in T
    BY <1>1
  <2> QED
    BY <2>1
<1>6. ClaimedBy(o, h) = SumFunctionOnSet(taken, A) /\ LeftTo(o, h) = SumFunctionOnSet(left, B)
  BY <1>4, <1>5 DEF ClaimedBy, LeftTo, SumFunction
<1> HIDE DEF due, taken, left, A, B, T
<1>7. SumFunctionOnSet(due, A \cup B) = SumFunctionOnSet(due, A) + SumFunctionOnSet(due, B)
  <2>1. \A i \in A \cup B : due[i] \in Int
    BY <1>4, <1>5
  <2> QED
    BY <1>2, <1>3, <2>1, SumOfUnion
<1>8. SumFunctionOnSet(due, A) = SumFunctionOnSet(taken, A)
  BY <1>3, <1>4, SumOfSameTerms
<1>9. SumFunctionOnSet(due, B) = SumFunctionOnSet(left, B)
  BY <1>3, <1>5, SumOfSameTerms
<1>10. SumFunctionOnSet(left, B) \in Nat
  BY <1>3, <1>5, SumOfNaturals
<1>11. SumFunctionOnSet(due, T) = SumFunctionOnSet(due, A \cup B)
  BY <1>2, Zenon
<1>12. SumFunctionOnSet(due, T) = ClaimedBy(o, h) + LeftTo(o, h) /\ LeftTo(o, h) \in Nat
  BY <1>6, <1>7, <1>8, <1>9, <1>10, <1>11
<1> QED
  BY <1>12 DEF due, T, n

\* An offering whose periods are all divided owes no more than it took in.
LEMMA OfferingSolvent ==
  ASSUME NoUpscaling, TypeOK, SettledOnceInOrder, Checkpointed, NothingScaledUp,
         NEW o \in Offerings, \A i \in 1 .. Len(periods[o]) : Divided(o, i)
  PROVE  Outstanding(o) \in Nat /\ Claimed(o) + Outstanding(o) <= Revenue(o)
<1> DEFINE T == 1 .. Len(periods[o])
           f == [h \in Holders |-> [i \in T |-> Due(o, h, i)]]
           g == [i \in T |-> DueOf(o, i)]
           rows == [h \in Holders |-> SumFunctionOnSet(f[h], T)]
           columns == [i \in T |-> SumFunctionOnSet(DueOf(o, i), Holders)]
           amounts == [i \in T |-> periods[o][i].amount]
           claimed == [h \in Holders |-> ClaimedBy(o, h)]
           left == [h \in Holders |-> LeftTo(o, h)]
<1>1. IsFiniteSet(T)
  BY RangeIsFinite, AmountsType
<1>2. ASSUME NEW i \in T
      PROVE  /\ \A h \in Holders : Due(o, h, i) \in Nat
             /\ SumFunctionOnSet(DueOf(o, i), Holders) <= periods[o][i].amount
  BY <1>2, DueWithinDeposit
<1>3. ASSUME NEW h \in Holders
      PROVE  /\ rows[h] = claimed[h] + left[h]
             /\ claimed[h] \in Nat /\ left[h] \in Nat
  <2>1. \A i \in 1 .. Len(periods[o]) : Due(o, h, i) \in Nat
    BY <1>2
  <2>2. /\ rows[h] = ClaimedBy(o, h) + LeftTo(o, h)
        /\ LeftTo(o, h) \in Nat
    BY <2>1, DueOfHolder
  <2> QED
    BY <2>2, NetType
<1>4. ASSUME NEW i \in T
      PROVE  columns[i] \in Int /\ amounts[i] \in Int /\ columns[i] <= amounts[i]
  <2> DEFINE due == DueOf(o, i)
  <2>1. \A h \in Holders : due[h] \in Nat
    BY <1>2 DEF DueOf
  <2>2. SumFunctionOnSet(due, Holders) \in Nat
    <3> HIDE DEF due
    <3> QED
      BY <2>1, FiniteHolders, SumOfNaturals
  <2> QED
    BY <1>2, <2>2, AmountsType
<1>5. \A h \in Holders, i \in T : f[h][i] \in Int /\ g[i][h] = f[h][i]
  <2> SUFFICES ASSUME NEW h \in Holders, NEW i \in T
               PROVE  f[h][i] \in Int /\ g[i][h] = f[h][i]
    OBVIOUS
  <2>1. Due(o, h, i) \in Nat
    BY <1>2
  <2> QED
    BY <2>1 DEF DueOf
<1>6. /\ Revenue(o) = SumFunctionOnSet(amounts, T)
      /\ Claimed(o) = SumFunctionOnSet(claimed, Holders)
      /\ Outstanding(o) = SumFunctionOnSet(left, Holders)
  BY DEF Revenue, Claimed, Outstanding, LeftTo, SumFunction
<1>7. /\ \A h \in Holders : rows[h] = SumFunctionOnSet(f[h], T)
      /\ \A i \in T : columns[i] = SumFunctionOnSet(g[i], Holders)
  OBVIOUS
<1> HIDE DEF f, g, rows, columns, amounts, claimed, left, T
<1>8. SumFunctionOnSet(rows, Holders) = SumFunctionOnSet(columns, T)
  <2>1. IsTable(f, g, rows, columns, Holders, T)
    BY <1>1, <1>5, <1>7, FiniteHolders, Zenon DEF IsTable
  <2> QED
    BY <2>1, SumByRowsAndColumns
<1>9. SumFunctionOnSet(rows, Holders)
        = SumFunctionOnSet(claimed, Holders) + SumFunctionOnSet(left, Holders)
  BY <1>3, FiniteHolders, SumOfTwo
<1>10. SumFunctionOnSet(columns, T) <= SumFunctionOnSet(amounts, T)
  BY <1>1, <1>4, SumIsMonotone
<1>11. SumFunctionOnSet(left, Holders) \in Nat
  BY <1>3, FiniteHolders, SumOfNaturals
<1> QED
  BY <1>6, <1>8, <1>9, <1>10, <1>11

\* Offerings whose periods are divided and whose accounts balance are solvent.
LEMMA DividedIsSolvent ==
  TypeOK /\ SettledOnceInOrder /\ Checkpointed /\ NothingScaledUp
    /\ (NoUpscaling => PeriodsDivided) /\ Accounts => Solvent
<1> SUFFICES ASSUME TypeOK, SettledOnceInOrder, Checkpointed, NothingScaledUp,
                    NoUpscaling, PeriodsDivided, Accounts, NEW t \in PayTokens,
                    \A o \in OfferingsPaidIn(t) : redeemedOut[o] = 0 /\ lastRaise[o] = 0
             PROVE  SumFunction([o \in OfferingsPaidIn(t) |-> Outstanding(o)]) <= vault[t]
  BY DEF Solvent
<1> DEFINE P == OfferingsPaidIn(t)
           net == [o \in Offerings |-> Net(o)]
           owed == [o \in P |-> Outstanding(o)]
<1>1. IsFiniteSet(P)
  <2>1. P \subseteq {o \in Offerings : lockedToken[o] # NoToken}
    BY Sentinels DEF OfferingsPaidIn
  <2> QED
    BY <2>1, FS_Subset DEF Accounts
<1>2. ASSUME NEW o \in P
      PROVE  owed[o] \in Int /\ net[o] \in Int /\ owed[o] <= net[o]
  <2>1. o \in Offerings /\ redeemedOut[o] = 0 /\ lastRaise[o] = 0
    BY DEF OfferingsPaidIn
  <2>2. \A i \in 1 .. Len(periods[o]) : Divided(o, i)
    BY <2>1 DEF PeriodsDivided
  <2>3. Outstanding(o) \in Nat /\ Claimed(o) + Outstanding(o) <= Revenue(o)
    BY <2>1, <2>2, OfferingSolvent
  <2>4. Revenue(o) \in Nat /\ Claimed(o) \in Nat /\ net[o] = Revenue(o) - Claimed(o) - 0
    BY <2>1, NetType DEF Net
  <2> QED
    BY <2>3, <2>4
<1>3. vault[t] = SumFunctionOnSet(net, P) /\ SumFunction(owed) = SumFunctionOnSet(owed, P)
  BY DEF Accounts, SumFunction
<1> HIDE DEF P, net, owed
<1>4. SumFunctionOnSet(owed, P) <= SumFunctionOnSet(net, P)
  BY <1>1, <1>2, SumIsMonotone
<1>5. SumFunction(owed) <= vault[t]
  BY <1>3, <1>4
<1> QED
  BY <1>5 DEF owed, P

(***************************************************************************)
(* Offerings that share one balance never starve one another, in any       *)
(* instance: as long as no share of the offerings paid in a token rose     *)
(* after their first deposit and none paid a redemption, the balance       *)
(* covers all their holders may still take.  The balance is the sum of the *)
(* offerings' accounts, and each account is within its offering's          *)
(* deposits because each period is within its own; the dues are summed by  *)
(* holder on one side and by period on the other.                          *)
(***************************************************************************)
THEOREM AlwaysSolvent == Spec => []Solvent
<1>1. TypeOK /\ SettledOnceInOrder /\ Checkpointed /\ NothingScaledUp
        /\ (NoUpscaling => PeriodsDivided) /\ Accounts => Solvent
  BY DividedIsSolvent
<1> QED
  BY <1>1, DivisionAlways, AccountsAlways, TypeCorrect, EveryPeriodSettledOnce, PTL

-----------------------------------------------------------------------------
(***************************************************************************)
(* The preview, page by page                                               *)
(***************************************************************************)

\* The preview prices a period at a natural amount.
LEMMA SchedulePayoutType ==
  ASSUME TypeOK, NEW o \in Offerings, NEW h \in Holders, NEW i \in 1 .. Len(periods[o])
  PROVE  SchedulePayout(o, h, i) \in Nat
<1> DEFINE s == share[o][h]
           c == periods[o][i].accrued
           f == ShareInForce(get_holder_share_schedule(schedule[o][h], s), i)
<1>1. c \in Nat
  <2>1. periods[o][i] \in Period
    BY AmountsType
  <2> QED
    BY <2>1 DEF Period
<1>2. f \in Nat
  <2>1. s \in 0..FULL_BPS /\ FULL_BPS \in Nat /\ IsSchedule(schedule[o][h])
    BY BpsType DEF TypeOK, RegisterTypeOK, SchedulesTypeOK
  <2>2. IsSchedule(get_holder_share_schedule(schedule[o][h], s))
    <3>1. IsSchedule(NoSchedule)
      BY DEF NoSchedule, IsSchedule
    <3>2. IsSchedule([start \in {0} |-> s])
      BY <2>1, PositiveLimits DEF IsSchedule
    <3> QED
      BY <2>1, <3>1, <3>2 DEF get_holder_share_schedule
  <2>3. f \in 0..FULL_BPS
    <3> i \in Nat
      OBVIOUS
    <3> QED
      BY <2>2, InForceType
  <2> QED
    BY <2>1, <2>3
<1>3. SchedulePayout(o, h, i) = (c * f) \div FULL_BPS
  BY DEF SchedulePayout
<1> HIDE DEF c, f
<1>4. c * f \in Nat
  BY <1>1, <1>2, ProductType
<1> QED
  BY <1>3, <1>4, BpsType, DivType

\* The periods from s + 1 to b that no immature period precedes.
MaturedRun(o, s, b) == {i \in s + 1 .. b : \A j \in s + 1 .. i : Matured(o, j)}

\* They are a range.
LEMMA RunIsRange ==
  ASSUME NEW o, NEW s \in Nat, NEW b \in Nat
  PROVE  /\ Cardinality(MaturedRun(o, s, b)) \in Nat
         /\ MaturedRun(o, s, b) = s + 1 .. s + Cardinality(MaturedRun(o, s, b))
<1> DEFINE M == MaturedRun(o, s, b)
<1>1. CASE M = {}
  <2>1. Cardinality(M) = 0
    BY <1>1, FS_EmptySet
  <2> QED
    BY <1>1, <2>1
<1>2. CASE M # {}
  <2>1. M \in SUBSET (0 .. b)
    BY DEF MaturedRun
  <2>2. PICK m \in M : \A i \in M : i <= m
    <3> HIDE DEF M
    <3> QED
      BY <1>2, <2>1, LargestMember
  <2>3. m \in s + 1 .. b /\ \A j \in s + 1 .. m : Matured(o, j)
    BY DEF MaturedRun
  <2>4. M = s + 1 .. m
    BY <2>2, <2>3 DEF MaturedRun
  <2>5. Cardinality(s + 1 .. m) = m - s
    <3>1. s + 1 \in Int /\ m \in Int /\ ~(s + 1 > m) /\ m - (s + 1) + 1 = m - s
      BY <2>3
    <3> QED
      BY <3>1, FS_Interval
  <2>6. Cardinality(M) = m - s
    BY <2>4, <2>5, Zenon
  <2>7. s + Cardinality(M) = m /\ Cardinality(M) \in Nat
    BY <2>3, <2>6
  <2> QED
    BY <2>4, <2>7
<1> QED
  BY <1>1, <1>2

\* A preview that starts at or above the claim index.
LEMMA PreviewFrom ==
  ASSUME TypeOK, NEW o \in Offerings, NEW h \in Holders, NEW from \in Nat, NEW cap \in Nat,
         NEW start, start = (IF from >= lastClaimed[o][h] THEN from ELSE lastClaimed[o][h]),
         NEW bound, bound = Least(start + cap, Len(periods[o]))
  PROVE  LET run == MaturedRun(o, start, bound)
             page == compute_claimable_preview(o, h, from, cap)
         IN  /\ page.total = SumFunctionOnSet([i \in run |-> SchedulePayout(o, h, i)], run)
             /\ page.next = CursorAt(o, start + Cardinality(run))
BY DEF compute_claimable_preview, MaturedRun, SumFunction

\* All that the preview shows from an index on.
Everything(o, h, from) == compute_claimable_preview(o, h, from, Len(periods[o])).total

\* What it then shows is the schedule payout of the matured run.
LEMMA EverythingFrom ==
  ASSUME TypeOK, NEW o \in Offerings, NEW h \in Holders, NEW from \in Nat,
         NEW start \in Nat,
         start = (IF from >= lastClaimed[o][h] THEN from ELSE lastClaimed[o][h])
  PROVE  LET run == MaturedRun(o, start, Len(periods[o]))
         IN  Everything(o, h, from)
               = SumFunctionOnSet([i \in run |-> SchedulePayout(o, h, i)], run)
<1>1. Len(periods[o]) \in Nat
  BY DEF TypeOK, PoolTypeOK
<1>2. Len(periods[o]) = Least(start + Len(periods[o]), Len(periods[o]))
  BY <1>1 DEF Least
<1> QED
  BY <1>1, <1>2 DEF Everything, compute_claimable_preview, MaturedRun, SumFunction

\* A page that leaves a cursor and what follows the cursor are everything.
LEMMA PageAndRest ==
  ASSUME TypeOK, NEW o \in Offerings, NEW h \in Holders, NEW from \in Nat, NEW cap \in Nat,
         compute_claimable_preview(o, h, from, cap).next # NoCursor
  PROVE  LET page == compute_claimable_preview(o, h, from, cap)
         IN  page.total + Everything(o, h, page.next) = Everything(o, h, from)
<1> DEFINE n == Len(periods[o])
           k == lastClaimed[o][h]
           s == IF from >= k THEN from ELSE k
           b == Least(s + cap, n)
           page == compute_claimable_preview(o, h, from, cap)
           run == MaturedRun(o, s, b)
           end == s + Cardinality(run)
           rest == MaturedRun(o, end, n)
           whole == MaturedRun(o, s, n)
           Pays(R) == [i \in R |-> SchedulePayout(o, h, i)]
           pay == Pays(1 .. n)
<1>1. n \in Nat /\ k \in Nat /\ s \in Nat /\ s >= k
  BY DEF TypeOK, PoolTypeOK, HolderTypeOK
<1>2. b \in Nat /\ b <= n
  BY <1>1 DEF Least
<1>3. /\ page.total = SumFunctionOnSet(Pays(run), run)
      /\ page.next = CursorAt(o, end)
  BY PreviewFrom
<1>4. run = s + 1 .. end /\ end \in Nat /\ end >= s
  <2> HIDE DEF b, s
  <2>1. Cardinality(run) \in Nat /\ run = s + 1 .. end
    BY <1>1, <1>2, RunIsRange
  <2> QED
    BY <1>1, <2>1
<1> HIDE DEF end
<1>5. page.next = end /\ end < n
  <2>1. ~(end >= n)
    BY <1>3 DEF CursorAt
  <2> QED
    BY <1>1, <1>3, <1>4, <2>1 DEF CursorAt
<1>6. /\ Everything(o, h, end) = SumFunctionOnSet(Pays(rest), rest)
      /\ Everything(o, h, from) = SumFunctionOnSet(Pays(whole), whole)
  <2>1. /\ end \in Nat
        /\ end = (IF end >= k THEN end ELSE k)
        /\ s = (IF from >= k THEN from ELSE k)
    BY <1>1, <1>4
  <2>2. Everything(o, h, end) = SumFunctionOnSet(Pays(rest), rest)
    BY <2>1, EverythingFrom
  <2>3. Everything(o, h, from) = SumFunctionOnSet(Pays(whole), whole)
    BY <1>1, <2>1, EverythingFrom
  <2> QED
    BY <2>2, <2>3
<1>7. whole = run \cup rest /\ run \cap rest = {} /\ whole \subseteq 1 .. n
  <2> HIDE DEF s, n
  <2>1. \A j \in s + 1 .. end : Matured(o, j)
    BY <1>4 DEF MaturedRun
  <2>2. run \cap rest = {}
    BY <1>1, <1>4 DEF MaturedRun
  <2>3. ASSUME NEW i \in run PROVE i \in whole
    BY <1>1, <1>2, <2>3 DEF MaturedRun
  <2>4. ASSUME NEW i \in rest PROVE i \in whole
    <3>1. i \in end + 1 .. n /\ \A j \in end + 1 .. i : Matured(o, j)
      BY <2>4 DEF MaturedRun
    <3>2. ASSUME NEW j \in s + 1 .. i PROVE Matured(o, j)
      <4>1. j \in s + 1 .. end \/ j \in end + 1 .. i
        BY <1>1, <1>4, <3>1
      <4> QED
        BY <2>1, <3>1, <4>1
    <3> QED
      BY <1>1, <1>4, <3>1, <3>2 DEF MaturedRun
  <2>5. ASSUME NEW i \in whole, i \notin run PROVE i \in rest
    <3>1. i \in s + 1 .. n /\ \A j \in s + 1 .. i : Matured(o, j)
      BY DEF MaturedRun
    <3>2. i \in end + 1 .. n
      BY <1>1, <1>4, <2>5, <3>1
    <3>3. \A j \in end + 1 .. i : j \in s + 1 .. i
      BY <1>1, <1>4, <3>1
    <3> QED
      BY <3>1, <3>2, <3>3 DEF MaturedRun
  <2>6. whole \subseteq 1 .. n
    BY <1>1 DEF MaturedRun
  <2> HIDE DEF run, rest, whole
  <2> QED
    BY <2>2, <2>3, <2>4, <2>5, <2>6
<1>8. IsFiniteSet(run) /\ IsFiniteSet(rest)
  <2>1. run \subseteq 1 .. n /\ rest \subseteq 1 .. n
    <3> HIDE DEF run, rest, whole, n
    <3> QED
      BY <1>7
  <2>2. IsFiniteSet(1 .. n)
    BY <1>1, RangeIsFinite
  <2> HIDE DEF run, rest, n
  <2> QED
    BY <2>1, <2>2, FS_Subset
<1>9. \A i \in whole : pay[i] \in Nat
  <2> SUFFICES ASSUME NEW i \in whole PROVE pay[i] \in Nat
    OBVIOUS
  <2>1. i \in 1 .. n
    BY <1>7, Zenon
  <2> QED
    BY <2>1, SchedulePayoutType
<1>10. ASSUME NEW R, R \subseteq whole, IsFiniteSet(R)
       PROVE  SumFunctionOnSet(Pays(R), R) = SumFunctionOnSet(pay, R)
  <2> DEFINE f == Pays(R)
  <2>1. \A i \in R : pay[i] \in Int /\ f[i] = pay[i]
    BY <1>7, <1>9, <1>10
  <2> HIDE DEF f, pay
  <2> QED
    BY <1>10, <2>1, SumOfSameTerms DEF f
<1> HIDE DEF run, rest, whole, pay, Pays, n, s, k, b
<1>11. SumFunctionOnSet(pay, run \cup rest)
         = SumFunctionOnSet(pay, run) + SumFunctionOnSet(pay, rest)
  <2>1. \A i \in run \cup rest : pay[i] \in Int
    BY <1>7, <1>9
  <2> QED
    BY <1>7, <1>8, <2>1, SumOfUnion
<1>12. IsFiniteSet(run \cup rest)
  BY <1>8, FS_Union
<1>13. /\ SumFunctionOnSet(Pays(run), run) = SumFunctionOnSet(pay, run)
       /\ SumFunctionOnSet(Pays(rest), rest) = SumFunctionOnSet(pay, rest)
       /\ SumFunctionOnSet(Pays(whole), whole) = SumFunctionOnSet(pay, whole)
  <2>1. run \subseteq whole /\ rest \subseteq whole /\ IsFiniteSet(whole)
    <3>1. IsFiniteSet(whole)
      BY <1>7, <1>12, Zenon
    <3> QED
      BY <1>7, <3>1
  <2> QED
    BY <1>8, <1>10, <2>1
<1>14. SumFunctionOnSet(pay, whole) = SumFunctionOnSet(pay, run \cup rest)
  BY <1>7, Zenon
<1> QED
  BY <1>3, <1>5, <1>6, <1>11, <1>13, <1>14

\* Pages add up in every state of the right type.
LEMMA PagesAddUp ==
  TypeOK => ChunksAddUp
<1> SUFFICES ASSUME TypeOK, NEW o \in Offerings, NEW h \in Holders, NEW n \in BatchSizes,
                    NEW from \in 0 .. MaxPeriods,
                    get_claimable_chunk(o, h, from, n).next # NoCursor
             PROVE  get_claimable_chunk(o, h, from, n).total
                      + Everything(o, h, get_claimable_chunk(o, h, from, n).next)
                      = Everything(o, h, from)
  BY DEF ChunksAddUp, Everything
<1> DEFINE cap == EffectiveMax(n, MAX_CHUNK_PERIODS)
<1>1. cap \in Nat /\ from \in Nat
  BY PositiveLimits DEF EffectiveMax
<1>2. get_claimable_chunk(o, h, from, n) = compute_claimable_preview(o, h, from, cap)
  BY DEF get_claimable_chunk
<1> HIDE DEF cap
<1>3. compute_claimable_preview(o, h, from, cap).next # NoCursor
  BY <1>2
<1> QED
  BY <1>1, <1>2, <1>3, PageAndRest

(***************************************************************************)
(* A holder that reads its preview in pages, of whatever sizes, is shown   *)
(* exactly what get_claimable adds up, in every reachable state of any     *)
(* instance.  The periods a preview shows are an unbroken run of matured   *)
(* periods, so a page is the first part of the run and its cursor the      *)
(* place where the rest begins.                                            *)
(***************************************************************************)
THEOREM ChunksAlwaysAddUp == Spec => []ChunksAddUp
<1>1. TypeOK => ChunksAddUp
  BY PagesAddUp
<1> QED
  BY <1>1, TypeCorrect, PTL

-----------------------------------------------------------------------------
(***************************************************************************)
(* The exit of the holders                                                 *)
(***************************************************************************)

\* What claim asks of the state: some range of periods that it settles and the
\* balance pays.  The rest of claim is assignments.
MayClaim(h, o, n) ==
  LET start == lastClaimed[o][h]
      bound == Least(start + EffectiveMax(n, MAX_CLAIM_PERIODS), Len(periods[o]))
  IN  /\ ClaimAllowed(h, o)
      /\ \E end \in start + 1 .. bound :
           /\ \A i \in start + 1 .. end : Matured(o, i)
           /\ end < bound => ~Matured(o, end + 1)
           /\ LET total == SumFunction([i \in start + 1 .. end |-> ClaimPayout(o, h, i)])
              IN  \/ total = 0
                  \/ lockedToken[o] # NoToken /\ total \in 1..vault[lockedToken[o]]

\* It asks nothing that a claim does not need.
LEMMA ClaimsMayBeMade ==
  ASSUME NEW h, NEW o, NEW n, claim(h, o, n)
  PROVE  MayClaim(h, o, n)
BY Zenon DEF claim, MayClaim, PayOut

\* The holders HolderCanExit is about.
CanPayOff(o, h) ==
  /\ ClaimAllowed(h, o)
  /\ lastClaimed[o][h] + 1 .. Len(periods[o]) # {} /\ Matured(o, lastClaimed[o][h] + 1)
  /\ LeftTo(o, h) <= vault[lockedToken[o]]

\* The first part of what is left costs no more than all of it.
LEMMA PartWithinLeft ==
  ASSUME TypeOK, NEW o \in Offerings, NEW h \in Holders,
         NEW end \in lastClaimed[o][h] + 1 .. Len(periods[o])
  PROVE  LET total == SumFunction([i \in lastClaimed[o][h] + 1 .. end |-> ClaimPayout(o, h, i)])
         IN  total \in Nat /\ LeftTo(o, h) \in Nat /\ total <= LeftTo(o, h)
<1> DEFINE start == lastClaimed[o][h]
           part == start + 1 .. end
           left == start + 1 .. Len(periods[o])
           paid == [i \in part |-> ClaimPayout(o, h, i)]
           due == [i \in left |-> Due(o, h, i)]
<1>1. start \in Nat /\ Len(periods[o]) \in Nat
  BY DEF TypeOK, HolderTypeOK, PoolTypeOK
<1>2. part \subseteq left /\ left \subseteq 1 .. Len(periods[o])
  BY <1>1
<1>3. IsFiniteSet(part) /\ IsFiniteSet(left)
  <2>1. start + 1 \in Int /\ end \in Int /\ Len(periods[o]) \in Int
    BY <1>1
  <2> QED
    BY <2>1, RangeIsFinite
<1>4. \A i \in left : ClaimPayout(o, h, i) \in Nat /\ SchedulePayout(o, h, i) \in Nat
  BY <1>2, ClaimPayoutType, SchedulePayoutType
<1>5. \A i \in left : due[i] \in Nat /\ ClaimPayout(o, h, i) <= due[i]
  <2> SUFFICES ASSUME NEW i \in left
               PROVE  Due(o, h, i) \in Nat /\ ClaimPayout(o, h, i) <= Due(o, h, i)
    OBVIOUS
  <2>1. ~(i <= lastClaimed[o][h])
    BY <1>1
  <2> QED
    BY <1>4, <2>1 DEF Due
<1>6. \A i \in part : paid[i] \in Nat /\ paid[i] <= due[i] /\ due[i] \in Nat
  BY <1>2, <1>4, <1>5
<1>7. LeftTo(o, h) = SumFunctionOnSet(due, left)
  BY DEF LeftTo, SumFunction
<1>8. SumFunction(paid) = SumFunctionOnSet(paid, part)
  BY DEF SumFunction
<1> HIDE DEF due, paid, part, left
<1>9. SumFunctionOnSet(paid, part) <= SumFunctionOnSet(due, part)
  <2>1. \A i \in part : paid[i] \in Int /\ due[i] \in Int /\ paid[i] <= due[i]
    BY <1>6
  <2> QED
    BY <1>3, <2>1, SumIsMonotone
<1>10. SumFunctionOnSet(due, part) <= SumFunctionOnSet(due, left)
  BY <1>2, <1>3, <1>5, SumOfPart
<1>11. SumFunctionOnSet(paid, part) \in Nat
  BY <1>3, <1>6, SumOfNaturals
<1>12. SumFunctionOnSet(due, left) \in Nat
  BY <1>3, <1>5, SumOfNaturals
<1>13. SumFunctionOnSet(due, part) \in Nat
  BY <1>3, <1>6, SumOfNaturals
<1>14. /\ SumFunction(paid) \in Nat /\ LeftTo(o, h) \in Nat
       /\ SumFunction(paid) <= LeftTo(o, h)
  BY <1>7, <1>8, <1>9, <1>10, <1>11, <1>12, <1>13
<1> QED
  BY <1>14 DEF paid, part

\* A claim settles the matured run its batch begins with.
LEMMA BatchSettles ==
  ASSUME TypeOK, NEW o \in Offerings, NEW start \in Nat, NEW bound \in Nat, start + 1 <= bound,
         Matured(o, start + 1)
  PROVE  \E end \in start + 1 .. bound :
           /\ \A i \in start + 1 .. end : Matured(o, i)
           /\ end < bound => ~Matured(o, end + 1)
<1> DEFINE run == MaturedRun(o, start, bound)
           count == Cardinality(run)
           end == start + count
<1>1. count \in Nat /\ run = start + 1 .. end
  BY RunIsRange
<1>2. start + 1 \in run
  BY DEF MaturedRun
<1> HIDE DEF count
<1>3. end \in run /\ end \in Nat /\ end >= start + 1
  BY <1>1, <1>2
<1>4. end \in start + 1 .. bound /\ \A i \in start + 1 .. end : Matured(o, i)
  BY <1>3 DEF MaturedRun
<1>5. ASSUME end < bound, Matured(o, end + 1)
      PROVE  FALSE
  <2>1. end + 1 \notin run
    BY <1>1, <1>3
  <2>2. end + 1 \in start + 1 .. bound
    BY <1>3, <1>5
  <2>3. \A j \in start + 1 .. end + 1 : Matured(o, j)
    BY <1>3, <1>4, <1>5
  <2> QED
    BY <2>1, <2>2, <2>3 DEF MaturedRun
<1> QED
  BY <1>4, <1>5

LEMMA PaidOffMayClaim ==
  ASSUME TypeOK, TokenLocked, NEW o \in Offerings, NEW h \in Holders, CanPayOff(o, h),
         NEW n \in Nat
  PROVE  MayClaim(h, o, n)
<1> DEFINE start == lastClaimed[o][h]
           bound == Least(start + EffectiveMax(n, MAX_CLAIM_PERIODS), Len(periods[o]))
           total(end) == SumFunction([i \in start + 1 .. end |-> ClaimPayout(o, h, i)])
<1>1. start \in Nat /\ Len(periods[o]) \in Nat
  BY DEF TypeOK, HolderTypeOK, PoolTypeOK
<1>2. start + 1 <= Len(periods[o]) /\ Matured(o, start + 1) /\ ClaimAllowed(h, o)
  BY <1>1 DEF CanPayOff
<1>3. EffectiveMax(n, MAX_CLAIM_PERIODS) \in Nat \ {0}
  BY PositiveLimits DEF EffectiveMax
<1>4. bound \in Nat /\ start + 1 <= bound /\ bound <= Len(periods[o])
  BY <1>1, <1>2, <1>3 DEF Least
<1> HIDE DEF bound
<1>5. PICK end \in start + 1 .. bound :
        /\ \A i \in start + 1 .. end : Matured(o, i)
        /\ end < bound => ~Matured(o, end + 1)
  BY <1>1, <1>2, <1>4, BatchSettles
<1>6. end \in start + 1 .. Len(periods[o])
  BY <1>1, <1>4
<1>7. total(end) \in Nat /\ LeftTo(o, h) \in Nat /\ total(end) <= LeftTo(o, h)
  BY <1>6, PartWithinLeft
<1>8. lockedToken[o] \in PayTokens /\ lockedToken[o] # NoToken
  BY <1>1, <1>2, Sentinels DEF TokenLocked
<1>9. vault[lockedToken[o]] \in Nat /\ LeftTo(o, h) <= vault[lockedToken[o]]
  BY <1>8 DEF CanPayOff, TypeOK, VaultTypeOK
<1> HIDE DEF total
<1>10. total(end) = 0 \/ total(end) \in 1..vault[lockedToken[o]]
  BY <1>7, <1>9
<1> QED
  BY <1>2, <1>5, <1>8, <1>10, Zenon DEF MayClaim, bound, total

(***************************************************************************)
(* Short of a hard pause, a holder that is not barred itself, in an open   *)
(* window, with a matured period left and a balance that covers what it    *)
(* has left, may claim, in batches of any size: no freeze, soft pause or   *)
(* reconfiguration stands in the way, nor a batch that stops before an     *)
(* immature period.  This is HolderCanExit for all states, with the guards *)
(* of claim in place of ENABLED claim.                                     *)
(***************************************************************************)
THEOREM HoldersMayAlwaysExit ==
  Spec => [](\A o \in Offerings, h \in Holders :
               LET left == lastClaimed[o][h] + 1 .. Len(periods[o])
                   due == SumFunction([i \in left |-> Due(o, h, i)])
               IN  /\ paused # "HardPaused"
                   /\ h \notin blacklist[o] /\ holderFrozen[o][h] = NoReason
                   /\ share[o][h] > 0
                   /\ ClaimWindowOpen(o)
                   /\ left # {} /\ Matured(o, lastClaimed[o][h] + 1)
                   /\ due <= vault[lockedToken[o]]
                   => \A n \in Nat : MayClaim(h, o, n))
<1>1. Init => TokenLocked
  BY DEF Init, TokenLocked
<1>2. TypeOK /\ TokenLocked =>
        \A o \in Offerings, h \in Holders :
          LET left == lastClaimed[o][h] + 1 .. Len(periods[o])
              due == SumFunction([i \in left |-> Due(o, h, i)])
          IN  /\ paused # "HardPaused"
              /\ h \notin blacklist[o] /\ holderFrozen[o][h] = NoReason
              /\ share[o][h] > 0
              /\ ClaimWindowOpen(o)
              /\ left # {} /\ Matured(o, lastClaimed[o][h] + 1)
              /\ due <= vault[lockedToken[o]]
              => \A n \in Nat : MayClaim(h, o, n)
  BY PaidOffMayClaim, Zenon DEF CanPayOff, ClaimAllowed, LeftTo
<1>3. TypeOK /\ TokenLocked /\ [Next]_vars => TokenLocked'
  BY TokenLockedStep
<1> QED
  BY <1>1, <1>2, <1>3, TypeCorrect, PTL DEF Spec

=============================================================================
