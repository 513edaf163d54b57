------------------------- MODULE RevenueDistribution -------------------------
(***************************************************************************)
(* The money path of the Revora contract: issuers deposit the revenue of   *)
(* numbered periods, holders claim their part of the periods they have not *)
(* claimed yet, and issuers buy shares back by fulfilling redemptions.     *)
(* All offerings that pay in one token draw on one contract balance.       *)
(*                                                                         *)
(* One action is one contract call.  A call is atomic on the host: one     *)
(* that returns an error leaves no trace, so only successful calls are     *)
(* steps, and the calls of issuers, admins and holders interleave freely.  *)
(* The signatures a call requires are taken as given; whoever the code     *)
(* lets call may call at any time.                                         *)
(*                                                                         *)
(* Bounds: MaxTime and MaxPeriods keep the model finite; every other       *)
(* quantity is bounded by the sets of inputs.                              *)
(***************************************************************************)
EXTENDS HolderShares, Sequences, FiniteSets

CONSTANTS
  Initialized,        \* initialize has been called: there is an admin
  PayTokens,          \* payment token contracts
  NoToken,            \* no payment token locked yet
  FreezeReasons,      \* reasons of an emergency freeze of a holder
  NoReason,           \* the holder is not frozen
  Shares,             \* inputs: shares in basis points
  RedeemShares,       \* inputs: shares a holder asks to redeem
  ShareCaps,          \* inputs: caps on the shares issued, 0 removes the cap
  Amounts,            \* inputs: revenue and redemption amounts
  Delays,             \* inputs: claim delays
  Windows,            \* inputs: claim windows
  NoWindow,           \* no claim window configured
  Decimals,           \* inputs: decimals of the payment token
  BatchSizes,         \* inputs: max_periods of a claim
  SupplyCap,          \* [Offerings -> Nat], fixed at registration, 0 is no cap
  BlacklistLimit,     \* get_effective_blacklist_limit
  MAX_CLAIM_PERIODS,  \* 50 in the code
  MAX_CHUNK_PERIODS,  \* 200 in the code
  E18,                \* the fixed-point scale, 10^18 in the code
  MaxTime, MaxPeriods \* bounds

ASSUME PositiveLimits ==
  /\ MAX_CLAIM_PERIODS \in Nat \ {0} /\ MAX_CHUNK_PERIODS \in Nat \ {0}
  /\ E18 \in Nat \ {0}
  /\ MaxTime \in Nat /\ MaxPeriods \in Nat /\ BlacklistLimit \in Nat

ASSUME InputRanges ==
  /\ Initialized \in BOOLEAN
  /\ Shares \subseteq Nat /\ RedeemShares \subseteq Nat /\ ShareCaps \subseteq Nat
  /\ Amounts \subseteq Int /\ Delays \subseteq Nat /\ BatchSizes \subseteq Nat
  /\ Decimals \subseteq 0..16
  /\ Windows \subseteq [start : Nat, end : Nat]
  /\ SupplyCap \in [Offerings -> Nat]

ASSUME Sentinels ==
  NoToken \notin PayTokens /\ NoReason \notin FreezeReasons /\ NoWindow \notin Windows

VARIABLES
  now,           \* ledger timestamp
  halted,        \* Frozen, or DeployedVersion is above the binary's
  layoutAhead,   \* StorageLayoutVersion is above the binary's
  paused,        \* Paused, one of PauseState
  periods,       \* per offering, the deposited periods in order (see Period)
  lockedToken,   \* PaymentToken(offering)
  vault,         \* balance of the contract in each payment token
  deposited,     \* DepositedRevenue(offering)
  accrualIndex,  \* AccrualIndexE18(offering)
  decimals,      \* PaymentTokenDecimals(offering)
  claimDelay,    \* ClaimDelaySecs(offering)
  claimWindow,   \* Claim window of the offering
  blacklist,     \* Blacklist(offering)
  holderFrozen,  \* EmergencyFreeze(offering, holder)
  lastClaimed,   \* LastClaimedIdx(offering, holder)
  redemption     \* shares_bps of the pending RedemptionRequest, 0 when none

\* History, read by properties only.
VARIABLES
  receipts,      \* what each claim of a holder settled, in order (see Receipt)
  redeemedOut,   \* paid by redemptions of the offering
  lastRaise      \* periods deposited when a share of the offering last rose

poolVars == <<periods, lockedToken, deposited, accrualIndex>>
configVars == <<decimals, claimDelay, claimWindow>>
barVars == <<blacklist, holderFrozen>>
gateVars == <<halted, layoutAhead, paused>>
historyVars == <<receipts, redeemedOut, lastRaise>>
vars == <<registerVars, now, gateVars, poolVars, vault, configVars, barVars,
          lastClaimed, redemption, historyVars>>

(***************************************************************************)
(* PeriodRevenue, PeriodDepositTime, PeriodEntry, PeriodCount and          *)
(* LastDepositedPeriodId in one: period ids start at 1 and have no gaps,   *)
(* so the id of a period is its place in the sequence.  accrued is the     *)
(* difference of AccPerShareAtIndex at the two ends of the period, in      *)
(* units of 10^14 (the code stores accrued * 10^18 / 10^4 and later        *)
(* divides share * that by 10^18, which is exact).                         *)
(***************************************************************************)
Period == [amount : Nat, time : Nat, accrued : Nat]
Receipt == [period : Nat, amount : Nat]

PauseState == {"NotPaused", "SoftPaused", "HardPaused"}

\* No checkpoint starts beyond the periods there can be, none is above 100%.
IsSchedule(sched) ==
  /\ DOMAIN sched \subseteq 0..MaxPeriods
  /\ sched \in [DOMAIN sched -> 0..FULL_BPS]

SchedulesTypeOK ==
  /\ DOMAIN schedule = Offerings
  /\ \A o \in Offerings :
       /\ DOMAIN schedule[o] = Holders
       /\ \A h \in Holders : IsSchedule(schedule[o][h])

RegisterTypeOK ==
  /\ share \in [Offerings -> [Holders -> 0..FULL_BPS]]
  /\ shareTotal \in [Offerings -> 0..FULL_BPS]
  /\ sharesIssued \in [Offerings -> Int]
  /\ maxShares \in [Offerings -> Nat]
  /\ SchedulesTypeOK

PoolTypeOK ==
  /\ periods \in [Offerings -> Seq(Period)]
  /\ \A o \in Offerings : Len(periods[o]) <= MaxPeriods
  /\ lockedToken \in [Offerings -> PayTokens \cup {NoToken}]
  /\ deposited \in [Offerings -> Nat]
  /\ accrualIndex \in [Offerings -> Nat]

VaultTypeOK == vault \in [PayTokens -> Nat]

ConfigTypeOK ==
  /\ decimals \in [Offerings -> 0..16]
  /\ claimDelay \in [Offerings -> Nat]
  /\ claimWindow \in [Offerings -> Windows \cup {NoWindow}]

BarTypeOK ==
  /\ blacklist \in [Offerings -> SUBSET Holders]
  /\ holderFrozen \in [Offerings -> [Holders -> FreezeReasons \cup {NoReason}]]

GateTypeOK ==
  now \in Nat /\ halted \in BOOLEAN /\ layoutAhead \in BOOLEAN /\ paused \in PauseState

HolderTypeOK ==
  /\ lastClaimed \in [Offerings -> [Holders -> Nat]]
  /\ redemption \in [Offerings -> [Holders -> 0..FULL_BPS]]

HistoryTypeOK ==
  /\ receipts \in [Offerings -> [Holders -> Seq(Receipt)]]
  /\ redeemedOut \in [Offerings -> Nat]
  /\ lastRaise \in [Offerings -> Nat]

(***************************************************************************)
(* The type invariant.  Two of its types say more than a shape: the        *)
(* running total of the shares never exceeds 100%, and the contract's      *)
(* balance in a token is never negative.                                   *)
(***************************************************************************)
TypeOK ==
  /\ RegisterTypeOK /\ PoolTypeOK /\ VaultTypeOK /\ ConfigTypeOK
  /\ BarTypeOK /\ GateTypeOK /\ HolderTypeOK /\ HistoryTypeOK

Init ==
  /\ RegisterInit
  /\ now = 0 /\ halted = FALSE /\ layoutAhead = FALSE /\ paused = "NotPaused"
  /\ periods = [o \in Offerings |-> <<>>]
  /\ lockedToken = [o \in Offerings |-> NoToken]
  /\ vault = [t \in PayTokens |-> 0]
  /\ deposited = [o \in Offerings |-> 0]
  /\ accrualIndex = [o \in Offerings |-> 0]
  /\ decimals = [o \in Offerings |-> 7]
  /\ claimDelay = [o \in Offerings |-> 0]
  /\ claimWindow = [o \in Offerings |-> NoWindow]
  /\ blacklist = [o \in Offerings |-> {}]
  /\ holderFrozen = [o \in Offerings |-> [h \in Holders |-> NoReason]]
  /\ lastClaimed = [o \in Offerings |-> [h \in Holders |-> 0]]
  /\ redemption = [o \in Offerings |-> [h \in Holders |-> 0]]
  /\ receipts = [o \in Offerings |-> [h \in Holders |-> <<>>]]
  /\ redeemedOut = [o \in Offerings |-> 0]
  /\ lastRaise = [o \in Offerings |-> 0]

-----------------------------------------------------------------------------
(***************************************************************************)
(* Amounts                                                                 *)
(***************************************************************************)

CANONICAL_DECIMALS == 7

PowersOfTen == <<1, 10, 100, 1000, 10000, 100000, 1000000, 10000000,
                 100000000, 1000000000>>

(***************************************************************************)
(* Scale an amount from the token's decimals to 7.  The result is 0 when   *)
(* the product leaves i128, which the amounts of this model do not reach.  *)
(***************************************************************************)
normalize_amount(amount, from_decimals) ==
  IF from_decimals <= CANONICAL_DECIMALS
    THEN amount * PowersOfTen[CANONICAL_DECIMALS - from_decimals + 1]
    ELSE amount \div PowersOfTen[from_decimals - CANONICAL_DECIMALS + 1]

\* Mutant: payouts round up.
ClaimPayout_RoundsUp(o, h, i) ==
  (normalize_amount(periods[o][i].amount, decimals[o]) * share[o][h] + FULL_BPS - 1)
  \div FULL_BPS

\* What claim pays holder h for period i: today's decimals and today's share.
ClaimPayout(o, h, i) ==
  (normalize_amount(periods[o][i].amount, decimals[o]) * share[o][h]) \div FULL_BPS

\* What the preview shows for period i: the decimals of the deposit and the
\* share the holder's schedule has in force.
SchedulePayout(o, h, i) ==
  (periods[o][i].accrued
     * ShareInForce(get_holder_share_schedule(schedule[o][h], share[o][h]), i))
  \div FULL_BPS

-----------------------------------------------------------------------------
(***************************************************************************)
(* Guards shared by the entry points                                       *)
(***************************************************************************)

require_not_frozen == ~halted /\ ~layoutAhead
require_not_paused == paused = "NotPaused"

ClaimWindowOpen(o) ==
  claimWindow[o] # NoWindow =>
    now >= claimWindow[o].start /\ now <= claimWindow[o].end

Matured(o, i) ==
  claimDelay[o] = 0 \/ now >= periods[o][i].time + claimDelay[o]

\* Mutant: the token lets the contract overdraw.
PayOut_Overdraws(o, amount) ==
  /\ lockedToken[o] # NoToken
  /\ amount > 0
  /\ vault' = [vault EXCEPT ![lockedToken[o]] = @ - amount]

(***************************************************************************)
(* A transfer out of the contract's balance, to the payee of the call.     *)
(* The token contract refuses one that the balance does not cover, and     *)
(* the call then fails as a whole.                                         *)
(***************************************************************************)
PayOut(o, amount) ==
  /\ lockedToken[o] # NoToken
  /\ amount \in 1..vault[lockedToken[o]]
  /\ vault' = [vault EXCEPT ![lockedToken[o]] = @ - amount]

-----------------------------------------------------------------------------
(***************************************************************************)
(* Deposits                                                                *)
(***************************************************************************)

\* The second fixed-point index of a deposit, over the shares held right now.
AccrueOverHeldShares(o, normalized) ==
  accrualIndex' = [accrualIndex EXCEPT ![o] =
    IF shareTotal[o] > 0 THEN @ + (normalized * E18) \div shareTotal[o] ELSE @]

\* Mutant: each deposit is held against the cap on its own.
WithinSupplyCap_PerDeposit(o, amount) == SupplyCap[o] > 0 => amount <= SupplyCap[o]

WithinSupplyCap(o, amount) == SupplyCap[o] > 0 => deposited[o] + amount <= SupplyCap[o]

\* Mutant: the locked token is not looked at.
TokenAccepted_Any(o, payment_token) == TRUE

\* The first deposit locks its token for the offering.
TokenAccepted(o, payment_token) == lockedToken[o] \in {NoToken, payment_token}

do_deposit_revenue(o, payment_token, amount, period_id) ==
  LET normalized == normalize_amount(amount, decimals[o])
  IN  /\ amount > 0
      /\ period_id = Len(periods[o]) + 1
      /\ WithinSupplyCap(o, amount)
      /\ TokenAccepted(o, payment_token)
      /\ vault' = [vault EXCEPT ![payment_token] = @ + amount]
      /\ lockedToken' = [lockedToken EXCEPT ![o] = payment_token]
      /\ periods' = [periods EXCEPT ![o] =
           Append(@, [amount |-> amount, time |-> now, accrued |-> normalized])]
      /\ deposited' = [deposited EXCEPT ![o] = @ + amount]
      /\ AccrueOverHeldShares(o, normalized)

deposit_revenue(o, payment_token, amount, period_id) ==
  /\ require_not_frozen
  /\ require_not_paused
  /\ period_id <= MaxPeriods
  /\ do_deposit_revenue(o, payment_token, amount, period_id)
  /\ UNCHANGED <<registerVars, now, gateVars, configVars, barVars, lastClaimed,
                 redemption, historyVars>>

-----------------------------------------------------------------------------
(***************************************************************************)
(* Shares                                                                  *)
(***************************************************************************)

NoteRaise(o, h, share_bps) ==
  lastRaise' = [lastRaise EXCEPT ![o] =
                  IF share_bps > share[o][h] THEN Len(periods[o]) ELSE @]

set_holder_share(o, h, share_bps) ==
  /\ require_not_frozen
  /\ require_not_paused
  /\ set_holder_share_internal(o, h, share_bps, Len(periods[o]))
  /\ NoteRaise(o, h, share_bps)
  /\ UNCHANGED <<now, gateVars, poolVars, vault, configVars, barVars,
                 lastClaimed, redemption, receipts, redeemedOut>>

set_max_total_supply_shares(o, cap) ==
  /\ require_not_frozen
  /\ require_not_paused
  /\ maxShares' = [maxShares EXCEPT ![o] = cap]
  /\ UNCHANGED <<share, shareTotal, sharesIssued, schedule, now, gateVars,
                 poolVars, vault, configVars, barVars, lastClaimed, redemption,
                 historyVars>>

-----------------------------------------------------------------------------
(***************************************************************************)
(* Configuration of an offering by its issuer                              *)
(***************************************************************************)

set_claim_delay(o, delay_secs) ==
  /\ require_not_frozen
  /\ require_not_paused
  /\ claimDelay' = [claimDelay EXCEPT ![o] = delay_secs]
  /\ UNCHANGED <<registerVars, now, gateVars, poolVars, vault, decimals,
                 claimWindow, barVars, lastClaimed, redemption, historyVars>>

\* Not stopped by a pause.
set_claim_window(o, window) ==
  /\ require_not_frozen
  /\ window.start <= window.end
  /\ claimWindow' = [claimWindow EXCEPT ![o] = window]
  /\ UNCHANGED <<registerVars, now, gateVars, poolVars, vault, decimals,
                 claimDelay, barVars, lastClaimed, redemption, historyVars>>

\* Stopped by neither a freeze nor a pause, and not fixed by the first deposit.
set_payment_token_decimals(o, d) ==
  /\ decimals' = [decimals EXCEPT ![o] = d]
  /\ UNCHANGED <<registerVars, now, gateVars, poolVars, vault, claimDelay,
                 claimWindow, barVars, lastClaimed, redemption, historyVars>>

-----------------------------------------------------------------------------
(***************************************************************************)
(* Bars on a holder, by the issuer or the admin                            *)
(***************************************************************************)

blacklist_add(o, h) ==
  /\ require_not_frozen
  /\ require_not_paused
  /\ Initialized
  /\ h \notin blacklist[o]
  /\ Cardinality(blacklist[o]) < BlacklistLimit
  /\ blacklist' = [blacklist EXCEPT ![o] = @ \cup {h}]
  /\ UNCHANGED <<registerVars, now, gateVars, poolVars, vault, configVars,
                 holderFrozen, lastClaimed, redemption, historyVars>>

blacklist_remove(o, h) ==
  /\ require_not_frozen
  /\ require_not_paused
  /\ Initialized
  /\ blacklist' = [blacklist EXCEPT ![o] = @ \ {h}]
  /\ UNCHANGED <<registerVars, now, gateVars, poolVars, vault, configVars,
                 holderFrozen, lastClaimed, redemption, historyVars>>

\* Freezing a frozen holder replaces the reason.
emergency_freeze_holder(o, h, reason) ==
  /\ require_not_frozen
  /\ holderFrozen' = [holderFrozen EXCEPT ![o][h] = reason]
  /\ UNCHANGED <<registerVars, now, gateVars, poolVars, vault, configVars,
                 blacklist, lastClaimed, redemption, historyVars>>

\* Mutant: a holder is released after the contract was frozen.
emergency_unfreeze_holder_WhileHalted(o, h, reason) ==
  /\ holderFrozen[o][h] = reason
  /\ holderFrozen' = [holderFrozen EXCEPT ![o][h] = NoReason]
  /\ UNCHANGED <<registerVars, now, gateVars, poolVars, vault, configVars,
                 blacklist, lastClaimed, redemption, historyVars>>

emergency_unfreeze_holder(o, h, reason) ==
  /\ require_not_frozen
  /\ holderFrozen[o][h] = reason
  /\ holderFrozen' = [holderFrozen EXCEPT ![o][h] = NoReason]
  /\ UNCHANGED <<registerVars, now, gateVars, poolVars, vault, configVars,
                 blacklist, lastClaimed, redemption, historyVars>>

-----------------------------------------------------------------------------
(***************************************************************************)
(* Contract-wide gates, by the admin or, for the lower tier of the pause,  *)
(* by the safety role.  Each call writes its tier over whatever tier there *)
(* is, so the safety role can lower a hard pause or end it.                *)
(***************************************************************************)

SetPaused(tier) ==
  /\ Initialized
  /\ paused' = tier
  /\ UNCHANGED <<registerVars, now, halted, layoutAhead, poolVars, vault, configVars,
                 barVars, lastClaimed, redemption, historyVars>>

pause_admin == SetPaused("SoftPaused")
hard_pause_admin == SetPaused("HardPaused")
unpause_admin == SetPaused("NotPaused")
pause_safety == SetPaused("SoftPaused")
unpause_safety == SetPaused("NotPaused")

Halt ==
  /\ Initialized
  /\ halted' = TRUE
  /\ UNCHANGED <<registerVars, now, layoutAhead, paused, poolVars, vault,
                 configVars, barVars, lastClaimed, redemption, historyVars>>

\* Nothing clears the Frozen flag.
set_freeze == Halt

(***************************************************************************)
(* DeployedVersion may only move forward, starts at the version of this    *)
(* binary, and require_not_frozen refuses a binary older than it: under    *)
(* this binary a migration closes the same gate as a freeze, for good.     *)
(***************************************************************************)
migrate_storage == ~halted /\ Halt

(***************************************************************************)
(* The admin writes any layout version, and nothing forbids to lower it    *)
(* again: this way of failing require_not_frozen comes and goes.           *)
(***************************************************************************)
set_storage_layout_version(ahead) ==
  /\ Initialized
  /\ layoutAhead' = ahead
  /\ UNCHANGED <<registerVars, now, halted, paused, poolVars, vault, configVars,
                 barVars, lastClaimed, redemption, historyVars>>

-----------------------------------------------------------------------------
(***************************************************************************)
(* Claims                                                                  *)
(***************************************************************************)

\* A requested batch of 0, or above the limit, means the limit.
EffectiveMax(requested, limit) == IF requested \in 1..limit THEN requested ELSE limit

Least(a, b) == IF a <= b THEN a ELSE b

\* Mutant: a pause stops claims too.
ClaimAllowed_NotPaused(h, o) ==
  /\ require_not_paused
  /\ h \notin blacklist[o]
  /\ holderFrozen[o][h] = NoReason
  /\ share[o][h] > 0
  /\ ClaimWindowOpen(o)

\* Neither a freeze nor a pause of the contract, of either tier, stops a claim.
ClaimAllowed(h, o) ==
  /\ h \notin blacklist[o]
  /\ holderFrozen[o][h] = NoReason
  /\ share[o][h] > 0
  /\ ClaimWindowOpen(o)

ReceiptsFor(o, h, start, end) ==
  [k \in 1 .. end - start |->
     [period |-> start + k, amount |-> ClaimPayout(o, h, start + k)]]

\* Mutant: the index moves by one per call, not by one per period.
Settle_OnePerCall(o, h, start, end) ==
  /\ receipts' = [receipts EXCEPT ![o][h] = @ \o ReceiptsFor(o, h, start, end)]
  /\ lastClaimed' = [lastClaimed EXCEPT ![o][h] = start + 1]

Settle(o, h, start, end) ==
  /\ receipts' = [receipts EXCEPT ![o][h] = @ \o ReceiptsFor(o, h, start, end)]
  /\ lastClaimed' = [lastClaimed EXCEPT ![o][h] = end]

(***************************************************************************)
(* A holder settles the periods from start + 1 to the last one of the      *)
(* batch that no immature period precedes, at one payout per period, and   *)
(* is paid their sum.  A sum of 0 needs no transfer.                       *)
(***************************************************************************)
claim(h, o, max_periods) ==
  LET start == lastClaimed[o][h]
      bound == Least(start + EffectiveMax(max_periods, MAX_CLAIM_PERIODS),
                     Len(periods[o]))
  IN  /\ ClaimAllowed(h, o)
      /\ \E end \in start + 1 .. bound :
           /\ \A i \in start + 1 .. end : Matured(o, i)
           /\ end < bound => ~Matured(o, end + 1)
           /\ LET total == SumFunction([i \in start + 1 .. end |-> ClaimPayout(o, h, i)])
              IN  \/ total = 0 /\ UNCHANGED vault
                  \/ PayOut(o, total)
           /\ Settle(o, h, start, end)
      /\ UNCHANGED <<registerVars, now, gateVars, poolVars, configVars, barVars,
                     redemption, redeemedOut, lastRaise>>

NoCursor == -1

\* Mutant: the cursor points past the first period not shown.
CursorAt_SkipsOne(o, end) == IF end >= Len(periods[o]) THEN NoCursor ELSE end + 1

CursorAt(o, end) == IF end >= Len(periods[o]) THEN NoCursor ELSE end

(***************************************************************************)
(* The preview of the next periods above from, at most cap of them, and    *)
(* the index to resume at; NoCursor when the preview reached the last      *)
(* period.  Holder freezes and a zero share are not looked at.             *)
(***************************************************************************)
compute_claimable_preview(o, h, from, cap) ==
  LET start == IF from >= lastClaimed[o][h] THEN from ELSE lastClaimed[o][h]
      bound == Least(start + cap, Len(periods[o]))
      matured == {i \in start + 1 .. bound : \A j \in start + 1 .. i : Matured(o, j)}
      end == start + Cardinality(matured)
  IN  [total |-> SumFunction([i \in matured |-> SchedulePayout(o, h, i)]),
       next |-> CursorAt(o, end)]

PreviewBarred(o, h) == h \in blacklist[o] \/ ~ClaimWindowOpen(o)

get_claimable_chunk(o, h, start_idx, count) ==
  IF PreviewBarred(o, h) THEN [total |-> 0, next |-> NoCursor]
  ELSE compute_claimable_preview(o, h, start_idx,
                                 EffectiveMax(count, MAX_CHUNK_PERIODS))

get_claimable(o, h) ==
  IF PreviewBarred(o, h) THEN 0
  ELSE compute_claimable_preview(o, h, 0, Len(periods[o])).total

-----------------------------------------------------------------------------
(***************************************************************************)
(* Redemptions.  The redemption window has no setter, so it is always      *)
(* open; a request can be neither cancelled nor replaced.                  *)
(***************************************************************************)

request_redemption(h, o, shares_bps) ==
  /\ require_not_frozen
  /\ require_not_paused
  /\ h \notin blacklist[o]
  /\ shares_bps \in 1..share[o][h]
  /\ redemption[o][h] = 0
  /\ redemption' = [redemption EXCEPT ![o][h] = shares_bps]
  /\ UNCHANGED <<registerVars, now, gateVars, poolVars, vault, configVars, barVars,
                 lastClaimed, historyVars>>

(***************************************************************************)
(* The issuer names the price.  It is paid from the contract's balance,    *)
(* periods the holder has not claimed stay claimable at the reduced share, *)
(* and a holder under an emergency freeze is paid all the same.            *)
(***************************************************************************)
fulfill_redemption(o, h, amount) ==
  LET new_share == share[o][h] - Least(redemption[o][h], share[o][h])
  IN  /\ require_not_frozen
      /\ require_not_paused
      /\ h \notin blacklist[o]
      /\ amount > 0
      /\ redemption[o][h] > 0
      /\ share[o][h] > 0
      /\ PayOut(o, amount)
      /\ set_holder_share_internal(o, h, new_share, Len(periods[o]))
      /\ redemption' = [redemption EXCEPT ![o][h] = 0]
      /\ redeemedOut' = [redeemedOut EXCEPT ![o] = @ + amount]
      /\ UNCHANGED <<now, gateVars, poolVars, configVars, barVars, lastClaimed,
                     receipts, lastRaise>>

-----------------------------------------------------------------------------

Tick ==
  /\ now < MaxTime
  /\ now' = now + 1
  /\ UNCHANGED <<registerVars, gateVars, poolVars, vault, configVars, barVars,
                 lastClaimed, redemption, historyVars>>

IssuerNext(o) ==
  \/ \E t \in PayTokens, a \in Amounts, p \in 1..MaxPeriods : deposit_revenue(o, t, a, p)
  \/ \E h \in Holders, s \in Shares : set_holder_share(o, h, s)
  \/ \E cap \in ShareCaps : set_max_total_supply_shares(o, cap)
  \/ \E d \in Delays : set_claim_delay(o, d)
  \/ \E w \in Windows : set_claim_window(o, w)
  \/ \E d \in Decimals : set_payment_token_decimals(o, d)
  \/ \E h \in Holders, a \in Amounts : fulfill_redemption(o, h, a)

BarNext(o, h) ==
  \/ blacklist_add(o, h)
  \/ blacklist_remove(o, h)
  \/ \E r \in FreezeReasons : emergency_freeze_holder(o, h, r)
  \/ \E r \in FreezeReasons : emergency_unfreeze_holder(o, h, r)

HolderNext(o, h) ==
  \/ \E n \in BatchSizes : claim(h, o, n)
  \/ \E s \in RedeemShares : request_redemption(h, o, s)

AdminNext ==
  \/ pause_admin \/ hard_pause_admin \/ unpause_admin
  \/ pause_safety \/ unpause_safety
  \/ set_freeze \/ migrate_storage
  \/ \E ahead \in BOOLEAN : set_storage_layout_version(ahead)

Next ==
  \/ \E o \in Offerings : IssuerNext(o)
  \/ \E o \in Offerings, h \in Holders : BarNext(o, h) \/ HolderNext(o, h)
  \/ AdminNext
  \/ Tick

Spec == Init /\ [][Next]_vars

-----------------------------------------------------------------------------
(***************************************************************************)
(* Properties                                                              *)
(***************************************************************************)

(***************************************************************************)
(* The claim index is the holder's only protection against being paid      *)
(* twice or passed over.  Whatever batches a holder claims in, and however *)
(* delays and windows change in between, its receipts are for periods      *)
(* 1, 2, ... up to the index, each exactly once, and never for a period    *)
(* that has not been deposited.                                            *)
(***************************************************************************)
SettledOnceInOrder ==
  \A o \in Offerings, h \in Holders :
    /\ lastClaimed[o][h] = Len(receipts[o][h])
    /\ lastClaimed[o][h] <= Len(periods[o])
    /\ \A k \in 1 .. Len(receipts[o][h]) : receipts[o][h][k].period = k

(***************************************************************************)
(* Share changes are forward-only for a holder that already has a          *)
(* schedule: no call changes the share that prices a deposited period.  (A *)
(* holder's first share has no schedule to protect: it reprices every      *)
(* period deposited before it.)                                            *)
(***************************************************************************)
DepositedPeriodsKeepTheirShare ==
  [][\A o \in Offerings, h \in Holders :
       DOMAIN schedule[o][h] # {} =>
         \A i \in 1 .. Len(periods[o]) :
           ShareInForce(schedule'[o][h], i) = ShareInForce(schedule[o][h], i)]_vars

\* No amount is scaled up on its way from the deposit to the payout.
NoUpscaling == \A d \in Decimals : d >= CANONICAL_DECIMALS

\* What period i still costs, or has cost, the offering for holder h, at the
\* higher of the claim's price and the preview's.
Due(o, h, i) ==
  IF i <= lastClaimed[o][h] THEN receipts[o][h][i].amount
  ELSE IF ClaimPayout(o, h, i) >= SchedulePayout(o, h, i)
    THEN ClaimPayout(o, h, i)
    ELSE SchedulePayout(o, h, i)

(***************************************************************************)
(* claim pays at the share of the moment of the claim, so holders that     *)
(* claim one period at different moments are paid from different divisions *)
(* of it.  As long as no share rose after the period was deposited, what   *)
(* holders have taken and may still take of it is no more than the         *)
(* deposit, whatever was lowered, redeemed or claimed in between.          *)
(***************************************************************************)
PeriodNeverOversubscribed ==
  NoUpscaling =>
    \A o \in Offerings : \A i \in lastRaise[o] + 1 .. Len(periods[o]) :
      SumFunction([h \in Holders |-> Due(o, h, i)]) <= periods[o][i].amount

(***************************************************************************)
(* Paging through the preview loses and repeats nothing: a first page of   *)
(* any size and everything after its cursor add up to everything from      *)
(* where the page began (get_claimable, when that is 0), also when a delay *)
(* stops the page early or a claim moved the index past the caller's       *)
(* cursor.                                                                 *)
(***************************************************************************)
ChunksAddUp ==
  \A o \in Offerings, h \in Holders, n \in BatchSizes, from \in 0 .. MaxPeriods :
    LET page == get_claimable_chunk(o, h, from, n)
        everything(i) == compute_claimable_preview(o, h, i, Len(periods[o])).total
    IN  page.next # NoCursor => page.total + everything(page.next) = everything(from)

(***************************************************************************)
(* After a freeze, or a migration past this binary, the register, the      *)
(* entitlements and the bars on holders are as they were left, for good:   *)
(* all that still moves is claims, the clock, the pause flag and the       *)
(* decimals of the payment tokens.                                         *)
(***************************************************************************)
HaltIsFinal ==
  [][halted => /\ halted'
               /\ UNCHANGED <<registerVars, poolVars, claimDelay, claimWindow,
                              barVars, redemption, redeemedOut>>]_vars

(***************************************************************************)
(* The exit of the holders: whatever is frozen or soft-paused and however  *)
(* the issuer reconfigures, a holder that is not barred itself, in an open *)
(* window and with a matured period left, can claim it, provided the       *)
(* balance covers everything the holder has left.  A hard pause is to      *)
(* block claims and is left out: see HardPauseBlocksClaims.                *)
(***************************************************************************)
HolderCanExit ==
  \A o \in Offerings, h \in Holders :
    LET left == lastClaimed[o][h] + 1 .. Len(periods[o])
        due == SumFunction([i \in left |-> Due(o, h, i)])
    IN  /\ paused # "HardPaused"
        /\ h \notin blacklist[o] /\ holderFrozen[o][h] = NoReason
        /\ share[o][h] > 0
        /\ ClaimWindowOpen(o)
        /\ left # {} /\ Matured(o, lastClaimed[o][h] + 1)
        /\ due <= vault[lockedToken[o]]
        => ENABLED (\E n \in BatchSizes : claim(h, o, n))

OfferingsPaidIn(t) == {o \in Offerings : lockedToken[o] = t}

Revenue(o) == SumFunction([i \in 1 .. Len(periods[o]) |-> periods[o][i].amount])

ClaimedBy(o, h) ==
  SumFunction([k \in 1 .. Len(receipts[o][h]) |-> receipts[o][h][k].amount])

Claimed(o) == SumFunction([h \in Holders |-> ClaimedBy(o, h)])

(***************************************************************************)
(* The contract keeps no account of what it owes; its balance in a token   *)
(* is all there is.  It equals what the offerings locked to that token     *)
(* deposited, less what their holders claimed and redeemed, and the cap    *)
(* counter agrees with the periods.                                        *)
(***************************************************************************)
VaultBalanced ==
  /\ \A t \in PayTokens :
       vault[t] = SumFunction([o \in OfferingsPaidIn(t) |->
                                 Revenue(o) - Claimed(o) - redeemedOut[o]])
  /\ \A o \in Offerings : deposited[o] = Revenue(o)
  /\ \A o \in Offerings : SupplyCap[o] > 0 => deposited[o] <= SupplyCap[o]

Outstanding(o) ==
  SumFunction([h \in Holders |->
    SumFunction([i \in lastClaimed[o][h] + 1 .. Len(periods[o]) |-> Due(o, h, i)])])

(***************************************************************************)
(* Offerings share one balance without a reserve.  When no share of any    *)
(* offering paid in a token rose after its first deposit and no redemption *)
(* was paid, that balance covers everything that can still be claimed, so  *)
(* no claim of one offering can starve another's.                          *)
(***************************************************************************)
Solvent ==
  NoUpscaling =>
    \A t \in PayTokens :
      (\A o \in OfferingsPaidIn(t) : redeemedOut[o] = 0 /\ lastRaise[o] = 0) =>
        SumFunction([o \in OfferingsPaidIn(t) |-> Outstanding(o)]) <= vault[t]

(***************************************************************************)
(* The money path implements the pool: a deposit takes a period in, a      *)
(* claim settles, a fulfilled redemption is a buy-out, a freeze or a       *)
(* migration closes the pool, and every other call leaves it alone.        *)
(***************************************************************************)
Pool == INSTANCE RevenuePool WITH
  taken <- [o \in Offerings |-> Len(periods[o])],
  token <- lockedToken,
  cash <- vault,
  settled <- lastClaimed,
  closed <- halted

ImplementsPool == Pool!Spec

-----------------------------------------------------------------------------
(***************************************************************************)
(* Statements of the repository that the code does not keep                *)
(***************************************************************************)

(***************************************************************************)
(* The comments on hard_pause_admin and get_pause_state: a hard pause      *)
(* blocks claim as well, so nothing is settled while it lasts.  claim asks *)
(* for neither tier.                                                       *)
(***************************************************************************)
HardPauseBlocksClaims == [][paused = "HardPaused" => UNCHANGED receipts]_vars

(***************************************************************************)
(* docs/property-based-invariant-tests.md: the claims of an offering add   *)
(* up to no more than its deposits.  claim prices a period at the share of *)
(* the moment, and the balance it pays from is shared with every other     *)
(* offering in the token, so a share that is raised after others claimed   *)
(* is paid out of another offering's deposits.                             *)
(***************************************************************************)
PayoutConservation == \A o \in Offerings : Claimed(o) <= Revenue(o)

\* What calls of claim by holder h pay right now.
ClaimableNow(o, h) ==
  IF h \in blacklist[o] \/ holderFrozen[o][h] # NoReason \/ ~ClaimWindowOpen(o)
    THEN 0
    ELSE LET left == lastClaimed[o][h] + 1 .. Len(periods[o])
         IN  SumFunction([i \in {j \in left : \A k \in lastClaimed[o][h] + 1 .. j :
                                               Matured(o, k)} |-> ClaimPayout(o, h, i)])

(***************************************************************************)
(* The comment on compute_claimable_preview: a preview never overstates    *)
(* what claim could pay at the current ledger state.  The preview prices   *)
(* each period at the share the schedule has in force for it, claim at the *)
(* current share.                                                          *)
(***************************************************************************)
PreviewNeverOverstates ==
  \A o \in Offerings, h \in Holders : get_claimable(o, h) <= ClaimableNow(o, h)
=============================================================================
