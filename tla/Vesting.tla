------------------------------- MODULE Vesting -------------------------------
(***************************************************************************)
(* The vesting schedules of one token.  A beneficiary has one schedule: an *)
(* amount that vests linearly between two times, nothing of it claimable   *)
(* before a cliff, part of it possibly accelerated by the issuer.  The     *)
(* schedules of an issuer are indexed by a list, so that IssuerTransfer    *)
(* can hand them to a new issuer.                                          *)
(*                                                                         *)
(* The index is keyed by issuer and token, without a namespace: all        *)
(* offerings of an issuer in the token share it.  The curve of a schedule  *)
(* is announced and not read, so it is left out, as is the token: claims   *)
(* move no money, they are amounts booked as claimed.                      *)
(***************************************************************************)
EXTENDS Integers, Sequences

CONSTANTS
  Issuers,        \* addresses that issue schedules and offerings
  Beneficiaries,
  Granters,       \* inputs: issuers that register schedules
  Plans,          \* inputs: what a schedule is registered with, see Plan
  Triggers,       \* inputs: acceleration triggers
  Accelerations,  \* inputs: basis points accelerated
  BPS,            \* 10000 in the code
  I128_MAX,
  MaxTime         \* bound on the clock

\* The amount and the times of a schedule.
Plan == [total_amount : Int, cliff_ts : Nat, start_ts : Nat, end_ts : Nat]

ASSUME VestingInputs ==
  /\ Granters \subseteq Issuers /\ Plans \subseteq Plan /\ Accelerations \subseteq Nat
  /\ \A plan \in Plans : plan.total_amount <= I128_MAX
  /\ BPS \in Nat \ {0} /\ I128_MAX \in Nat /\ MaxTime \in Nat

VARIABLES
  now,           \* ledger timestamp
  schedule,      \* Schedule(beneficiary)
  claimed,       \* Claimed(beneficiary)
  scheduleItem,  \* OfferingScheduleItem and OfferingScheduleCount, by issuer
  acceleration   \* Acceleration(beneficiary, trigger): those processed

vestingVars == <<schedule, claimed, scheduleItem, acceleration>>

Schedule ==
  [issuer : Issuers, total_amount : 1..I128_MAX, cliff_ts : Nat, start_ts : Nat,
   end_ts : Nat, accelerated_amount : 0..I128_MAX]

VestingTypeOK ==
  /\ now \in Nat
  /\ DOMAIN schedule \subseteq Beneficiaries
  /\ schedule \in [DOMAIN schedule -> Schedule]
  /\ claimed \in [DOMAIN schedule -> 0..I128_MAX]
  /\ scheduleItem \in [Issuers -> Seq(Beneficiaries)]
  /\ acceleration \subseteq Beneficiaries \X Triggers

VestingInit ==
  /\ now = 0
  /\ schedule = [b \in {} |-> 0] /\ claimed = [b \in {} |-> 0]
  /\ scheduleItem = [i \in Issuers |-> <<>>]
  /\ acceleration = {}

\* Map m with x stored under key k.
Put(m, k, x) == [i \in DOMAIN m \cup {k} |-> IF i = k THEN x ELSE m[i]]

Least(a, b) == IF a <= b THEN a ELSE b

-----------------------------------------------------------------------------
(***************************************************************************)
(* What has vested                                                         *)
(***************************************************************************)

\* checked_mul(..).unwrap_or(0): a product too large counts as nothing.
ProductOrZero(a, b) == IF a * b <= I128_MAX THEN a * b ELSE 0

\* Vested by the passing of time alone.
BaseVested(s, time) ==
  IF time < s.cliff_ts \/ (time < s.end_ts /\ time <= s.start_ts) THEN 0
  ELSE IF time >= s.end_ts THEN s.total_amount
  ELSE ProductOrZero(s.total_amount, time - s.start_ts) \div (s.end_ts - s.start_ts)

\* Mutant: what was accelerated is not clipped to the total.
compute_vested_Unclipped(s, time) == BaseVested(s, time) + s.accelerated_amount

compute_vested(s, time) ==
  Least(BaseVested(s, time) + s.accelerated_amount, s.total_amount)

\* Mutant: before the end something is always held back.
compute_claimable_HoldsBack(s, already_claimed, time) ==
  LET due == compute_vested(s, time) - already_claimed - 1
  IN  IF due > 0 THEN due ELSE 0

\* Never negative, even when less has vested than was claimed.
compute_claimable(s, already_claimed, time) ==
  LET due == compute_vested(s, time) - already_claimed
  IN  IF due > 0 THEN due ELSE 0

-----------------------------------------------------------------------------
(***************************************************************************)
(* The calls.  None of them asks whether the contract is paused or frozen. *)
(***************************************************************************)

\* Mutant: any amount will do.
ValidPlan_AnyAmount(plan) ==
  plan.start_ts >= plan.cliff_ts /\ plan.end_ts > plan.start_ts

ValidPlan(plan) ==
  /\ plan.total_amount > 0
  /\ plan.start_ts >= plan.cliff_ts /\ plan.end_ts > plan.start_ts

vesting_register(issuer, beneficiary, plan) ==
  /\ ValidPlan(plan)
  /\ beneficiary \notin DOMAIN schedule
  /\ schedule' = Put(schedule, beneficiary,
       [issuer |-> issuer, total_amount |-> plan.total_amount,
        cliff_ts |-> plan.cliff_ts, start_ts |-> plan.start_ts,
        end_ts |-> plan.end_ts, accelerated_amount |-> 0])
  /\ claimed' = Put(claimed, beneficiary, 0)
  /\ scheduleItem' = [scheduleItem EXCEPT ![issuer] = Append(@, beneficiary)]
  /\ UNCHANGED <<now, acceleration>>

\* The sum of all accelerations, at most the total.
Accelerated(s, acceleration_bps) ==
  Least(s.accelerated_amount + ProductOrZero(s.total_amount, acceleration_bps) \div BPS,
        s.total_amount)

\* Once per trigger.
accelerate_vesting(beneficiary, trigger_id, acceleration_bps) ==
  /\ acceleration_bps <= BPS
  /\ beneficiary \in DOMAIN schedule
  /\ <<beneficiary, trigger_id>> \notin acceleration
  /\ schedule' = [schedule EXCEPT ![beneficiary].accelerated_amount =
                    Accelerated(schedule[beneficiary], acceleration_bps)]
  /\ acceleration' = acceleration \cup {<<beneficiary, trigger_id>>}
  /\ UNCHANGED <<now, claimed, scheduleItem>>

\* Claiming before the cliff fails; claiming nothing succeeds and does nothing.
vesting_claim(beneficiary) ==
  /\ beneficiary \in DOMAIN schedule
  /\ now >= schedule[beneficiary].cliff_ts
  /\ LET claimable == compute_claimable(schedule[beneficiary], claimed[beneficiary], now)
     IN  /\ claimable > 0
         /\ claimed' = [claimed EXCEPT ![beneficiary] = @ + claimable]
  /\ UNCHANGED <<now, schedule, scheduleItem, acceleration>>

-----------------------------------------------------------------------------
(***************************************************************************)
(* Handing the schedules of an issuer to another one                       *)
(***************************************************************************)

\* A beneficiary of the list with a schedule of that issuer.
Held(issuer, beneficiary) ==
  beneficiary \in DOMAIN schedule /\ schedule[beneficiary].issuer = issuer

Listed(issuer) == {scheduleItem[issuer][k] : k \in DOMAIN scheduleItem[issuer]}

\* SchedulePreCliff: one schedule before its cliff holds up all of them.
NonePreCliff(issuer) ==
  \A b \in Listed(issuer) : Held(issuer, b) => now >= schedule[b].cliff_ts

\* The list of new_issuer after each item of the list of old_issuer: an item
\* that has a schedule of old_issuer is appended.
ListsAfter(old_issuer, new_issuer) ==
  LET items == scheduleItem[old_issuer]
      after[k \in 0 .. Len(items)] ==
        IF k = 0 THEN scheduleItem[new_issuer]
        ELSE IF Held(old_issuer, items[k]) THEN Append(after[k - 1], items[k])
        ELSE after[k - 1]
  IN  after

MigratedList(old_issuer, new_issuer) ==
  ListsAfter(old_issuer, new_issuer)[Len(scheduleItem[old_issuer])]

\* Mutant: the list of the old issuer is not cleared.
MigratedItems_KeepsOld(old_issuer, new_issuer) ==
  [scheduleItem EXCEPT ![new_issuer] = MigratedList(old_issuer, new_issuer)]

MigratedItems(old_issuer, new_issuer) ==
  [scheduleItem EXCEPT ![old_issuer] = <<>>,
                       ![new_issuer] = MigratedList(old_issuer, new_issuer)]

\* Mutant: the schedule is made anew, without what was accelerated.
MigratedSchedule_Anew(s, new_issuer) ==
  [s EXCEPT !.issuer = new_issuer, !.accelerated_amount = 0]

MigratedSchedule(s, new_issuer) == [s EXCEPT !.issuer = new_issuer]

\* Called with two different issuers, and only when NonePreCliff(old_issuer).
migrate_offering_schedules(old_issuer, new_issuer) ==
  /\ schedule' = [b \in DOMAIN schedule |->
                    IF b \in Listed(old_issuer) /\ Held(old_issuer, b)
                      THEN MigratedSchedule(schedule[b], new_issuer)
                      ELSE schedule[b]]
  /\ scheduleItem' = MigratedItems(old_issuer, new_issuer)
  /\ UNCHANGED <<claimed, acceleration>>

-----------------------------------------------------------------------------

VestingNext ==
  \/ \E i \in Granters, b \in Beneficiaries, plan \in Plans : vesting_register(i, b, plan)
  \/ \E b \in Beneficiaries, t \in Triggers, bps \in Accelerations :
       accelerate_vesting(b, t, bps)
  \/ \E b \in Beneficiaries : vesting_claim(b)

-----------------------------------------------------------------------------
(***************************************************************************)
(* Properties                                                              *)
(***************************************************************************)

(***************************************************************************)
(* However schedules are accelerated, handed over and claimed in between,  *)
(* nobody is ever booked more than the total of the schedule: what was     *)
(* accelerated is not claimed a second time when it vests.                 *)
(***************************************************************************)
ClaimedWithinTotal ==
  \A b \in DOMAIN schedule : claimed[b] <= schedule[b].total_amount

(***************************************************************************)
(* The lists of vesting.rs are the schedules: each schedule is listed      *)
(* exactly once, under its present issuer and no other, after any number   *)
(* of transfers.                                                           *)
(***************************************************************************)
ScheduleIndexExact ==
  /\ \A i \in Issuers : Listed(i) = {b \in DOMAIN schedule : schedule[b].issuer = i}
  /\ \A i \in Issuers : \A j, k \in DOMAIN scheduleItem[i] :
       scheduleItem[i][j] = scheduleItem[i][k] => j = k

\* The product in BaseVested would leave i128.
Overflows(s, time) ==
  time \in s.start_ts .. s.end_ts - 1 /\ s.total_amount * (time - s.start_ts) > I128_MAX

(***************************************************************************)
(* What has vested never shrinks, by the passing of time, an acceleration  *)
(* or a transfer of the schedule, except where total times elapsed leaves  *)
(* i128: there compute_vested counts the linear part as nothing until the  *)
(* end of the schedule.                                                    *)
(***************************************************************************)
VestedNeverShrinks ==
  [][ \A b \in DOMAIN schedule :
        ~Overflows(schedule[b], now)' =>
          compute_vested(schedule[b], now) <= compute_vested(schedule[b], now)' ]_<<now, vestingVars>>
=============================================================================
