# Revora-Contracts: TLA+ models, checks and proofs

This directory holds TLA+ specifications of the Revora revenue-share contracts
(Soroban, Rust), TLC configurations that model-check them on small instances,
and theorems that TLAPS proves for every value of the constants. Source
references are to `src/lib.rs` unless another file is named.

    tlc -config OneOffering.cfg MCRevenueDistribution
    tlapm RevenueDistribution_proofs.tla

Every `.cfg` belongs to the MC module named in the table of runs, and every
module ending in `_proofs`, and `SumTheorems`, is checked the same way.

## 1. The system

One Soroban contract, `RevoraRevenueShare` (`src/lib.rs`), manages *offerings*
(issuer, namespace, token). An issuer gives holders *shares* in basis points,
*reports* the revenue of numbered periods and *deposits* it in a payment token;
holders *claim* their part. Two smaller contracts stand beside it: vesting
schedules (`src/vesting.rs`) and an equal-split deposit contract
(`src/revenue_deposit_contract.rs`). There are no threads: the host runs one
call at a time, and a call that returns an error leaves no trace. Everything
hard in this code is about *sequences of successful calls by different people*:
calls whose effect depends on what others did since the caller looked, several
stored copies of one fact that must agree, deadlines, and one token balance that
all offerings share.

| Component | State it keeps | Operations | Makes it correct |
|---|---|---|---|
| Share register | `HolderShare`, `HolderShareTotal`, `TotalSharesIssued`, `MaxTotalSupplyShares`, share schedules | `set_holder_share(_class)`, `set_max_total_supply_shares`, `convert_class`, every other writer through `set_holder_share_internal` | both totals equal the sum of the shares, at most 100%; a share change is forward-only |
| Deposits and claims | periods and their revenue, time and accrual index, locked payment token, `LastClaimedIdx`, delay, window, decimals, the token balance | `deposit_revenue`, `deposit_revenue_with_snapshot`, `claim`, `get_claimable(_chunk)`, the setters | each period paid once per holder, in order; nobody is paid out of what others are owed; holders can leave |
| Redemptions | pending request | `request_redemption`, `fulfill_redemption` | payment, register and request change together |
| Blacklist, holder freezes | blacklist map and order, size limit, emergency freezes | add, remove, batch and attested forms, freeze, unfreeze | a barred holder is not paid; bars survive only as intended |
| Pause, freeze, version | `PauseState`, `Frozen`, `DeployedVersion`, per-offering freeze | two pause tiers by admin and safety role, `freeze`, `migrate_storage`, `freeze_offering` | a halt is final and stops what it should |
| Registry, issuer transfer | offerings, per-issuer lists, pending transfer | `register_offering`, propose, replace, accept, cancel, reject | an accepted transfer moves control and nothing is orphaned |
| Revenue reports, audit | reports by period, audit summary, closed periods, thresholds, windows, concentration | `report_revenue`, override, `close_period` and its dual signature, repair, reconcile | the summary agrees with the reports; a closed period does not change |
| Admin, multisig, rotation | admin, pending rotation, owners, weights, threshold, proposals | `set_admin`, `propose/accept/cancel_admin_rotation`, `init_multisig`, propose, approve, execute | only what enough current owners approved in time is executed, once |
| Snapshots, governance | snapshot entries and holders, proposals, votes | `commit_snapshot`, `apply_snapshot_shares`, `create_gov_proposal`, `cast_vote`, `close_gov_proposal` | votes weigh what the pinned snapshot says |
| Meta transactions | keys, delegates, used nonces | `meta_set_holder_share`, `meta_approve_revenue_report` | a signed call takes effect at most once, in time |
| Whitelist, jurisdictions, transfer restrictions | lists and limits | the setters, `transfer_with_attestation` | transfers conserve shares |
| Fees, FX oracle, rounding, constraints | configuration | setters and pure computations | results in range |
| Disputes, disclosure, faucet, migration walker | small records | one or two calls each | - |
| Vesting | schedules, claimed amounts, offering index | register, accelerate, claim, migration on issuer transfer | claimed never exceeds vested |
| Revenue deposit contract | periods, beneficiaries, claims | create, deposit, add/remove beneficiary, claim | claims never exceed the revenue |

Interactions: `fulfill_redemption`, `apply_snapshot_shares`,
`transfer_with_attestation`, `meta_set_holder_share` and the faucet write the
share register; deposits and reports keep separate period cursors; an issuer
transfer re-keys an offering's configuration and calls into vesting; the pause,
freeze and version gates guard nearly every writer but not `claim`; the multisig
can replace the admin and freeze the contract.

`PROJECT.json` lists the hazards of the code at the lines where they bite, with
the properties that cover them.

## 2. What is modelled

| Module | Models |
|---|---|
| `HolderShares` | the share register: `set_holder_share_internal` as an operator on the primed register, the checkpoints of a holder's share and their lookup |
| `RevenueDistribution` | the money path, on top of the register: deposits, claims, previews, redemptions, bars on holders, configuration, gates. One action per entry point |
| `RevenuePool` | abstract: offerings take in periods, holders settle them in order out of the cash at hand, a closed pool only settles |
| `SnapshotGovernance` | on top of the money path: snapshots and their batches, deposits that cite a snapshot, proposals and votes |
| `RevenueReports` | reports, corrections, conversion, closing of periods and its dual signature, audit summary and repair, accrual index, range reads, and the limits a report must pass |
| `RevenueLedger` | abstract: an append-only ledger whose entries may be amended until they are sealed |
| `Titles` | abstract: titles to offerings are registered, offered, withdrawn and taken; indices and the clock are left out |
| `Vesting` | schedules, acceleration, claims and the migration of schedules between issuers (`src/vesting.rs`) |
| `IssuerTransfer` | on top of vesting: the registry of offerings and its indices, and the transfer of an offering from proposal to acceptance |
| `ControlPlane` | the admin and its rotation, the freeze, and the multisig: founding, proposals, approvals, the six kinds of execution |
| `Council` | abstract: members file, back and carry motions; the clock is left out |
| `RevenueDepositContract` | the equal-split contract (`src/revenue_deposit_contract.rs`) |
| `SumTheorems` | facts about sums over finite sets and about counting up to a natural, which the other proofs cite |
| `..._proofs` | theorems: `RevenueDistribution_proofs`, `MoneyPath_proofs` (on top of it) and `SnapshotGovernance_proofs` (on top of both), `RevenueReports_proofs`, `IssuerTransfer_proofs` (with vesting), `ControlPlane_proofs`, `RevenueDepositContract_proofs` |
| `MC...` | the input sets of the TLC runs |

Three compositions follow the code's own calls: the batches of
`SnapshotGovernance` write the register of `RevenueDistribution`, whose every
action may come between two of its own; `accept_issuer_transfer` runs the
migration of `Vesting` in the same step; and the register is part of the money
path. `RevenueReports`, `ControlPlane` and the deposit contract are systems of
their own: with the money path they share no more than the gates (frozen,
paused), which appear in each as variables that may change at any time.

### State

The variables carry the storage keys' names in their comments. `require_auth` is
not modelled: the calls of an action may happen at any time, as if the right
party signed, which is the freedom the code gives. Where a call compares its
signer with a record, or counts signers, it takes them as parameters.

*Money path.* Periods are a sequence because `require_next_period_id` admits
only the next id, so id, index and position coincide; the code counts indices
from 0, the model from 1. A share schedule is a function from the period count
at which a share was set to the share, because the code's vector never holds two
entries with one start. The per-period accrual index of the code is a running
sum; the model stores its increments, in units of 10^14, which is exact since
the code divides the same factor out again. `halted` stands for the two ways
`require_not_frozen` fails for good (the `Frozen` flag, and a `DeployedVersion`
above the binary's). `layoutAhead` is the third, which the admin can lift again
(`set_storage_layout_version`); stamping an older or absent layout version, a
side effect of the same guard, is not modelled, since no guard can tell it.
`paused` has the three tiers of `PauseState`, written by the calls of the admin
and of the safety role; `require_not_paused` refuses both pauses alike and
`claim` asks for neither. In the other modules, whose calls cannot tell the tiers
apart, `paused` is a flag.
`receipts`, `redeemedOut` and `lastRaise` are history, read by properties only.

*Snapshots and votes.* A snapshot is kept twice, as the code keeps it: `slot`,
by index, for enumeration, and `weight`, by address, for votes; `entry` counts
them. `batches` and `drifted` are history: how often a snapshot was written, and
whether `TotalSharesIssued` may have lost track of the register. Reference 0
means none, as in the code. `StartIndexes` leaves gaps on purpose.

*Reports.* Every record is keyed by the offering, so one offering stands for
all, and by the period. The four records that describe the same reports are
separate variables, so that their agreement is a statement and not a matter of
representation. Amounts may be negative: the caller's amount is checked, but the
one converted at the oracle's rate, which may have either sign, is not checked
again (3799). So the arithmetic of `i128` is spelt out: saturating products and
sums stop at the nearer end (`Clamp`), `s_add(..).unwrap_or(i128::MAX)` becomes
the largest value at either end (`AddOrMax`), a difference that does not fit
counts as 0 (`AppliedDelta`), and quotients are cut off towards 0 (`TruncDiv`).
Since `AddOrMax` depends on the order of what is added, totals are added up period
by period (`AddedUp`), as the loops of the code do; the keys of the report map
come in order. `capped`, `indexCapped` and `replaced` are history: a sum kept in
the summary was cut off since the last repair, the accrual index was cut off, and
what the reports replaced since had accrued. The times stored with a report and
with a closing are left out, as only getters read them.

*Registry and vesting.* An offering is known by its issuer, namespace and token;
the model has one token, so an identity is an issuer and a namespace. A record
is reduced to the primary issuer it names, which is what guards look at. The
issuer index is not filled by registration; `IndexedIssuers` and
`LegacyOfferings` are what an earlier version of the contract may have left, and
`Init` also has the fresh contract without them. Of the settings that a transfer
re-keys, the claim delay stands for all. A vesting schedule belongs to an issuer
and a beneficiary, and `scheduleItem` is the list the migration walks;
`ListsAfter` is that walk, one entry after the other. Claims of
vested amounts move no money in the code, so the model has no balance there.
`curve` is left out: no function reads one.

*Multisig.* `proposals` are a sequence because ids are handed out in order (the
code counts from 0). `owners` is a set, as every writer of the list refuses
duplicates, but `approvals` stays a list: that an address approves once is a
check of the code and must not hold by the shape of the model.

*Deposit contract.* Period ids are handed out from 1, so periods are a sequence.
Beneficiaries and claims are sets per period, because each writer tests
membership first. `diluted` is history: the periods to which, after a claim, a
beneficiary was added or from which one that had claimed was removed.

### Actions

Each action is a whole call: guards, caps, the transfer and every record it
writes. `claim` settles the longest prefix of its batch that has matured, at one
rounding per period, at the share and the decimals of the moment. A transfer out
is `PayOut`: the payment token refuses to overdraw and the call then fails as a
whole; it is also why a sum of 0 skips the transfer. `apply_snapshot_shares`
applies its whole batch in one step, in order, with the arithmetic of
`TotalSharesIssued` as it stands in the code. `report_revenue` has one disjunct
per outcome: event only, below the threshold, first report, correction,
duplicate. `accept_issuer_transfer` finds the proposal through the index, as
`find_pending_transfer_for_new_issuer` does, and writes all records it re-keys.
An execution of a proposal whose branch refuses fails as a whole, so the
proposal stays open.

### How the source is read

The checked-in `lib.rs` carries the traces of several merges and does not build
as it stands. Where two versions of an item remain, or a name is missing, the
model follows this reading:

- `claim` exists twice (7213, 7560); the second is used. They differ in the
  checks of the holder's emergency freeze.
- `close_period` exists twice (7745, 10027): the first, which takes an offering,
  is used. `set_report_window` exists twice (7175, 7417), alike for the model.
- `require_not_frozen` exists for the contract (1386) and for a holder (1514),
  told apart by their parameters; likewise `is_frozen`.
- `old_share` in `set_holder_share_internal` (1766) is the stored `HolderShare`;
  `classes` is absent, as no share classes are configured, and so in
  `register_offering`, whose `issuer` is the primary issuer.
- `fulfill_redemption` calls `set_holder_share_internal` without a share class.
- Redemptions test a redemption window that has no setter: always open.
- `snapshot_finalization_required` and `is_snapshot_finalized` (6220) and
  `GovProposalEntry` are defined nowhere: finalisation is taken as not required.
- A `VestingSchedule` is built without its `curve`: schedules are linear.
- `revenue_deposit_contract.rs` is no module of `lib.rs`; it is read as a
  contract of its own.

## 3. Properties

Each module has one type invariant (`TypeOK`, `SystemTypeOK`); it says little
more than types, with the exceptions named under *Proofs*.

Money path (`HolderShares`, `RevenueDistribution`):

- `TotalsExact`: the two running totals, each kept by differences, equal the sum
  of the shares, and that sum is at most 100%.
- `SettledOnceInOrder`: a holder's receipts are for periods 1, 2, ..., up to its
  claim index, each once, none before its deposit.
- `DepositedPeriodsKeepTheirShare`: no call changes the share with which a
  holder's existing schedule prices a period already deposited.
- `PeriodNeverOversubscribed`: as long as no share rose after a period was
  deposited, what holders took and may still take of it is within its deposit,
  although `claim` divides it at the shares of different moments.
- `ChunksAddUp`: a page of the preview and everything after its cursor add up to
  the whole, with stale cursors and delays.
- `HaltIsFinal`: after a freeze or a migration past the binary the register,
  entitlements and bars stay as they are for good.
- `HolderCanExit`: no soft pause, freeze or reconfiguration keeps an unbarred
  holder in an open window from claiming a matured period, provided the balance
  covers it. A hard pause is documented to stop claims and is left out here: see
  `HardPauseBlocksClaims` under *Divergences*.
- `VaultBalanced`: the balance in each token is what the offerings in it
  deposited less what was paid, and no offering exceeds its supply cap.
- `Solvent`: with no share raised after the first deposit and no redemption paid,
  the shared balance covers everything still claimable in all offerings.
- `ImplementsPool`: the money path implements `RevenuePool`.

The conditions in `PeriodNeverOversubscribed` and `Solvent` are not decoration.
Without them the statements are false of the code, see *Divergences*.

`SnapshotGovernance`:

- `SharesAddUp`: single shares and whole batches, which may name a holder twice,
  keep the running total equal to the sum of the shares and within 100%;
  `TotalSharesIssued` is that sum only while every batch was applied under a cap
  and named nobody twice.
- `SnapshotNeverUnderstated`: batches in any order, with gaps and rewrites: every
  slot is below the counts, every holder in a slot has a weight, and neither
  slots nor weights add up to more than the entry says.
- `PinnedSnapshotDecides`: a tally is the sum of its votes, one per holder, and
  as long as no batch rewrote the pinned snapshot after the proposal was made,
  each vote weighs what that snapshot says.
- `RecordsAreFinal`: references only grow, a committed snapshot keeps hash and
  time and never counts less, a vote is never taken back, a closed proposal
  never changes.

`RevenueReports`:

- `AuditMatchesReports`: the summary, kept by differences over first reports and
  corrections, is the sum and count of the reports, negative ones included, unless
  a total or a difference left the range of `i128`, and again after a repair.
- `BooksAgree`: map, index and cursor describe the same gapless periods; in
  event-only mode all are empty.
- `AccrualCountsEveryReport`: the accrual index is what the reports of the moment
  accrue and what the replaced ones had accrued, each with its sign, until the
  index itself is cut off.
- `RangePagesAddUp`: pages of any size add up to the whole range and each but the
  last moves on: with amounts that are not negative even where sums are cut off,
  with amounts of either sign where every run of them fits.
- `BookedOnFreshFigures`: the books change only within the report window, and under
  an enforced concentration limit only on a figure within the limit and no older
  than the limit allows.
- `ImplementsLedger`: the reports implement `RevenueLedger`.

`IssuerTransfer` and `Vesting`:

- `RegistryCoherent`: the four records that say who issues an offering agree, and
  the current issuer is found in one step.
- `HandoverByConsent`: an offering passes only by a proposal to that issuer, in
  time, which is used up; no schedule is before its cliff, and all schedules and
  the claim delay go along.
- `ImplementsTitles`: registry, transfer and vesting implement `Titles`: a title
  changes hands only by being taken, an offer is good for one taking, nobody is
  given a title twice, and everybody the issuer vests goes along. Who may offer a
  title on is left open: what the code does there contradicts its documentation
  (*Divergences*).
- `ClaimedWithinTotal`: nobody is booked more than the total of the schedule,
  through accelerations, overflows and migrations.
- `ScheduleIndexExact`: each schedule is listed exactly once, under its present
  issuer.
- `VestedNeverShrinks`: time, acceleration and migration never take back what has
  vested, except where the product of the linear part leaves `i128`.
- `EverythingIsClaimed` (liveness): everything promised to a beneficiary is
  claimed in the end.

`ControlPlane`:

- `OwnersSatisfyThreshold` (proved): from `init_multisig` on the threshold is within reach
  of the owners, although thresholds and owners change by separate proposals
  executed in any order.
- `ChangesAreVoted`: owners, threshold, duration and freeze change only by
  executing one open, unexpired proposal for that change, approved by as many
  different addresses as the threshold asks and with the quorum in distinct votes.
- `SettledProposalsStay` (proved): executed and expired proposals never change.
- `FreezeEndsRotation`: a freeze is for good, leaves a rotation where it is, and
  only a proposal can still change the admin.
- `LockoutIsFinal`: if neither the owners nor any open proposal can muster the
  quorum, the multisig never acts again. Votes are dealt to the founders only, so
  adding owners, lowering the threshold or waiting does not help.
- `ImplementsCouncil`: the control plane implements `Council`: there is one
  founding, every change afterwards is the effect of one motion that is carried
  once, while open, by enough different backers that are strong together, and which
  coalitions are strong is settled at the founding for good. It contains the bar
  within reach of the owners and the finality of what was carried, so the two
  properties marked as proved have no run of their own.

`RevenueDepositContract`:

- `PeriodsCoverTheirClaims`: periods are disjoint; the one balance is what they
  say is unclaimed; a period that was not diluted can pay everyone left on its
  list today's part, whatever top-ups and removals came between claims.
- `EveryBeneficiaryIsPaid` (liveness): while no period was diluted, everyone
  listed is paid once the period has ended, unless removed or owed 0.

## 4. Runs

An empty set of inputs switches a call off; across the passing runs every action
and disjunct of each next-state relation fires. Deadlock is not checked: nobody
is obliged to call, and the bounds end every behaviour.

| Run (cfg) | Module | Instance | Question |
|---|---|---|---|
| `one_offering` (`OneOffering.cfg`) | `MCRevenueDistribution` | 1 offering, 2 symmetric holders, 2 periods of 7 units, shares 0 and 50%, redemptions of 20%, a delay of one tick, batches of 1 or all | payout, schedule and preview arithmetic under every interleaving of two holders |
| `vault_and_exit` (`VaultAndExit.cfg`) | the same | 2 offerings, 2 symmetric tokens, 1 holder with no share or 100%, redemptions of 60%, a supply cap of 12 on one offering, every gate, bar and setting (both pause tiers, a window that opens later, decimals 8), within `SharedOrAlone` | the common balance and its refinement; who can still do what behind which gate |
| `payout_conservation` | the same | 2 offerings, 1 token, 2 holders | expected violation |
| `preview_overstates` | the same | 1 offering, 1 holder | expected violation |
| `hard_pause` (`HardPause.cfg`) | the same | 1 offering, 1 holder, the gates on | expected violation |
| `two_proposals` (`TwoProposals.cfg`) | `MCControlPlane` | 3 symmetric addresses, 2 proposals of all six kinds, threshold 1 at first, 2 or 3 by proposal, quorum 51% | owner changes, thresholds, expiry, freeze and rotation in every order, and the refinement |
| `removals_brick` | the same | the same, owner changes only | expected violation |
| `report_and_close` (`ReportAndClose.cfg`) | `MCRevenueReports` | 2 periods, amounts -1 and 9 in an `i128` of -15..14, quotes at rates -4 and 1 no older than 1, a window, a threshold of 5, two limits, 2 ticks, 2 settings, 2 signers | do the records agree after any mix of reports, corrections, repairs and closings |
| `handover` (`Handover.cfg`) | `MCIssuerTransfer` | 3 issuers, 2 namespaces, 2 proposals (replacements count), expiry 1 by default and clamped to 1..2, 1 schedule over three seconds, 4 ticks | two-step transfer with vesting in every order, and its refinement; liveness of claims |
| `new_issuer` (`NewIssuer.cfg`) | the same | the same, without schedules | expected violation |
| `snapshot_votes` (`SnapshotVotes.cfg`) | `MCSnapshotGovernance` | 1 offering, 2 holders, 2 snapshots, 2 batches (one names a holder twice), slots from 1, 1 deposit of 20 units, claims of one period at a time, 1 proposal, a share cap above 100% | batches against votes, single shares and deposits |
| `deposit_contract` (`DepositContract.cfg`) | `MCRevenueDepositContract` | 2 beneficiaries, 2 periods out of three spans that touch, revenues 1 and 3, up to 4 a period | one balance for all periods, changing lists; liveness of claims |

Why the bounds are enough. Two periods are the least at which batches, indices
and schedules matter (a batch that stops in the middle, a checkpoint between two
periods); an amount of 7 does not divide by the shares used, so rounding is
exercised; 50% and 20% make a redemption leave a remainder; two holders at 50%
reach the 100% limit. `MAX_CLAIM_PERIODS` (50) and `MAX_CHUNK_PERIODS` (200) are
cut to 2, so that the limit and a request above and below it all occur. `E18` is
cut to 10^4 there, and to 4 in the reports, where its product with an amount
leaves the range as 10^18 may: it is a scale only. `MaxTime` bounds the clock and
`MaxPeriods` the deposits.

`vault_and_exit` has a state constraint, `SharedOrAlone`, since the balance that
two offerings share and the gates of one offering are separate questions. Either
both offerings are in use and no setting, bar or gate is altered, or one offering
without a supply cap is, with up to one setting, bar or gate altered at a time,
and perhaps a freeze or a migration on top of it (so a bar that a freeze makes
final, a freeze during a pause, and so on). What the run does not reach are two
alterations at once, and altered settings or a freeze beside a second offering in
use. For these the theorems stand, which have no such bound: each of the five
properties is one (`HolderCanExit` as said under *Only model-checked*).

In the reports 9 + 9 passes the largest `i128` of 14, so totals saturate and a
repair has something to do. At the rate -4 an amount of 9 saturates and becomes
-7, at the rate 1 it becomes 4; a correction from 9 to -7 or back is a difference
that does not fit, one between 9 and 4 or 4 and -7 does, so corrections go up and
down, through 0, and with and without being cut off. One tick makes a
concentration figure of age limit 1 just fresh and two make it stale; period ids
reach up to 3 (`U64_MAX`) in the reads, so the ranges tested end below it.
`MaxSettings` bounds how often limits, windows, gates and figures change. One
tick reaches and two pass the expiry of a transfer proposal; 9 seconds asked for
are clamped to 2. A schedule of 5 over three seconds has an odd division, a
cliff, and (largest `i128` 9) an overflow of 5 times 2 in its last second. Two
proposals allow a replacement, or a second transfer after an accepted one. Two
batches allow one before and one after a proposal, or two into one snapshot;
starting at slot 1 leaves slot 0 empty. In the deposit contract a
revenue of 1 among two is a part of 0.

**Fairness.** Two runs use it. In both, `WF(Tick)` is the progress of the
ledger, which no contract can stop. The rest is a beneficiary who keeps calling:
`WF` of its own claim, in `handover` (`vesting_claim` tests no pause and no
freeze, so the claim stays enabled while anything is due) and in
`deposit_contract` (one per period and beneficiary). No call of an issuer, admin or other
party is assumed to happen. The clock of the model stops at its bound, which in
`handover` is the end of the schedule and in `deposit_contract` the end of the
last period, so nothing that must still happen waits on a later tick.

Each property of a passing run is kept honest by a mutant, listed in
`PROJECT.json`: a plausible wrong version of one definition under which the run
finds the property violated.

## 5. Divergences

Five are shown by a run that finds the stated property violated:

- `PayoutConservation`. `docs/property-based-invariant-tests.md:11` promises that
  the claims of an offering never exceed its deposits. `claim` (7668) multiplies
  every unclaimed period by the share of the moment. TLC's trace: one holder
  claims at 100%, its share is lowered, a second holder is raised to 100% and
  claims the same period again, paid by the deposit of another offering in the
  same token.
- `PreviewNeverOverstates`. The comment at 8357 says previews never overstate
  what `claim` could pay, and `docs/dividend-accrual-ledger.md:12` that claims no
  longer use the current share. The preview prices periods by the schedule, but
  `claim` uses the current share: lowering a share leaves the preview above the
  claim.
- `RemovalsNeverBrick`. `docs/multisig-owner-removal-safety.md:27` takes the
  threshold check in `RemoveOwner` for the remedy against a bricked multisig, but
  the quorum is not looked at (9549) and the removed owner's votes pass to nobody.
  Of two founders with threshold 1 and a quorum of 5100 one is removed; the other
  meets the threshold and never the quorum. `LockoutIsFinal` says it stays so.
- `HardPauseBlocksClaims`. The comments at 3274 and 3353-3355 and the test
  `hard_pause_claim_blocked` (`test_pause_tiers.rs:258-276`) say that a hard pause
  blocks `claim`. `claim` (7560) tests the bars on the holder and the window, and
  no pause of either tier: a holder is paid while the contract is hard-paused.
- `OnlyTheCurrentIssuerActs`. `ISSUER_TRANSFER.md:62`, `:182-192`, `:201-208` and
  `:404-405` give the new issuer full control, a further transfer included, take
  all of it from the old one, and have every protected call compare its caller
  with the lookup (`:328-354`). Acceptance copies the record with the old primary
  issuer in it (3026-3042), and it is the record that a proposal looks at: the heir
  may propose nothing under its identity, and the old issuer goes on acting under
  the old one. Two theorems say that this is no accident of the instance:
  `InheritedIdentitiesAreInert` and `AuthorityIsFixed`.

The others came up while the code was translated. The models follow the code, and
where a property could not be stated without an exception, the exception names
the divergence.

Issuer transfer:

- Registration does not enter the issuer in the index that acceptance searches
  (2756). `ISSUER_TRANSFER.md:46-62` and `issuer_transfer_accept_completes_transfer`
  (`test.rs:6149`) expect the transfer of a freshly registered issuer to be
  accepted, while the tests at `lib.rs:9934`, `test.rs:12308` and
  `test_jurisdiction.rs:162` fill the index by hand. What follows from the code is
  the theorem `UnindexedNeverHandOver`: without an index left by an earlier
  version, no transfer is ever accepted. `new_issuer` starts with such an index.
- An expired proposal of an issuer earlier in the index hides a later one to the
  same heir until it is rejected or cancelled.
- The list of vesting schedules is kept without the namespace.
- Total times elapsed is computed in `i128` and counts as 0 on overflow, so the
  linear part of a schedule disappears until its end (the exception in
  `VestedNeverShrinks`).

Snapshots and votes:

- `lib.rs:10040` says shares acquired after a proposal have no weight; a batch
  applied to the pinned snapshot later gives them weight (the condition in
  `PinnedSnapshotDecides`).
- `lib.rs:6347` calls `apply_snapshot_shares` idempotent per slot; `total_bps`
  adds up again with each application (`SnapshotNeverUnderstated` says "not more
  than").
- The old shares that `TotalSharesIssued` needs are read after they were
  overwritten when there is no cap, and once too often when a batch names a
  holder twice (6622): the total drifts and with it the cap (`drifted`).
- A slot that is overwritten leaves the previous holder's weight.
- `deposit_revenue_with_snapshot` may cite a reference that was never committed.

Reports:

- A correction adds its full amount to the accrual index, on top of the amount it
  replaces (4358).
- The comment at 3905 says that a report requires an amount of 0 or more. The
  check comes before the conversion (3799), whose rate, fetched or signed, may be
  negative: then a negative amount is stored, indexed, accrued and totalled.
- A sum that falls below the smallest `i128` becomes the largest
  (`s_add(..).unwrap_or(i128::MAX)`, 4114, 2625, 4480), and a correction whose
  difference does not fit leaves the total as it was (4112). The summary is off
  until it is repaired (`capped`); the pages of a range of mixed signs may differ
  from the whole once a sum is cut off (the condition of `RangePagesAddUp`).
- A period can be closed before it is reported; its first report is then final.
- Paging a range that ends at the largest `u64` never ends (left out of
  `RangePagesAddUp`).
- `report_revenue` does not ask whether the caller is still the current issuer.
- `set_dual_sig_config` (7818) needs one signature: the issuer alone can switch off
  the requirement that two sign a closing.

Money path and gates:

- The safety role may overwrite a hard pause set by the admin.
- The comment at 256-258 restricts payouts to the whitelist where there is one;
  no claim, deposit or share write reads it.

Multisig:

- `README.md:2648` says that with a multisig all admin operations go through
  proposals. The rotation (8946-9036) is not disabled, and one proposed before
  `init_multisig` is accepted after it; `docs/admin-rotation-safety-flow.md:283`
  says so and calls it an alternative path. No run is spent on it: `ControlPlane`
  has the rotation, and `FreezeEndsRotation` says when it ends.
- `README.md:2642` says that proposals do not expire. They do, after the duration
  in force when they were made (9415, 9458, 9502); `ChangesAreVoted` and
  `ImplementsCouncil` have the expiry.

Deposit contract:

- `docs/multi-period-revenue-deposit.md:105` says a removed beneficiary's share
  stays in the contract; it goes to the others, whose parts grow.
- The same file warns (186-190) that parts shift when the list changes late, but
  says (194-195) that an admin cannot keep a beneficiary from claiming except by
  removal. Adding one after others claimed, or removing one that
  claimed, leaves a period less than the parts still due (`diluted`); its last
  claims are then paid out of other periods, or fail.
- `initialize` may be called first by anybody.

## 6. Proofs

All theorems hold for every value of the constants under the assumptions named
in the modules: finite sets of holders (`FiniteHolders`) and addresses
(`Addressing`), inputs of the types the code checks and amounts that fit
(`InputRanges`, `Inputs`, `TransferInputs`, `VestingInputs`), positive limits
(`PositiveLimits`, `Sizes`, `Limits`), and markers that are no values
(`Sentinels`).

**Sums.** Many properties say that a total kept by differences is a sum. The sum
is a fold of the community modules, a recursive function on subsets, and the
induction theorems of the library cannot be used with the provers at hand.
`SumTheorems` proves what is needed without them, by a smallest counterexample:
strict inclusion is well-founded on the subsets of a finite set, so a statement
that fails for one of them fails for one whose proper subsets all satisfy it.
From this follow that the recursion has a solution, that it is unique, and
`SumTakesOut`: a sum is any one term plus the sum of the rest. The others rest on
it: one term updated or added (`SumOfUpdate`, `SumOfExtension`), bounds
(`SumIsMonotone`, `SumOfNaturals`, `SumOfPart`, `SumOfOverwritten`), and the rules
of calculation (`SumOfUnion`, `SumOfTwo`, `SumOfMultiple`, `SumOfRenamed`, and
`SumByRowsAndColumns`, which lets two sums change places). `CountingUp` is the
same argument along the naturals. With it the proofs follow the recursive
functions of the models, the batches of `apply_snapshot_shares` and the list walk
of a migration, from one step to the next; what they prove of every step is an
invariant of the walk.

**Money path.** `RevenueDistribution_proofs`:

- `TypeCorrect`: `Spec => []TypeOK`. `TypeOK` is inductive as it stands. Two of
  its types are more than shapes: the running share total is within 0..10000 and
  balances are never negative.
- `EveryPeriodSettledOnce`: `Spec => []SettledOnceInOrder`. Inductive relative to
  `TypeOK`: only `claim` touches indices and receipts (`OnlyClaimSettles`), and
  what it appends continues the receipts (`AppendedReceipts`).
- `TotalsStayExact`: `Spec => []TotalsExact`. `SetShareKeepsTotals` shows that the
  saturating subtraction of the old share never saturates, because the old share
  is one term of the sum.

`MoneyPath_proofs`:

- `HaltStaysFinal`: `Spec => HaltIsFinal`. Needs no invariant: every action that
  could touch the frame requires `require_not_frozen`.
- `PastSharesKept`: `Spec => DepositedPeriodsKeepTheirShare`. Every writer of a
  schedule writes a checkpoint at the current period count (`ScheduleStep`), and
  such a checkpoint does not start below any deposited period, so the latest
  start below a period is the same before and after (`TransitionKeepsPast`, with
  `LargestMember` for the existence of that start).
- `MoneyPathIsAPool`: `Spec => ImplementsPool`. Every call that moves money or an
  index maps to one pool action and every other call to a stutter (`OtherStep`).
  The strengthening of `TypeOK` it needs is `TokenLocked`: an offering with a
  period has a locked token, so that a claim always has a token to pay in.
- `VaultIsAlwaysBalanced`: `Spec => []VaultBalanced`. Inductive is `Accounts`: an
  offering without a token has taken in and paid out nothing, and the balance of
  a token is the sum of what the offerings paid in it have left (`Net`). Each of
  the three calls that move money changes one term of one such sum
  (`AccountsFollow`), a claim by the sum of the receipts it appends
  (`AppendedAmounts`); a first deposit adds a term of 0 first. `DepositsCounted`
  has the supply cap.
- `NoPeriodOversubscribed`: `Spec => []PeriodNeverOversubscribed`. The statement is
  not inductive: it does not say who may still divide the period. `PeriodsDivided`
  does. For each period younger than the last raise there are weights per holder,
  at most 10000 together, such that a holder's share, its scheduled share for the
  period and, times 10000, the amount it took are within its weight. At the
  deposit the weights are the shares of the moment; from then on shares only fall,
  so the weights stay. `Checkpointed` ties the schedules to the present shares and
  `NothingScaledUp` bounds what is recorded as accrued by the amount.
- `AlwaysSolvent`: `Spec => []Solvent`. What one offering still owes and has paid
  is, summed by period instead of by holder (`SumByRowsAndColumns`), within its
  deposits (`OfferingSolvent`); the balance is the sum over the offerings by
  `Accounts`.
- `ChunksAlwaysAddUp`: `Spec => []ChunksAddUp`, a consequence of `TypeOK`: the
  matured periods from a cursor on are a range (`RunIsRange`), and the page and
  the rest cut it in two (`PageAndRest`).
- `HoldersMayAlwaysExit`: what `HolderCanExit` says, with the guards of `claim`
  (`MayClaim`) in place of `ENABLED claim`, for batches of every size. There is
  always an end at which the batch may stop (`BatchSettles`), and what it costs is
  within what the holder has left (`PartWithinLeft`).

**Snapshots and votes.** `SnapshotGovernance_proofs`. Every call of the money path
may come between two calls of this module, so each invariant has one case for all
of them.

- `SystemTypeCorrect`: `SystemSpec => []SystemTypeOK`, with the shapes of register and
  counts along a batch.
- `SharesAlwaysAddUp`: `SystemSpec => []SharesAddUp`. The total is the sum of the shares
  after every entry of a batch, and so is `TotalSharesIssued` as long as each
  batch was applied under a cap and named nobody twice.
- `SnapshotsNeverUnderstated`: `SystemSpec => []SnapshotNeverUnderstated`. Inductive is
  `SnapshotsMatch`: the slots in use are within the counts of the entry, every
  holder in a slot has a weight, and the entry's total is no less than the sum of
  either. A slot or weight that is written over only lowers the sums
  (`SumOfOverwritten`).
- `RecordsStayFinal`: `SystemSpec => RecordsAreFinal`, from `RefsCommitted`: no
  committed reference is above the last one, so a commit never writes over an
  entry.
- `PinnedSnapshotsDecide`: `SystemSpec => []PinnedSnapshotDecides`, from `PinsDecide`,
  which adds that a pinned snapshot is committed, so that it is found, and that
  batches are only counted up; a tally changes by the weight of the one voter.

The promises of the money path then carry over to the composed system. To the
money path every step is one of its own, a deposit that cites a snapshot
(`SnapshotDepositIsADeposit`) or a batch (`MoneyOrBatch`), so only the batch is
new, and it leaves the money alone (`BatchLeavesMoney`). TLC checks the same
definitions on the money path alone; with batches in between they are proved:

- `SystemIsAPool`: `SystemSpec => ImplementsPool`; a batch and a vote are stutters.
- `SystemBalances`: `SystemSpec => [](VaultBalanced /\ SettledOnceInOrder)`.
- `BatchesKeepPastShares`: `SystemSpec => DepositedPeriodsKeepTheirShare`. A batch
  is followed write by write (`BatchKeeps`): the register it has built so far keeps
  the past of every schedule that was there before (`RegisterKeeps`), although a
  holder named twice overwrites its own checkpoint of the moment before.
- `BatchesNeverOversubscribe`, `SystemStaysSolvent`: `[]PeriodNeverOversubscribed`
  and `[]Solvent`. The weights of `PeriodsDivided` survive a batch that raises no
  share (`RegisterLowers`); one that raises a share counts as a raise, after which
  the weights are no longer asked for (`BatchDivides`). `MoneySound` collects the
  inductive invariants.
- `SystemHaltIsFinal`: `SystemSpec => HaltIsFinal`.

**Reports.** `RevenueReports_proofs`:

- `BooksAlwaysAgree`: `BooksAgree`, inductive with the types it rests on
  (`BooksSound`). `StepKinds` divides the calls into those that store a report,
  those that close a period and those that do neither.
- `ReportsAreALedger`: `Spec => ImplementsLedger`. A first report maps to `Enter`
  (`FirstReportEnters`), a correction to `Amend` (`OverrideAmends`), the two ways
  of closing to `Seal`.
- `FreshFiguresOnly`: `Spec => BookedOnFreshFigures`. The figure that is tested
  can only have been stored in the past (`FigureStep`).
- `ReportsTypeCorrect`: whatever rate in an `i128` an amount is converted at, every
  stored amount, total and index fits one. `InputRanges` asks no more of amounts
  and rates than that.
- `AuditAlwaysMatches`, `AccrualAlwaysCounts`: sums, by one call changing one term
  (`StoredSums`), for amounts of either sign. A repair adds up in order and may be
  cut off on the way; that it is exact where no step was is `ExactTotal`.
- `PagesAlwaysAddUp`: `Spec => []RangePagesAddUp`, a consequence of `TypeOK`. Totals
  are added up in order (`RunningTotal`). With amounts that are not negative that
  is the exact sum cut off once (`CutOffTotal`), and cutting off a page and the
  range after it one by one is cutting off the whole; where every run of amounts
  fits, it is the exact sum (`ExactTotal`). `RangeInTwoParts` has both cases.

**Transfer and vesting.** `IssuerTransfer_proofs`:

- `TransferTypeCorrect`: `Spec => []TypeOK`, with the maps kept over offerings
  (`MapsTyped`).
- `IndicesAgree`, `UnindexedNeverHandOver`, `InheritedIdentitiesAreInert`: three
  parts of one inductive invariant, `TransferSound`. Its argument is that no
  chain of transfers ever arises. Who proposes is named by the record of the
  identity (`ProposersMayAct`), records never change once written, and an
  inherited identity is written with the record of the old issuer; so an heir
  never proposes with it (`NoChains`) and one lookup is enough. The last two
  theorems say what holds where the code parts from its documentation
  (*Divergences*).
- `AuthorityIsFixed`: no step changes whether the issuer of a registered identity
  may act on it.
- `SchedulesStayListed`: `Spec => []ScheduleIndexExact`. Inductive is `ListsSound`,
  the property and the sets it is about. A migration visits every entry of a list
  and drops none, because each has a schedule of the old issuer: what was listed
  under the old issuer is then listed under the new one, behind what the new one
  had, and the two have nothing in common (`MovesWholeList`, `JoinedHolds`).
- `HandoversAreByConsent`: `Spec => HandoverByConsent`; that all schedules go along
  follows from the exactness of the lists (`MigrationTakesAll`).
  `TransfersAreConsented` is the part of it that needs no vesting.
  `WindowsBounded` gives the age of a proposal.
- `OfferingsAreTitles`: `Spec => ImplementsTitles`. That one lookup finds the holder
  of a title, and that an identity without a record has no holder, is
  `TransferSound`; that a migration moves the schedules of the
  old issuer and of nobody else is `MigrationMovesAll`, from `ListsSound`.
- `NobodyClaimsMoreThanPromised`: `Spec => []ClaimedWithinTotal`, from the bound
  of the linear part by the rest of the total (`VestedWithinTotal`).
- `WhatVestedStaysVested`: `Spec => VestedNeverShrinks`. The linear part grows with
  time as long as its product does not overflow (`BaseVestedGrows`), an
  acceleration adds or grants everything (`VestedGrows`), and a migration keeps
  the schedule; `NextNeverLess` has the calls one by one.

**Control plane.** `ControlPlane_proofs`:

- `ControlTypeCorrect`: `Spec => []TypeOK`, one lemma per call of the multisig.
- `ThresholdStaysInReach`: `Spec => []OwnersSatisfyThreshold`. Inductive only with
  `EnoughOwners`, which adds that before `init_multisig` there are no owners and
  no proposals: without it an execution could add owners to a multisig that does
  not exist yet. `PerformKeepsOwners` has the case of each kind of action.
- `SettledProposalsFinal`: `Spec => SettledProposalsStay`, from the same invariant
  (`init_multisig` erases proposals, and there must be none to erase).
- `FreezeStopsRotation`: `Spec => FreezeEndsRotation`. Needs `AdminExists`: a frozen
  contract, or one with owners, has an admin, so nobody becomes the first admin of
  a frozen contract.
- `ChangesAreAlwaysVoted`: `Spec => ChangesAreVoted`. The code counts a list and
  adds weights along it; the property speaks of different addresses. The two
  agree by `ApprovedOnce`, an invariant: no address is twice in a list of
  approvals, so its length is a cardinality (`CardinalityOfDistinct`) and the sum
  along it a sum over a set (`WeightOfDistinct`).
- `MultisigIsCouncil`: `Spec => ImplementsCouncil`. An approved list maps to the
  set of its addresses, which is as long as the list by `ApprovedOnce`; an
  execution maps to `Carry` with the effect its action asks for; that the new
  threshold is in reach is `EnoughOwners` after the step. A coalition is strong if
  its votes make the quorum; votes are dealt at the founding and, with the quorum,
  left alone by every later call (`PinnedQuorum`).
- `LockoutLasts`: `Spec => LockoutIsFinal`. A locked-out multisig executes nothing
  (`LockedOutRefuses`), and no other call gives a proposal a vote that is not of
  its owners (`LockoutKept`).

**Deposit contract.** `RevenueDepositContract_proofs`:

- `TypeCorrect` and `PeriodsAlwaysCover`: `Spec => []PeriodsCoverTheirClaims`.
  Coverage is not inductive: a top-up may raise the parts of all who are left by
  more than was put in, because parts are rounded down. Inductive is
  `PaidAtMostToday`: those who claimed got at most today's part each, since parts
  of an undiluted period only grow (`PartsGrow`). That the balance is the sum of
  what is unclaimed follows one changed term at a time (`BalanceStep`).

**Only model-checked.** The two liveness properties, `EverythingIsClaimed` and
`EveryBeneficiaryIsPaid` (fairness), and `HolderCanExit`, which speaks of ENABLED:
proved is that the guards of `claim` hold; that they are all of ENABLED, the rest
of `claim` being assignments, is read off the definition and checked by the run.
Every other property of a passing run is a theorem.

## 7. Not modelled, and why

- Authorisation, events, formatting, read-only listings and pagination of lists.
- Share classes (`convert_class` and the class parameters): none is configured.
- Meta transactions: a signed call writes the register like any other; nonces,
  expiry and the verification of signatures are left out.
- Whitelist, jurisdictions and `transfer_with_attestation`. No claim or deposit
  reads the lists; `apply_snapshot_shares` reads jurisdictions and is modelled
  without restriction.
- The batch calls of the blacklist, changes of its size limit, and its
  attestations.
- Disputes, disclosure, the faucet and the migration walker: small records.
- Platform fees, which appear in events only.
- `compute_share` and its rounding modes: only `simulate_distribution` calls
  them, which stores nothing; `claim` divides for itself.
- The accrual-state cache written by `cache_holder_accrual_through_matured`, which
  no claim reads.
- The audit reason of a freeze; that the callers of the two pause tiers hold the
  roles of admin and safety.
- Token decimals 17 and 18 (their powers of ten exceed TLC's integers).
- An external token that misbehaves: a transfer moves the full amount or fails.
- Milestone signals, assertions, test harnesses, indexer and tools: no state of
  the contract.

## 8. Plan

Done: the money path with its pool, snapshots and governance, reports with their
ledger, registry, transfer and vesting with their titles, the control plane with
its council, the deposit contract, and theorems about all of them.

Left, in this order:

1. `AccessLists` (limits, whitelist, nonces of meta calls) and
   `AttestedTransfers`, as further writers of the register.
2. `compute_share` and its rounding modes against a reference.
