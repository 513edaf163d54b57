------------------------- MODULE SnapshotGovernance -------------------------
(***************************************************************************)
(* Snapshots of the share register, and the votes that take their weight   *)
(* from them.                                                              *)
(*                                                                         *)
(* An issuer commits a snapshot under a reference that must grow, fills it *)
(* in batches that also overwrite the LIVE shares, deposits revenue that   *)
(* cites a reference, and opens proposals that pin the last committed one. *)
(* Holders vote with the weight the pinned snapshot has for them at the    *)
(* moment of the vote.  A committed snapshot stays open for batches, also  *)
(* one a proposal has pinned, so a batch interleaves with votes on it.     *)
(*                                                                         *)
(* The module composes with the money path: every call of                  *)
(* RevenueDistribution may happen between two calls of this one, and the   *)
(* batches write the same register that claims are priced from.            *)
(*                                                                         *)
(* Bounds: MaxBatches, MaxProposals; the inputs are small sets.            *)
(***************************************************************************)
EXTENDS RevenueDistribution

CONSTANTS
  SnapshotSettings,    \* inputs: values of set_snapshot_config
  SnapshotRefs,        \* inputs: snapshot references
  Hashes,              \* inputs: content hashes
  Batches,             \* inputs: batches of apply_snapshot_shares
  StartIndexes,        \* inputs: first slot of a batch
  MAX_SNAPSHOT_BATCH,  \* 50 in the code
  MaxBatches,          \* bound: batches applied to the snapshots of an offering
  MaxProposals         \* bound: proposals of an offering

Write == [holder : Holders, bps : Nat]

ASSUME SnapshotInputs ==
  /\ SnapshotSettings \subseteq BOOLEAN
  /\ SnapshotRefs \subseteq Nat /\ StartIndexes \subseteq Nat
  /\ Batches \subseteq Seq(Write)
  /\ MAX_SNAPSHOT_BATCH \in Nat /\ MaxBatches \in Nat /\ MaxProposals \in Nat

VARIABLES
  snapshotConfig,   \* SnapshotConfig(offering)
  lastSnapshotRef,  \* LastSnapshotRef(offering), of deposits; 0 when none
  lastCommitRef,    \* LastSnapshotCommitRef(offering), 0 when none
  entry,            \* SnapshotEntry(offering, ref), of the committed refs
  slot,             \* SnapshotHolder(offering, ref, index), the slots written
  slotCount,        \* SnapshotHolderCount(offering, ref)
  weight,           \* SnapshotHolderShare(offering, ref, holder), those written
  proposal,         \* GovProposal(offering, id), ids in order
  ballot            \* VoteRecord(offering, id, voter), with the weight of gov_vote

\* History, read by properties only.
VARIABLES
  batches,          \* snap_shr events of a snapshot so far
  drifted           \* a batch was applied that TotalSharesIssued may not follow

snapshotVars == <<snapshotConfig, lastSnapshotRef, lastCommitRef, entry, slot,
                  slotCount, weight, batches, drifted>>
governanceVars == <<proposal, ballot>>
systemVars == <<vars, snapshotVars, governanceVars>>

Entry == [hash : Hashes, committed_at : Nat, holder_count : Nat, total_bps : Nat]

\* batchesThen is the number of batches the pinned snapshot had at creation.
Proposal == [snapshot_id : SnapshotRefs, yes_weight : Nat, no_weight : Nat,
             open : BOOLEAN, batchesThen : Nat]

Ballot == [approve : BOOLEAN, weight : Nat]

Empty == [x \in {} |-> x]

SystemInit ==
  /\ Init
  /\ snapshotConfig = [o \in Offerings |-> FALSE]
  /\ lastSnapshotRef = [o \in Offerings |-> 0]
  /\ lastCommitRef = [o \in Offerings |-> 0]
  /\ entry = [o \in Offerings |-> Empty]
  /\ slot = [o \in Offerings |-> [r \in SnapshotRefs |-> Empty]]
  /\ slotCount = [o \in Offerings |-> [r \in SnapshotRefs |-> 0]]
  /\ weight = [o \in Offerings |-> [r \in SnapshotRefs |-> Empty]]
  /\ proposal = [o \in Offerings |-> <<>>]
  /\ ballot = [o \in Offerings |-> <<>>]
  /\ batches = [o \in Offerings |-> [r \in SnapshotRefs |-> 0]]
  /\ drifted = [o \in Offerings |-> FALSE]

-----------------------------------------------------------------------------
(***************************************************************************)
(* Snapshots                                                               *)
(***************************************************************************)

SnapshotCallAllowed(o) ==
  require_not_frozen /\ require_not_paused /\ snapshotConfig[o]

\* Not stopped by a pause.
set_snapshot_config(o, enabled) ==
  /\ require_not_frozen
  /\ snapshotConfig' = [snapshotConfig EXCEPT ![o] = enabled]
  /\ UNCHANGED <<vars, lastSnapshotRef, lastCommitRef, entry, slot, slotCount,
                 weight, batches, drifted, governanceVars>>

get_last_snapshot_ref(o) ==
  IF lastSnapshotRef[o] > lastCommitRef[o] THEN lastSnapshotRef[o] ELSE lastCommitRef[o]

\* Mutant: the last reference may be committed again.
NewRef_OrSame(o, ref) == ref >= lastCommitRef[o] /\ ref > 0

NewRef(o, ref) == ref > lastCommitRef[o]

commit_snapshot(o, ref, hash) ==
  /\ SnapshotCallAllowed(o)
  /\ NewRef(o, ref)
  /\ entry' = [entry EXCEPT ![o] =
       [r \in DOMAIN @ \cup {ref} |->
          IF r = ref
            THEN [hash |-> hash, committed_at |-> now, holder_count |-> 0, total_bps |-> 0]
            ELSE @[r]]]
  /\ lastCommitRef' = [lastCommitRef EXCEPT ![o] = ref]
  /\ UNCHANGED <<vars, snapshotConfig, lastSnapshotRef, slot, slotCount, weight,
                 batches, drifted, governanceVars>>

(***************************************************************************)
(* The reference must be newer than the last deposit's; that it names a    *)
(* committed snapshot is not asked.                                        *)
(***************************************************************************)
deposit_revenue_with_snapshot(o, payment_token, amount, period_id, ref) ==
  /\ SnapshotCallAllowed(o)
  /\ ref > 0
  /\ ref > lastSnapshotRef[o]
  /\ period_id <= MaxPeriods
  /\ do_deposit_revenue(o, payment_token, amount, period_id)
  /\ lastSnapshotRef' = [lastSnapshotRef EXCEPT ![o] = ref]
  /\ UNCHANGED <<registerVars, now, gateVars, configVars, barVars, lastClaimed,
                 redemption, historyVars>>
  /\ UNCHANGED <<snapshotConfig, lastCommitRef, entry, slot, slotCount, weight,
                 batches, drifted, governanceVars>>

-----------------------------------------------------------------------------
(***************************************************************************)
(* A batch of holder shares                                                *)
(***************************************************************************)

\* Mutant: the old shares are all read before the first one is overwritten.
Register_ReadFirst(o, batch) ==
  LET reg[k \in 0 .. Len(batch)] ==
        IF k = 0
          THEN [share |-> share[o], total |-> shareTotal[o], schedule |-> schedule[o]]
          ELSE LET old == reg[k - 1]
                   h == batch[k].holder
                   bps == batch[k].bps
               IN  [share |-> [old.share EXCEPT ![h] = bps],
                    total |-> SubOrZero(old.total, share[o][h]) + bps,
                    schedule |-> [old.schedule EXCEPT ![h] =
                      record_holder_share_transition(@, Len(periods[o]), share[o][h], bps)]]
  IN  reg

(***************************************************************************)
(* The register of o after the first k writes of a batch, for every k: the *)
(* code stores each share before it reads the next, so a holder named      *)
(* twice in a batch is counted once.                                       *)
(***************************************************************************)
Register(o, batch) ==
  LET reg[k \in 0 .. Len(batch)] ==
        IF k = 0
          THEN [share |-> share[o], total |-> shareTotal[o], schedule |-> schedule[o]]
          ELSE LET old == reg[k - 1]
                   h == batch[k].holder
                   bps == batch[k].bps
               IN  [share |-> [old.share EXCEPT ![h] = bps],
                    total |-> SubOrZero(old.total, old.share[h]) + bps,
                    schedule |-> [old.schedule EXCEPT ![h] =
                      record_holder_share_transition(@, Len(periods[o]), old.share[h], bps)]]
  IN  reg

AddedBps(batch) == SumFunction([k \in DOMAIN batch |-> batch[k].bps])

\* The cap's own sum: every write is compared with the share before the batch.
CapTotal(o, batch) ==
  sharesIssued[o]
    + SumFunction([k \in DOMAIN batch |-> batch[k].bps - share[o][batch[k].holder]])

(***************************************************************************)
(* TotalSharesIssued after a batch.  Without a cap the code sums the       *)
(* differences after the shares were overwritten: each of a batch without  *)
(* repetitions is 0, and of a holder named twice the writes are compared   *)
(* with its last one.                                                      *)
(***************************************************************************)
IssuedAfterBatch(o, batch, after) ==
  IF maxShares[o] > 0 THEN CapTotal(o, batch)
  ELSE sharesIssued[o]
         + SumFunction([k \in DOMAIN batch |-> batch[k].bps - after[batch[k].holder]])

\* The batches TotalSharesIssued is sure to follow.
Followed(o, batch) ==
  /\ maxShares[o] > 0
  /\ \A i, j \in DOMAIN batch : batch[i].holder = batch[j].holder => i = j

\* The last write of the batch that names holder h.
LastWrite(batch, h) ==
  LET named == {k \in DOMAIN batch : batch[k].holder = h}
  IN  batch[CHOOSE k \in named : \A j \in named : j <= k]

Named(batch) == {batch[k].holder : k \in DOMAIN batch}

\* Mutant: the total of a snapshot is that of its last batch.
TotalBpsAfter_LastBatch(o, ref, batch) == AddedBps(batch)

TotalBpsAfter(o, ref, batch) == entry[o][ref].total_bps + AddedBps(batch)

\* Mutant: only single shares are held against the 100%.
WithinLimit_Unchecked(reg, n) == TRUE

\* No write of the batch takes the running total above 100%.
WithinLimit(reg, n) == \A k \in 1 .. n : reg[k].total <= FULL_BPS

Highest(a, b) == IF a >= b THEN a ELSE b

(***************************************************************************)
(* Fill the slots from start on, set the weights, and overwrite the live   *)
(* shares.  Any committed snapshot will do, not only the last one, and any *)
(* slot, written before or not.  A write that takes the total above 100%   *)
(* fails the whole call.                                                   *)
(***************************************************************************)
apply_snapshot_shares(o, ref, start, batch) ==
  LET n == Len(batch)
      reg == Register(o, batch)
      after == reg[n]
      count == IF n = 0 THEN slotCount[o][ref] ELSE Highest(slotCount[o][ref], start + n)
  IN  /\ SnapshotCallAllowed(o)
      /\ ref \in DOMAIN entry[o]
      /\ n <= MAX_SNAPSHOT_BATCH
      /\ \A k \in DOMAIN batch : batch[k].bps <= FULL_BPS
      /\ maxShares[o] > 0 => CapTotal(o, batch) <= maxShares[o]
      /\ WithinLimit(reg, n)
      /\ slot' = [slot EXCEPT ![o][ref] =
           [i \in DOMAIN @ \cup (start .. start + n - 1) |->
              IF i \in start .. start + n - 1 THEN batch[i - start + 1] ELSE @[i]]]
      /\ weight' = [weight EXCEPT ![o][ref] =
           [h \in DOMAIN @ \cup Named(batch) |->
              IF h \in Named(batch) THEN LastWrite(batch, h).bps ELSE @[h]]]
      /\ share' = [share EXCEPT ![o] = after.share]
      /\ shareTotal' = [shareTotal EXCEPT ![o] = after.total]
      /\ schedule' = [schedule EXCEPT ![o] = after.schedule]
      /\ sharesIssued' = [sharesIssued EXCEPT ![o] = IssuedAfterBatch(o, batch, after.share)]
      /\ entry' = [entry EXCEPT ![o][ref].holder_count = Highest(@, count),
                                ![o][ref].total_bps = TotalBpsAfter(o, ref, batch)]
      /\ slotCount' = [slotCount EXCEPT ![o][ref] = count]
      /\ SumFunction(batches[o]) < MaxBatches
      /\ batches' = [batches EXCEPT ![o][ref] = @ + 1]
      /\ drifted' = [drifted EXCEPT ![o] = @ \/ ~Followed(o, batch)]
      /\ lastRaise' = [lastRaise EXCEPT ![o] =
           IF \E h \in Holders, k \in 1 .. n : reg[k].share[h] > reg[k - 1].share[h]
             THEN Len(periods[o]) ELSE @]
      /\ UNCHANGED <<maxShares, now, gateVars, poolVars, vault, configVars, barVars,
                     lastClaimed, redemption, receipts, redeemedOut>>
      /\ UNCHANGED <<snapshotConfig, lastSnapshotRef, lastCommitRef, governanceVars>>

-----------------------------------------------------------------------------
(***************************************************************************)
(* Proposals and votes.  Proposal ids count from 0 in the code, from 1     *)
(* here.                                                                   *)
(***************************************************************************)

create_gov_proposal(o) ==
  /\ require_not_frozen
  /\ require_not_paused
  /\ lastCommitRef[o] > 0
  /\ Len(proposal[o]) < MaxProposals
  /\ proposal' = [proposal EXCEPT ![o] =
       Append(@, [snapshot_id |-> lastCommitRef[o], yes_weight |-> 0, no_weight |-> 0,
                  open |-> TRUE, batchesThen |-> batches[o][lastCommitRef[o]]])]
  /\ ballot' = [ballot EXCEPT ![o] = Append(@, Empty)]
  /\ UNCHANGED <<vars, snapshotVars>>

\* Mutant: a vote weighs what the voter holds today.
VoteWeight_LiveShare(o, id, voter) == share[o][voter]

\* The weight of a voter in the snapshot the proposal pinned, 0 when absent.
VoteWeight(o, id, voter) ==
  LET pinned == weight[o][proposal[o][id].snapshot_id]
  IN  IF voter \in DOMAIN pinned THEN pinned[voter] ELSE 0

cast_vote(o, id, voter, approve) ==
  LET w == VoteWeight(o, id, voter)
  IN  /\ require_not_frozen
      /\ require_not_paused
      /\ id \in DOMAIN proposal[o]
      /\ proposal[o][id].open
      /\ voter \notin DOMAIN ballot[o][id]
      /\ proposal' = [proposal EXCEPT
           ![o][id].yes_weight = IF approve THEN @ + w ELSE @,
           ![o][id].no_weight = IF approve THEN @ ELSE @ + w]
      /\ ballot' = [ballot EXCEPT ![o][id] =
           [v \in DOMAIN @ \cup {voter} |->
              IF v = voter THEN [approve |-> approve, weight |-> w] ELSE @[v]]]
      /\ UNCHANGED <<vars, snapshotVars>>

close_gov_proposal(o, id) ==
  /\ require_not_frozen
  /\ require_not_paused
  /\ id \in DOMAIN proposal[o]
  /\ proposal[o][id].open
  /\ proposal' = [proposal EXCEPT ![o][id].open = FALSE]
  /\ UNCHANGED <<vars, snapshotVars, ballot>>

-----------------------------------------------------------------------------

SnapshotNext(o) ==
  \/ \E enabled \in SnapshotSettings : set_snapshot_config(o, enabled)
  \/ \E r \in SnapshotRefs, hash \in Hashes : commit_snapshot(o, r, hash)
  \/ \E r \in SnapshotRefs, i \in StartIndexes, b \in Batches :
       apply_snapshot_shares(o, r, i, b)
  \/ \E t \in PayTokens, a \in Amounts, p \in 1..MaxPeriods, r \in SnapshotRefs :
       deposit_revenue_with_snapshot(o, t, a, p, r)

GovernanceNext(o) ==
  \/ create_gov_proposal(o)
  \/ \E id \in 1..MaxProposals, v \in Holders, approve \in BOOLEAN :
       cast_vote(o, id, v, approve)
  \/ \E id \in 1..MaxProposals : close_gov_proposal(o, id)

MoneyPathNext == Next /\ UNCHANGED <<snapshotVars, governanceVars>>

SystemNext ==
  \/ \E o \in Offerings : SnapshotNext(o) \/ GovernanceNext(o)
  \/ MoneyPathNext

SystemSpec == SystemInit /\ [][SystemNext]_systemVars

-----------------------------------------------------------------------------
(***************************************************************************)
(* Properties                                                              *)
(***************************************************************************)

SnapshotTypeOK ==
  /\ snapshotConfig \in [Offerings -> BOOLEAN]
  /\ lastSnapshotRef \in [Offerings -> SnapshotRefs \cup {0}]
  /\ lastCommitRef \in [Offerings -> SnapshotRefs \cup {0}]
  /\ slotCount \in [Offerings -> [SnapshotRefs -> Nat]]
  /\ batches \in [Offerings -> [SnapshotRefs -> Nat]]
  /\ drifted \in [Offerings -> BOOLEAN]
  /\ DOMAIN entry = Offerings /\ DOMAIN slot = Offerings /\ DOMAIN weight = Offerings
  /\ \A o \in Offerings :
       /\ entry[o] \in [DOMAIN entry[o] -> Entry]
       /\ DOMAIN entry[o] \subseteq SnapshotRefs
       /\ DOMAIN slot[o] = SnapshotRefs /\ DOMAIN weight[o] = SnapshotRefs
       /\ \A r \in SnapshotRefs :
            /\ DOMAIN slot[o][r] \subseteq Nat
            /\ slot[o][r] \in [DOMAIN slot[o][r] -> Write]
            /\ DOMAIN weight[o][r] \subseteq Holders
            /\ weight[o][r] \in [DOMAIN weight[o][r] -> 0..FULL_BPS]

GovernanceTypeOK ==
  /\ proposal \in [Offerings -> Seq(Proposal)]
  /\ ballot = [o \in Offerings |-> [id \in DOMAIN proposal[o] |-> ballot[o][id]]]
  /\ \A o \in Offerings : \A id \in DOMAIN proposal[o] :
       /\ DOMAIN ballot[o][id] \subseteq Holders
       /\ ballot[o][id] \in [DOMAIN ballot[o][id] -> Ballot]

(***************************************************************************)
(* The type invariant, with that of the money path: batches too leave the  *)
(* total of the shares within 100%, and every schedule one that the claims *)
(* can be priced from.                                                     *)
(***************************************************************************)
SystemTypeOK == TypeOK /\ SnapshotTypeOK /\ GovernanceTypeOK

(***************************************************************************)
(* Two writers keep the register: single shares and whole batches, which   *)
(* may name a holder twice.  After any mix of them the running total is    *)
(* the sum of the shares and within 100%.  TotalSharesIssued, which the    *)
(* cap is tested against, is that sum too as long as every batch so far    *)
(* was applied under a cap and named nobody twice (apply_snapshot_shares   *)
(* reads the old shares once too early or once too late otherwise).        *)
(***************************************************************************)
SharesAddUp ==
  \A o \in Offerings :
    /\ shareTotal[o] = SumFunction(share[o])
    /\ shareTotal[o] <= FULL_BPS
    /\ drifted[o] \/ sharesIssued[o] = shareTotal[o]

(***************************************************************************)
(* A snapshot is enumerated by slot and voted on by address, and its entry *)
(* counts both.  Batches may come in any order, leave gaps and rewrite     *)
(* slots: every slot lies below the two counts, which agree, every holder  *)
(* in a slot has a weight, and neither the slots nor the weights add up to *)
(* more than the entry's total.                                            *)
(***************************************************************************)
SnapshotNeverUnderstated ==
  \A o \in Offerings, r \in SnapshotRefs :
    /\ \A i \in DOMAIN slot[o][r] :
         i < slotCount[o][r] /\ slot[o][r][i].holder \in DOMAIN weight[o][r]
    /\ DOMAIN slot[o][r] # {} => r \in DOMAIN entry[o]
    /\ r \in DOMAIN entry[o] =>
         /\ entry[o][r].holder_count = slotCount[o][r]
         /\ SumFunction([i \in DOMAIN slot[o][r] |-> slot[o][r][i].bps])
              <= entry[o][r].total_bps
         /\ SumFunction(weight[o][r]) <= entry[o][r].total_bps

Tally(votes, approve) ==
  SumFunction([v \in {u \in DOMAIN votes : votes[u].approve = approve} |-> votes[v].weight])

(***************************************************************************)
(* The tally of a proposal is the sum of its votes, each holder counted    *)
(* once.  As long as no batch was applied to the pinned snapshot after the *)
(* proposal was made, every vote weighs what the snapshot said then:       *)
(* shares set or redeemed, and snapshots taken, since carry no weight.     *)
(* (With such a batch they do: VoteWeight reads the rewritten snapshot.)   *)
(***************************************************************************)
PinnedSnapshotDecides ==
  \A o \in Offerings : \A id \in DOMAIN proposal[o] :
    LET p == proposal[o][id]
        votes == ballot[o][id]
    IN  /\ p.snapshot_id \in DOMAIN entry[o]
        /\ p.yes_weight = Tally(votes, TRUE)
        /\ p.no_weight = Tally(votes, FALSE)
        /\ batches[o][p.snapshot_id] = p.batchesThen =>
             \A v \in DOMAIN votes : votes[v].weight = VoteWeight(o, id, v)

(***************************************************************************)
(* What was recorded stays: a committed snapshot keeps its hash and time   *)
(* and never counts less than before, both references and with them        *)
(* get_last_snapshot_ref only grow, a vote is never taken back or changed, *)
(* a proposal never moves to another snapshot, and a closed one neither    *)
(* reopens nor takes another vote.                                         *)
(***************************************************************************)
RecordsAreFinal ==
  [][\A o \in Offerings :
       /\ get_last_snapshot_ref(o)' >= get_last_snapshot_ref(o)
       /\ \A r \in DOMAIN entry[o] :
            /\ r \in DOMAIN entry'[o]
            /\ entry'[o][r].hash = entry[o][r].hash
            /\ entry'[o][r].committed_at = entry[o][r].committed_at
            /\ entry'[o][r].holder_count >= entry[o][r].holder_count
            /\ entry'[o][r].total_bps >= entry[o][r].total_bps
       /\ \A id \in DOMAIN proposal[o] :
            /\ id \in DOMAIN proposal'[o]
            /\ proposal'[o][id].snapshot_id = proposal[o][id].snapshot_id
            /\ \A v \in DOMAIN ballot[o][id] :
                 v \in DOMAIN ballot'[o][id] /\ ballot'[o][id][v] = ballot[o][id][v]
            /\ ~proposal[o][id].open =>
                 proposal'[o][id] = proposal[o][id] /\ ballot'[o][id] = ballot[o][id]]_systemVars
=============================================================================
