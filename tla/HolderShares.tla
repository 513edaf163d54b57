---------------------------- MODULE HolderShares ----------------------------
(***************************************************************************)
(* The share register of the Revora contract: what every holder of every   *)
(* offering owns, in basis points, the two running totals kept beside it,  *)
(* and the checkpoints that remember which share was in force when a       *)
(* revenue period was deposited.                                           *)
(*                                                                         *)
(* The register has no entry point of its own.  set_holder_share,          *)
(* fulfill_redemption and the other writers all go through                 *)
(* set_holder_share_internal, which this module gives as an operator that  *)
(* constrains the primed register; the modules that EXTEND this one supply *)
(* the callers and the number of periods deposited so far.                 *)
(***************************************************************************)
EXTENDS Integers, Functions, FiniteSets

CONSTANTS
  Offerings,   \* registered offerings: (issuer, namespace, token) triples
  Holders      \* holder addresses

\* The addresses a register can name are finite, so its shares have a sum.
ASSUME FiniteHolders == IsFiniteSet(Holders)

FULL_BPS == 10000

VARIABLES
  share,         \* HolderShare(offering, holder), 0 when absent
  shareTotal,    \* HolderShareTotal(offering), the running total of share
  sharesIssued,  \* TotalSharesIssued(offering), a second running total
  maxShares,     \* MaxTotalSupplyShares(offering), 0 when there is no cap
  schedule       \* HolderShareSchedule(offering, holder), see NoSchedule

registerVars == <<share, shareTotal, sharesIssued, maxShares, schedule>>

(***************************************************************************)
(* A schedule is stored as a vector of checkpoints (start_index,           *)
(* share_bps).  Each write drops the entry that starts at the current      *)
(* period count and appends one that does, so the starts are strictly      *)
(* increasing and the vector is a function from start_index to share_bps.  *)
(* The empty function stands for a schedule that was never stored.         *)
(***************************************************************************)
NoSchedule == [start \in {} |-> 0]

RegisterInit ==
  /\ share = [o \in Offerings |-> [h \in Holders |-> 0]]
  /\ shareTotal = [o \in Offerings |-> 0]
  /\ sharesIssued = [o \in Offerings |-> 0]
  /\ maxShares = [o \in Offerings |-> 0]
  /\ schedule = [o \in Offerings |-> [h \in Holders |-> NoSchedule]]

(***************************************************************************)
(* A holder without a stored schedule is given the fallback schedule: its  *)
(* current share from index 0 on, or nothing when it has no share.         *)
(***************************************************************************)
get_holder_share_schedule(sched, current) ==
  IF DOMAIN sched # {} THEN sched
  ELSE IF current > 0 THEN [start \in {0} |-> current]
  ELSE NoSchedule

\* Mutant: a new checkpoint replaces the ones before it.
record_holder_share_transition_Overwrites(sched, count, old, new) ==
  IF old = new THEN sched ELSE [start \in {count} |-> new]

(***************************************************************************)
(* Checkpoint a change of share at the current period count.  The caller   *)
(* has already stored HolderShare, so the fallback of a holder without a   *)
(* schedule starts from the NEW share.                                     *)
(***************************************************************************)
record_holder_share_transition(sched, count, old, new) ==
  LET existing == get_holder_share_schedule(sched, new)
  IN  IF old = new THEN sched
      ELSE [start \in DOMAIN existing \cup {count} |->
              IF start = count THEN new ELSE existing[start]]

(***************************************************************************)
(* The share a schedule prices period i at.  Indices count from 0 in the   *)
(* code and from 1 here, so a checkpoint written when count periods had    *)
(* been deposited applies to the periods above count.                      *)
(***************************************************************************)
ShareInForce(sched, i) ==
  LET started == {start \in DOMAIN sched : start < i}
  IN  IF started = {} THEN 0
      ELSE sched[CHOOSE s \in started : \A t \in started : t <= s]

\* u32 subtraction that falls back to 0 on underflow (s_sub(..).unwrap_or(0)).
SubOrZero(a, b) == IF a >= b THEN a - b ELSE 0

\* Mutant: the old share is read after it was overwritten.
IssuedAfter_Overwritten(o, h, share_bps) == sharesIssued[o] - share_bps + share_bps

\* TotalSharesIssued once h's share is share_bps.
IssuedAfter(o, h, share_bps) == sharesIssued[o] - share[o][h] + share_bps

\* HolderShareTotal once h's share is share_bps.
TotalAfter(o, h, share_bps) == SubOrZero(shareTotal[o], share[o][h]) + share_bps

(***************************************************************************)
(* Write one holder's share: both caps, both totals, the share and its     *)
(* checkpoint.  Share classes are not configured in this model.            *)
(***************************************************************************)
set_holder_share_internal(o, h, share_bps, count) ==
  /\ share_bps <= FULL_BPS
  /\ maxShares[o] > 0 => IssuedAfter(o, h, share_bps) <= maxShares[o]
  /\ TotalAfter(o, h, share_bps) <= FULL_BPS
  /\ share' = [share EXCEPT ![o][h] = share_bps]
  /\ shareTotal' = [shareTotal EXCEPT ![o] = TotalAfter(o, h, share_bps)]
  /\ sharesIssued' = [sharesIssued EXCEPT ![o] = IssuedAfter(o, h, share_bps)]
  /\ schedule' = [schedule EXCEPT ![o][h] =
       record_holder_share_transition(@, count, share[o][h], share_bps)]
  /\ UNCHANGED maxShares

-----------------------------------------------------------------------------

(***************************************************************************)
(* Both running totals are maintained by differences, one saturating at 0  *)
(* and one not; neither is ever recomputed.  They agree with each other    *)
(* and with the shares they summarise, so the 100% limit that is tested    *)
(* on the running total really limits the shares.                          *)
(***************************************************************************)
TotalsExact ==
  \A o \in Offerings :
    /\ shareTotal[o] = SumFunction(share[o])
    /\ sharesIssued[o] = shareTotal[o]
    /\ shareTotal[o] <= FULL_BPS
=============================================================================
