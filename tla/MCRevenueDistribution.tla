----------------------- MODULE MCRevenueDistribution -----------------------
(***************************************************************************)
(* Instances of RevenueDistribution for TLC.  Each .cfg picks its inputs   *)
(* from the sets below; an empty set of inputs switches a call off.        *)
(***************************************************************************)
EXTENDS RevenueDistribution, TLC

NoSupplyCap == [o \in Offerings |-> 0]

\* One offering takes 12 at most, the others any amount.
OneSupplyCap ==
  LET capped == CHOOSE o \in Offerings : TRUE
  IN  [o \in Offerings |-> IF o = capped THEN 12 ELSE 0]

OneWindow == {[start |-> 1, end |-> 1]}
HolderSymmetry == Permutations(Holders)
TokenSymmetry == Permutations(PayTokens)

Flag(b) == IF b THEN 1 ELSE 0

\* How many settings and bars of an offering, and how many gates that may
\* open again, are not as they were at first.
AlteredIn(o) ==
    Flag(decimals[o] # CANONICAL_DECIMALS) + Flag(claimDelay[o] # 0)
  + Flag(claimWindow[o] # NoWindow) + Flag(blacklist[o] # {})
  + Cardinality({h \in Holders : holderFrozen[o][h] # NoReason})
AlteredGates == Flag(layoutAhead) + Flag(paused # "NotPaused")

Unused(o) ==
  AlteredIn(o) = 0 /\ periods[o] = <<>> /\ \A h \in Holders : schedule[o][h] = NoSchedule

(***************************************************************************)
(* The state constraint of the run of the vault and of the holders' exit.  *)
(* Either the offerings share the balance, nothing is altered and nothing  *)
(* halted, or there is one offering, without a supply cap, with up to one  *)
(* setting, bar or gate altered at a time, and perhaps a freeze or a       *)
(* migration on top of it.                                                 *)
(***************************************************************************)
SharedOrAlone ==
  \/ /\ now = 0 /\ ~halted /\ AlteredGates = 0
     /\ \A o \in Offerings : AlteredIn(o) = 0
  \/ \E o \in Offerings :
       /\ SupplyCap[o] = 0 /\ AlteredGates + AlteredIn(o) <= 1
       /\ \A p \in Offerings \ {o} : Unused(p)
=============================================================================
