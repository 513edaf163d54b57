---------------------------- MODULE ControlPlane ----------------------------
(***************************************************************************)
(* Who may do what to the contract as a whole: the admin, its two-step     *)
(* rotation, the freeze, and the multisig that takes over some of the      *)
(* admin's calls once it is initialised (src/lib.rs).                      *)
(*                                                                         *)
(* One action is one successful call; a call that returns an error leaves  *)
(* no trace.  The signer of a call is a parameter wherever the code        *)
(* compares it with its records.  The pause tiers and the version gates    *)
(* are in RevenueDistribution.                                             *)
(***************************************************************************)
EXTENDS Integers, Sequences, FiniteSets, Functions

CONSTANTS
  Addresses,            \* owners, admins and strangers
  NoAddress,            \* stands for an absent storage entry
  Proposable,           \* the actions owners propose
  Thresholds,           \* thresholds asked of init_multisig
  Durations,            \* proposal durations asked of init_multisig
  Quorums,              \* quorums asked of init_multisig, in basis points
  MAX_MULTISIG_OWNERS,
  MAX_PROPOSAL_DURATION,
  MAX_TIMESTAMP,        \* u64::MAX
  MaxTime,              \* bound on the clock
  MaxProposals          \* bound on the number of proposals

FULL_BPS == 10000

\* ProposalAction of the source.
ProposalAction ==
  [kind : {"SetAdmin", "AddOwner", "RemoveOwner"}, address : Addresses]
    \cup [kind : {"SetThreshold", "SetProposalDuration"}, value : Nat]
    \cup [kind : {"Freeze"}]

ASSUME Addressing == NoAddress \notin Addresses /\ IsFiniteSet(Addresses)

ASSUME Inputs ==
  /\ Proposable \subseteq ProposalAction
  /\ Thresholds \subseteq Nat /\ Durations \subseteq Nat /\ Quorums \subseteq Nat

ASSUME Limits ==
  /\ MAX_MULTISIG_OWNERS \in Nat \ {0}
  /\ MAX_PROPOSAL_DURATION \in Nat /\ MAX_TIMESTAMP \in Nat
  /\ MaxTime \in Nat /\ MaxProposals \in Nat

VARIABLES
  now,           \* ledger timestamp
  admin,         \* Admin
  pendingAdmin,  \* PendingAdmin
  frozen,        \* Frozen
  owners,        \* MultisigOwners; the code admits no duplicates
  threshold,     \* MultisigThreshold, 0 before init_multisig
  weight,        \* VoterWeight, 0 when absent
  quorum,        \* MultisigQuorumBps
  duration,      \* MultisigProposalDuration
  proposals      \* MultisigProposal(id) at position id + 1

ballotVars == <<weight, quorum>>
multisigVars == <<owners, threshold, duration, proposals>>
vars == <<now, admin, pendingAdmin, frozen, multisigVars, ballotVars>>

Proposal ==
  [action : ProposalAction, approvals : Seq(Addresses), executed : BOOLEAN,
   expiry : Nat, quorum_bps : Nat]

AdminTypeOK ==
  /\ admin \in Addresses \cup {NoAddress}
  /\ pendingAdmin \in Addresses \cup {NoAddress}
  /\ frozen \in BOOLEAN
  /\ now \in Nat

MultisigTypeOK ==
  /\ owners \subseteq Addresses
  /\ threshold \in Nat /\ duration \in Nat /\ quorum \in Nat
  /\ weight \in [Addresses -> Nat]
  /\ proposals \in Seq(Proposal)

\* The records have the shapes the storage keys declare.
TypeOK == AdminTypeOK /\ MultisigTypeOK

Init ==
  /\ now = 0 /\ frozen = FALSE
  /\ admin = NoAddress /\ pendingAdmin = NoAddress
  /\ owners = {} /\ threshold = 0 /\ duration = 0 /\ quorum = 0
  /\ weight = [a \in Addresses |-> 0]
  /\ proposals = <<>>

MultisigInitialized == threshold > 0

-----------------------------------------------------------------------------
(***************************************************************************)
(* The single admin                                                        *)
(***************************************************************************)

\* Both ways to become the first admin; initialize is silent the second time.
initialize(a) ==
  /\ admin = NoAddress
  /\ admin' = a
  /\ UNCHANGED <<now, pendingAdmin, frozen, multisigVars, ballotVars>>

set_admin(a) == ~MultisigInitialized /\ initialize(a)

propose_admin_rotation(a) ==
  /\ ~frozen
  /\ admin \notin {NoAddress, a}
  /\ pendingAdmin = NoAddress
  /\ pendingAdmin' = a
  /\ UNCHANGED <<now, admin, frozen, multisigVars, ballotVars>>

accept_admin_rotation_WhileFrozen(a) ==
  /\ pendingAdmin = a
  /\ admin # NoAddress
  /\ admin' = a
  /\ pendingAdmin' = NoAddress
  /\ UNCHANGED <<now, frozen, multisigVars, ballotVars>>

accept_admin_rotation(a) ==
  /\ ~frozen
  /\ pendingAdmin = a
  /\ admin # NoAddress
  /\ admin' = a
  /\ pendingAdmin' = NoAddress
  /\ UNCHANGED <<now, frozen, multisigVars, ballotVars>>

cancel_admin_rotation ==
  /\ ~frozen
  /\ admin # NoAddress
  /\ pendingAdmin # NoAddress
  /\ pendingAdmin' = NoAddress
  /\ UNCHANGED <<now, admin, frozen, multisigVars, ballotVars>>

set_freeze ==
  /\ ~MultisigInitialized
  /\ admin # NoAddress
  /\ frozen' = TRUE
  /\ UNCHANGED <<now, admin, pendingAdmin, multisigVars, ballotVars>>

-----------------------------------------------------------------------------
(***************************************************************************)
(* The multisig                                                            *)
(***************************************************************************)

FoundersWeight_NoDefault(founders) ==
  [a \in founders |-> FULL_BPS \div Cardinality(founders)]

\* The founding owners share the votes equally, rounded down.
FoundersWeight(founders) ==
  [a \in Addresses |-> IF a \in founders THEN FULL_BPS \div Cardinality(founders) ELSE 0]

init_multisig(caller, founders, t, d, q) ==
  /\ admin # NoAddress /\ caller = admin
  /\ ~MultisigInitialized
  /\ Cardinality(founders) \in 1..MAX_MULTISIG_OWNERS
  /\ t \in 1..Cardinality(founders)
  /\ d \in 1..MAX_PROPOSAL_DURATION
  /\ q \in 1..FULL_BPS
  /\ threshold' = t /\ owners' = founders /\ duration' = d /\ quorum' = q
  /\ proposals' = <<>>
  /\ weight' = FoundersWeight(founders)
  /\ UNCHANGED <<now, admin, pendingAdmin, frozen>>

\* The proposer approves at once; expiry and quorum are pinned in the proposal.
propose_action(proposer, action) ==
  /\ proposer \in owners
  /\ Len(proposals) < MaxProposals
  /\ now + duration <= MAX_TIMESTAMP
  /\ proposals' = Append(proposals,
       [action |-> action, approvals |-> <<proposer>>, executed |-> FALSE,
        expiry |-> now + duration, quorum_bps |-> quorum])
  /\ UNCHANGED <<now, admin, pendingAdmin, frozen, owners, threshold, duration, ballotVars>>

Open(p) == ~p.executed /\ now < p.expiry

HasApproved_NotChecked(a, p) == FALSE

HasApproved(a, p) == \E k \in DOMAIN p.approvals : p.approvals[k] = a

approve_action(approver, i) ==
  /\ approver \in owners
  /\ Open(proposals[i])
  /\ ~HasApproved(approver, proposals[i])
  /\ proposals' = [proposals EXCEPT ![i].approvals = Append(@, approver)]
  /\ UNCHANGED <<now, admin, pendingAdmin, frozen, owners, threshold, duration, ballotVars>>

WeightOf(S) == SumFunctionOnSet(weight, S)

VotedWeight(p) == SumFunction([k \in DOMAIN p.approvals |-> weight[p.approvals[k]]])

check_quorum_inner_AnyVote(p) == p.approvals # <<>> /\ VotedWeight(p) > 0

check_quorum_inner(p) == p.approvals # <<>> /\ VotedWeight(p) >= p.quorum_bps

SetAdmin(a) ==
  /\ admin' = a
  /\ UNCHANGED <<frozen, owners, threshold, duration>>

Freeze ==
  /\ frozen' = TRUE
  /\ UNCHANGED <<admin, owners, threshold, duration>>

SetThreshold(t) ==
  /\ t \in 1..Cardinality(owners)
  /\ threshold' = t
  /\ UNCHANGED <<admin, frozen, owners, duration>>

AddOwner(a) ==
  /\ Cardinality(owners) < MAX_MULTISIG_OWNERS
  /\ a \notin owners
  /\ owners' = owners \cup {a}
  /\ UNCHANGED <<admin, frozen, threshold, duration>>

RemoveOwner_AtThreshold(a) ==
  /\ a \in owners
  /\ Cardinality(owners) >= threshold
  /\ owners' = owners \ {a}
  /\ UNCHANGED <<admin, frozen, threshold, duration>>

RemoveOwner(a) ==
  /\ a \in owners
  /\ Cardinality(owners) - 1 >= threshold
  /\ owners' = owners \ {a}
  /\ UNCHANGED <<admin, frozen, threshold, duration>>

SetProposalDuration(d) ==
  /\ d > 0
  /\ duration' = d
  /\ UNCHANGED <<admin, frozen, owners, threshold>>

Perform(action) ==
  \/ action.kind = "SetAdmin" /\ SetAdmin(action.address)
  \/ action.kind = "Freeze" /\ Freeze
  \/ action.kind = "SetThreshold" /\ SetThreshold(action.value)
  \/ action.kind = "AddOwner" /\ AddOwner(action.address)
  \/ action.kind = "RemoveOwner" /\ RemoveOwner(action.address)
  \/ action.kind = "SetProposalDuration" /\ SetProposalDuration(action.value)

\* An action that its branch refuses fails the call: the proposal stays open.
execute_action(executor, i) ==
  /\ executor \in owners
  /\ Open(proposals[i])
  /\ Len(proposals[i].approvals) >= threshold
  /\ check_quorum_inner(proposals[i])
  /\ Perform(proposals[i].action)
  /\ proposals' = [proposals EXCEPT ![i].executed = TRUE]
  /\ UNCHANGED <<now, pendingAdmin, ballotVars>>

-----------------------------------------------------------------------------
Tick ==
  /\ now < MaxTime
  /\ now' = now + 1
  /\ UNCHANGED <<admin, pendingAdmin, frozen, multisigVars, ballotVars>>

AdminNext ==
  \/ \E a \in Addresses :
       initialize(a) \/ set_admin(a) \/ propose_admin_rotation(a) \/ accept_admin_rotation(a)
  \/ cancel_admin_rotation
  \/ set_freeze

MultisigNext ==
  \/ \E a \in Addresses, founders \in SUBSET Addresses, t \in Thresholds, d \in Durations,
        q \in Quorums : init_multisig(a, founders, t, d, q)
  \/ \E a \in Addresses, action \in Proposable : propose_action(a, action)
  \/ \E a \in Addresses, i \in DOMAIN proposals : approve_action(a, i) \/ execute_action(a, i)

Next == AdminNext \/ MultisigNext \/ Tick

Spec == Init /\ [][Next]_vars

-----------------------------------------------------------------------------
(***************************************************************************)
(* Properties                                                              *)
(***************************************************************************)

(***************************************************************************)
(* A threshold no number of owners can meet would end the multisig.  The   *)
(* threshold and the owners are changed by separate proposals, checked at  *)
(* their proposal by nothing and executed in any order; still, from        *)
(* init_multisig on, the owners are at least as many as the threshold.     *)
(***************************************************************************)
OwnersSatisfyThreshold ==
  MultisigInitialized =>
    /\ threshold <= Cardinality(owners)
    /\ Cardinality(owners) <= MAX_MULTISIG_OWNERS

(***************************************************************************)
(* Once there is a multisig, its owners, its threshold, its duration and   *)
(* the freeze change only by executing one proposal that asks for that     *)
(* change, in time, approved by as many different addresses as the         *)
(* threshold of the moment asks, with the quorum it was created under.     *)
(***************************************************************************)
ChangeAskedFor(action) ==
  /\ owners' = CASE action.kind = "AddOwner" -> owners \cup {action.address}
                 [] action.kind = "RemoveOwner" -> owners \ {action.address}
                 [] OTHER -> owners
  /\ threshold' = IF action.kind = "SetThreshold" THEN action.value ELSE threshold
  /\ duration' = IF action.kind = "SetProposalDuration" THEN action.value ELSE duration
  /\ frozen' = (frozen \/ action.kind = "Freeze")

Carried(p) ==
  /\ now < p.expiry
  /\ Cardinality(Range(p.approvals)) >= threshold
  /\ WeightOf(Range(p.approvals)) >= p.quorum_bps

ChangesAreVoted ==
  [][MultisigInitialized /\ ~UNCHANGED <<owners, threshold, duration, frozen>> =>
       \E i \in DOMAIN proposals :
         /\ ~proposals[i].executed /\ proposals'[i].executed
         /\ Carried(proposals[i])
         /\ ChangeAskedFor(proposals[i].action)]_vars

(***************************************************************************)
(* A proposal that has been executed or has expired is never touched       *)
(* again, whatever becomes of the owners, the duration and the threshold;  *)
(* an open one only gains approvals or is executed.                        *)
(***************************************************************************)
Settled(p) == p.executed \/ now >= p.expiry

OnlyApprovedOrExecuted(p, q) ==
  /\ Len(q.approvals) >= Len(p.approvals)
  /\ \A k \in DOMAIN p.approvals : q.approvals[k] = p.approvals[k]
  /\ q = [p EXCEPT !.approvals = q.approvals, !.executed = q.executed]

SettledProposalsStay ==
  [][\A i \in DOMAIN proposals :
       /\ i \in DOMAIN proposals'
       /\ Settled(proposals[i]) => proposals'[i] = proposals[i]
       /\ OnlyApprovedOrExecuted(proposals[i], proposals'[i])]_vars

(***************************************************************************)
(* A frozen contract stays frozen, and the rotation stops where it is: a   *)
(* rotation under way can be neither accepted nor withdrawn, and the admin *)
(* changes only if a proposal to set it is executed.                       *)
(***************************************************************************)
FreezeEndsRotation ==
  [][frozen =>
       /\ frozen' /\ pendingAdmin' = pendingAdmin
       /\ admin' # admin =>
            \E i \in DOMAIN proposals :
              /\ proposals[i].action = [kind |-> "SetAdmin", address |-> admin']
              /\ ~proposals[i].executed /\ proposals'[i].executed]_vars

(***************************************************************************)
(* Votes are dealt out once, to the founders: an owner added later has     *)
(* none, and those of a removed owner pass to nobody.  If the owners of    *)
(* the moment cannot muster the quorum, and no open proposal can with the  *)
(* approvals it has, the multisig is locked out for good: its owners,      *)
(* threshold and duration are as they are for ever.                        *)
(***************************************************************************)
LockedOut ==
  /\ MultisigInitialized
  /\ WeightOf(owners) < quorum
  /\ \A i \in DOMAIN proposals :
       ~Settled(proposals[i]) =>
         WeightOf(owners \cup Range(proposals[i].approvals)) < proposals[i].quorum_bps

LockoutIsFinal ==
  [][LockedOut => LockedOut' /\ UNCHANGED <<owners, threshold, duration>>]_vars

-----------------------------------------------------------------------------
(***************************************************************************)
(* To somebody who watches decisions and not the clock, the multisig is a  *)
(* Council: a proposal is a motion, who approved it are its backers, and   *)
(* it is open until it is executed or expires.                             *)
(***************************************************************************)
Motions == [i \in DOMAIN proposals |-> proposals[i].action]

Backers == [i \in DOMAIN proposals |-> Range(proposals[i].approvals)]

VotesSuffice(votes, S) ==
  votes.quorum > 0 /\ SumFunctionOnSet(votes.weight, S) >= votes.quorum

Council == INSTANCE Council WITH
  Motions <- Proposable, Strong <- VotesSuffice,
  members <- owners, bar <- threshold, term <- duration, head <- admin,
  votes <- [weight |-> weight, quorum |-> quorum],
  motions <- Motions, backers <- Backers,
  open <- {i \in DOMAIN proposals : ~Settled(proposals[i])},
  carried <- {i \in DOMAIN proposals : proposals[i].executed}

(***************************************************************************)
(* The multisig implements the council: each motion is carried at most     *)
(* once, while it is open, by enough different approvers with the votes    *)
(* the founding dealt, and nothing but a motion changes the body.          *)
(***************************************************************************)
ImplementsCouncil == Council!Spec

-----------------------------------------------------------------------------
(***************************************************************************)
(* A statement of the repository that the code does not keep               *)
(***************************************************************************)

(***************************************************************************)
(* The check of the threshold in RemoveOwner is said to keep a sequence of *)
(* removals from bricking the multisig.  If the founders could muster the  *)
(* quorum together, then so can the owners at any later moment.            *)
(***************************************************************************)
Founders == {a \in Addresses : weight[a] > 0}

RemovalsNeverBrick ==
  MultisigInitialized /\ WeightOf(Founders) >= quorum => WeightOf(owners) >= quorum
=============================================================================
