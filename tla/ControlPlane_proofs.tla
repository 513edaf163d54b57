------------------------ MODULE ControlPlane_proofs ------------------------
(***************************************************************************)
(* Theorems about ControlPlane: the types, the threshold within reach of   *)
(* the owners, settled proposals, what a freeze leaves to the admin, who   *)
(* must have approved a change, and the lockout.                           *)
(***************************************************************************)
EXTENDS ControlPlane, SumTheorems, FiniteSetTheorems, TLAPS

\* The calls of the single admin keep the types.
LEMMA AdminType ==
  ASSUME TypeOK, AdminNext
  PROVE  TypeOK'
<1>1. UNCHANGED <<now, multisigVars, ballotVars>>
  BY DEF AdminNext, initialize, set_admin, propose_admin_rotation, accept_admin_rotation,
    cancel_admin_rotation, set_freeze
<1>2. AdminTypeOK'
  BY <1>1 DEF AdminNext, initialize, set_admin, propose_admin_rotation,
    accept_admin_rotation, cancel_admin_rotation, set_freeze, TypeOK, AdminTypeOK
<1> QED
  BY <1>1, <1>2 DEF TypeOK, MultisigTypeOK, multisigVars, ballotVars

\* The founders' votes are a natural number for every address.
LEMMA FoundersWeightType ==
  ASSUME NEW founders \in SUBSET Addresses, Cardinality(founders) \in Nat \ {0}
  PROVE  FoundersWeight(founders) \in [Addresses -> Nat]
<1>1. FULL_BPS \div Cardinality(founders) \in Nat
  BY DEF FULL_BPS
<1> QED
  BY <1>1 DEF FoundersWeight

\* A new proposal is a proposal.
LEMMA ProposeType ==
  ASSUME TypeOK, NEW a \in Addresses, NEW action \in Proposable, propose_action(a, action)
  PROVE  TypeOK'
<1> DEFINE new == [action |-> action, approvals |-> <<a>>, executed |-> FALSE,
                   expiry |-> now + duration, quorum_bps |-> quorum]
<1>1. new \in Proposal
  <2>1. action \in ProposalAction
    BY Inputs
  <2>2. <<a>> \in Seq(Addresses)
    OBVIOUS
  <2>3. now + duration \in Nat /\ quorum \in Nat
    BY DEF TypeOK, AdminTypeOK, MultisigTypeOK
  <2> QED
    BY <2>1, <2>2, <2>3 DEF Proposal
<1>2. proposals' = Append(proposals, new)
  BY DEF propose_action
<1> HIDE DEF new
<1>3. proposals' \in Seq(Proposal)
  BY <1>1, <1>2 DEF TypeOK, MultisigTypeOK
<1> QED
  BY <1>3 DEF propose_action, TypeOK, AdminTypeOK, MultisigTypeOK, ballotVars

\* An approval keeps the shape of its proposal.
LEMMA ApproveType ==
  ASSUME TypeOK, NEW a \in Addresses, NEW i \in DOMAIN proposals, approve_action(a, i)
  PROVE  TypeOK'
<1>1. proposals[i] \in Proposal /\ i \in 1..Len(proposals)
  BY DEF TypeOK, MultisigTypeOK
<1>2. Append(proposals[i].approvals, a) \in Seq(Addresses)
  BY <1>1 DEF Proposal
<1>3. [proposals[i] EXCEPT !.approvals = Append(@, a)] \in Proposal
  BY <1>1, <1>2 DEF Proposal
<1>4. proposals' \in Seq(Proposal)
  BY <1>1, <1>3 DEF approve_action, TypeOK, MultisigTypeOK
<1> QED
  BY <1>4 DEF approve_action, TypeOK, AdminTypeOK, MultisigTypeOK, ballotVars

\* What a proposal asks for, by its kind.
LEMMA ActionParts ==
  ASSUME NEW action \in ProposalAction
  PROVE  /\ action.kind \in {"SetAdmin", "AddOwner", "RemoveOwner"} =>
              /\ action.address \in Addresses
              /\ action = [kind |-> action.kind, address |-> action.address]
         /\ action.kind \in {"SetThreshold", "SetProposalDuration"} => action.value \in Nat
<1>1. CASE action \in [kind : {"SetAdmin", "AddOwner", "RemoveOwner"}, address : Addresses]
  BY <1>1
<1>2. CASE action \in [kind : {"SetThreshold", "SetProposalDuration"}, value : Nat]
  BY <1>2
<1>3. CASE action \in [kind : {"Freeze"}]
  BY <1>3
<1> QED
  BY <1>1, <1>2, <1>3 DEF ProposalAction

\* Performing an action keeps the types of what it changes.
LEMMA PerformType ==
  ASSUME TypeOK, NEW action \in ProposalAction, Perform(action)
  PROVE  /\ admin' \in Addresses \cup {NoAddress}
         /\ frozen' \in BOOLEAN
         /\ owners' \subseteq Addresses
         /\ threshold' \in Nat
         /\ duration' \in Nat
<1> USE ActionParts DEF TypeOK, AdminTypeOK, MultisigTypeOK
<1>1. CASE action.kind = "SetAdmin" /\ SetAdmin(action.address)
  BY <1>1 DEF SetAdmin
<1>2. CASE action.kind = "Freeze" /\ Freeze
  BY <1>2 DEF Freeze
<1>3. CASE action.kind = "SetThreshold" /\ SetThreshold(action.value)
  BY <1>3 DEF SetThreshold
<1>4. CASE action.kind = "AddOwner" /\ AddOwner(action.address)
  BY <1>4 DEF AddOwner
<1>5. CASE action.kind = "RemoveOwner" /\ RemoveOwner(action.address)
  BY <1>5 DEF RemoveOwner
<1>6. CASE action.kind = "SetProposalDuration" /\ SetProposalDuration(action.value)
  BY <1>6 DEF SetProposalDuration
<1> QED
  BY <1>1, <1>2, <1>3, <1>4, <1>5, <1>6 DEF Perform

\* An execution keeps the types.
LEMMA ExecuteType ==
  ASSUME TypeOK, NEW a \in Addresses, NEW i \in DOMAIN proposals, execute_action(a, i)
  PROVE  TypeOK'
<1>1. proposals[i] \in Proposal /\ i \in 1..Len(proposals)
  BY DEF TypeOK, MultisigTypeOK
<1>2. proposals[i].action \in ProposalAction
  BY <1>1 DEF Proposal
<1>3. [proposals[i] EXCEPT !.executed = TRUE] \in Proposal
  BY <1>1 DEF Proposal
<1>4. proposals' = [proposals EXCEPT ![i].executed = TRUE]
  BY DEF execute_action
<1>5. proposals' \in Seq(Proposal)
  BY <1>1, <1>3, <1>4 DEF TypeOK, MultisigTypeOK
<1>6. Perform(proposals[i].action) /\ UNCHANGED <<now, pendingAdmin, ballotVars>>
  BY DEF execute_action
<1> QED
  BY <1>2, <1>5, <1>6, PerformType DEF TypeOK, AdminTypeOK, MultisigTypeOK, ballotVars

\* Every step keeps the types.
LEMMA TypeStep == TypeOK /\ [Next]_vars => TypeOK'
<1> SUFFICES ASSUME TypeOK, [Next]_vars PROVE TypeOK'
  OBVIOUS
<1>1. CASE AdminNext
  BY <1>1, AdminType
<1>2. ASSUME NEW a \in Addresses, NEW founders \in SUBSET Addresses, NEW t \in Thresholds,
             NEW d \in Durations, NEW q \in Quorums, init_multisig(a, founders, t, d, q)
      PROVE  TypeOK'
  <2>1. Cardinality(founders) \in Nat \ {0}
    BY <1>2, Limits DEF init_multisig
  <2>2. weight' \in [Addresses -> Nat]
    BY <1>2, <2>1, FoundersWeightType DEF init_multisig
  <2>3. owners' \subseteq Addresses /\ threshold' \in Nat /\ duration' \in Nat /\ quorum' \in Nat
    BY <1>2, Inputs DEF init_multisig
  <2>4. proposals' \in Seq(Proposal)
    BY <1>2 DEF init_multisig
  <2> QED
    BY <1>2, <2>2, <2>3, <2>4 DEF init_multisig, TypeOK, AdminTypeOK, MultisigTypeOK
<1>3. CASE Tick
  BY <1>3 DEF Tick, TypeOK, AdminTypeOK, MultisigTypeOK, multisigVars, ballotVars
<1>4. CASE UNCHANGED vars
  BY <1>4 DEF vars, TypeOK, AdminTypeOK, MultisigTypeOK, multisigVars, ballotVars
<1> QED
  BY <1>1, <1>2, <1>3, <1>4, ProposeType, ApproveType, ExecuteType DEF Next, MultisigNext

\* The first state has the types.
LEMMA TypeInit == Init => TypeOK
<1> SUFFICES ASSUME Init PROVE TypeOK
  OBVIOUS
<1>1. proposals \in Seq(Proposal)
  BY DEF Init
<1>2. weight \in [Addresses -> Nat]
  BY DEF Init
<1>3. AdminTypeOK
  BY DEF Init, AdminTypeOK
<1> QED
  BY <1>1, <1>2, <1>3 DEF Init, TypeOK, MultisigTypeOK

(***************************************************************************)
(* The records of the admin, the owners and the proposals keep the shapes  *)
(* their storage keys declare, for any addresses, limits and inputs.       *)
(***************************************************************************)
THEOREM ControlTypeCorrect == Spec => []TypeOK
<1> QED
  BY TypeInit, TypeStep, PTL DEF Spec

-----------------------------------------------------------------------------
\* Before init_multisig there is no owner, so nobody can propose or execute.
EnoughOwners ==
  /\ OwnersSatisfyThreshold
  /\ ~MultisigInitialized => owners = {} /\ proposals = <<>>

\* A step that leaves owners and threshold alone leaves their relation alone.
LEMMA OwnersIdle ==
  ASSUME EnoughOwners, UNCHANGED <<owners, threshold>>,
         UNCHANGED proposals \/ MultisigInitialized
  PROVE  EnoughOwners'
BY DEF EnoughOwners, OwnersSatisfyThreshold, MultisigInitialized

\* Performing an action on enough owners leaves enough owners.
LEMMA PerformKeepsOwners ==
  ASSUME TypeOK, EnoughOwners, MultisigInitialized,
         NEW action \in ProposalAction, Perform(action)
  PROVE  EnoughOwners' /\ MultisigInitialized'
<1>1. IsFiniteSet(owners) /\ Cardinality(owners) \in Nat
  BY Addressing, FS_Subset, FS_CardinalityType DEF TypeOK, MultisigTypeOK
<1>2. threshold \in Nat /\ MAX_MULTISIG_OWNERS \in Nat
  BY Limits DEF TypeOK, MultisigTypeOK
<1>3. CASE SetThreshold(action.value)
  BY <1>1, <1>2, <1>3 DEF SetThreshold, EnoughOwners, OwnersSatisfyThreshold, MultisigInitialized
<1>4. CASE AddOwner(action.address)
  <2>1. Cardinality(owners') = Cardinality(owners) + 1
    BY <1>1, <1>4, FS_AddElement DEF AddOwner
  <2> QED
    BY <1>1, <1>2, <1>4, <2>1 DEF AddOwner, EnoughOwners, OwnersSatisfyThreshold, MultisigInitialized
<1>5. CASE RemoveOwner(action.address)
  <2>1. Cardinality(owners') = Cardinality(owners) - 1
    BY <1>1, <1>5, FS_RemoveElement DEF RemoveOwner
  <2> QED
    BY <1>1, <1>2, <1>5, <2>1 DEF RemoveOwner, EnoughOwners, OwnersSatisfyThreshold, MultisigInitialized
<1>6. CASE UNCHANGED <<owners, threshold>>
  BY <1>6, OwnersIdle DEF MultisigInitialized
<1> QED
  BY <1>3, <1>4, <1>5, <1>6 DEF Perform, SetAdmin, Freeze, SetProposalDuration

\* Every step keeps the threshold within reach of the owners.
LEMMA OwnersStep == TypeOK /\ EnoughOwners /\ [Next]_vars => EnoughOwners'
<1> SUFFICES ASSUME TypeOK, EnoughOwners, [Next]_vars
             PROVE  EnoughOwners'
  OBVIOUS
<1>1. CASE AdminNext \/ Tick \/ UNCHANGED vars
  <2>1. UNCHANGED <<owners, threshold, proposals>>
    BY <1>1 DEF AdminNext, initialize, set_admin, propose_admin_rotation,
      accept_admin_rotation, cancel_admin_rotation, set_freeze, Tick, vars, multisigVars
  <2> QED
    BY <2>1, OwnersIdle
<1>2. ASSUME NEW a \in Addresses, NEW founders \in SUBSET Addresses, NEW t \in Thresholds,
             NEW d \in Durations, NEW q \in Quorums, init_multisig(a, founders, t, d, q)
      PROVE  EnoughOwners'
  BY <1>2, Limits DEF init_multisig, EnoughOwners, OwnersSatisfyThreshold,
    MultisigInitialized
<1>3. ASSUME NEW a \in Addresses, NEW action \in Proposable, propose_action(a, action)
      PROVE  EnoughOwners'
  BY <1>3, OwnersIdle DEF propose_action, EnoughOwners
<1>4. ASSUME NEW a \in Addresses, NEW i \in DOMAIN proposals, approve_action(a, i)
      PROVE  EnoughOwners'
  BY <1>4, OwnersIdle DEF approve_action, EnoughOwners
<1>5. ASSUME NEW a \in Addresses, NEW i \in DOMAIN proposals, execute_action(a, i)
      PROVE  EnoughOwners'
  <2>1. proposals[i].action \in ProposalAction
    <3>1. proposals[i] \in Proposal
      BY DEF TypeOK, MultisigTypeOK
    <3> QED
      BY <3>1 DEF Proposal
  <2>2. MultisigInitialized
    BY <1>5 DEF execute_action, EnoughOwners
  <2> QED
    BY <1>5, <2>1, <2>2, PerformKeepsOwners DEF execute_action
<1> QED
  BY <1>1, <1>2, <1>3, <1>4, <1>5 DEF Next, MultisigNext

\* The strengthening holds in every state.
LEMMA EnoughOwnersAlways == Spec => []EnoughOwners
<1>1. Init => EnoughOwners
  BY DEF Init, EnoughOwners, OwnersSatisfyThreshold, MultisigInitialized
<1> QED
  BY <1>1, OwnersStep, ControlTypeCorrect, PTL DEF Spec

(***************************************************************************)
(* From init_multisig on, the threshold is within reach of the owners and  *)
(* the owners within the limit, however thresholds are changed and owners  *)
(* added and removed.                                                      *)
(***************************************************************************)
THEOREM ThresholdStaysInReach == Spec => []OwnersSatisfyThreshold
<1>1. EnoughOwners => OwnersSatisfyThreshold
  BY DEF EnoughOwners
<1> QED
  BY <1>1, EnoughOwnersAlways, PTL

-----------------------------------------------------------------------------
\* What a step may do to the proposals.
Settling ==
  \A i \in DOMAIN proposals :
    /\ i \in DOMAIN proposals'
    /\ Settled(proposals[i]) => proposals'[i] = proposals[i]
    /\ OnlyApprovedOrExecuted(proposals[i], proposals'[i])

\* A proposal left alone is an open or a settled proposal left alone.
LEMMA SettlingIdle ==
  ASSUME TypeOK, NEW i \in DOMAIN proposals
  PROVE  OnlyApprovedOrExecuted(proposals[i], proposals[i])
<1>1. proposals[i] \in Proposal
  BY DEF TypeOK, MultisigTypeOK
<1>2. Len(proposals[i].approvals) \in Nat
  BY <1>1 DEF Proposal
<1>3. proposals[i] = [proposals[i] EXCEPT !.approvals = proposals[i].approvals,
                                        !.executed = proposals[i].executed]
  BY <1>1 DEF Proposal
<1> QED
  BY <1>2, <1>3 DEF OnlyApprovedOrExecuted

\* Approving adds one approval to one open proposal.
LEMMA ApproveSettling ==
  ASSUME TypeOK, NEW a \in Addresses, NEW i \in DOMAIN proposals, approve_action(a, i)
  PROVE  Settling
<1> SUFFICES ASSUME NEW j \in DOMAIN proposals
             PROVE  /\ j \in DOMAIN proposals'
                    /\ Settled(proposals[j]) => proposals'[j] = proposals[j]
                    /\ OnlyApprovedOrExecuted(proposals[j], proposals'[j])
  BY DEF Settling
<1>1. proposals' = [proposals EXCEPT ![i].approvals = Append(@, a)]
  BY DEF approve_action
<1>2. CASE j # i
  BY <1>1, <1>2, SettlingIdle
<1>3. CASE j = i
  <2>1. proposals[i] \in Proposal /\ now \in Nat
    BY DEF TypeOK, AdminTypeOK, MultisigTypeOK
  <2>2. proposals'[i] = [proposals[i] EXCEPT !.approvals = Append(@, a)]
    BY <1>1
  <2>3. ~Settled(proposals[i])
    BY <2>1 DEF approve_action, Open, Settled, Proposal
  <2>4. OnlyApprovedOrExecuted(proposals[i], proposals'[i])
    <3> DEFINE p == proposals[i]
               q == [p EXCEPT !.approvals = Append(@, a)]
    <3>1. q = [p EXCEPT !.approvals = q.approvals, !.executed = q.executed]
      BY <2>1 DEF Proposal
    <3>2. p.approvals \in Seq(Addresses) /\ q.approvals = Append(p.approvals, a)
      BY <2>1 DEF Proposal
    <3> QED
      BY <2>2, <3>1, <3>2 DEF OnlyApprovedOrExecuted
  <2> QED
    BY <1>1, <1>3, <2>3, <2>4
<1> QED
  BY <1>2, <1>3

\* Executing marks one open proposal.
LEMMA ExecuteSettling ==
  ASSUME TypeOK, NEW a \in Addresses, NEW i \in DOMAIN proposals, execute_action(a, i)
  PROVE  Settling
<1> SUFFICES ASSUME NEW j \in DOMAIN proposals
             PROVE  /\ j \in DOMAIN proposals'
                    /\ Settled(proposals[j]) => proposals'[j] = proposals[j]
                    /\ OnlyApprovedOrExecuted(proposals[j], proposals'[j])
  BY DEF Settling
<1>1. proposals' = [proposals EXCEPT ![i].executed = TRUE]
  BY DEF execute_action
<1>2. CASE j # i
  BY <1>1, <1>2, SettlingIdle
<1>3. CASE j = i
  <2>1. proposals[i] \in Proposal /\ now \in Nat
    BY DEF TypeOK, AdminTypeOK, MultisigTypeOK
  <2>2. proposals'[i] = [proposals[i] EXCEPT !.executed = TRUE]
    BY <1>1
  <2>3. ~Settled(proposals[i])
    BY <2>1 DEF execute_action, Open, Settled, Proposal
  <2>4. OnlyApprovedOrExecuted(proposals[i], proposals'[i])
    <3> DEFINE p == proposals[i]
               q == [p EXCEPT !.executed = TRUE]
    <3>1. q = [p EXCEPT !.approvals = q.approvals, !.executed = q.executed]
      BY <2>1 DEF Proposal
    <3>2. Len(p.approvals) \in Nat /\ q.approvals = p.approvals
      BY <2>1 DEF Proposal
    <3> QED
      BY <2>2, <3>1, <3>2 DEF OnlyApprovedOrExecuted
  <2> QED
    BY <1>1, <1>3, <2>3, <2>4
<1> QED
  BY <1>2, <1>3

(***************************************************************************)
(* Executed and expired proposals never change; open ones only gain        *)
(* approvals or are executed.                                              *)
(***************************************************************************)
THEOREM SettledProposalsFinal == Spec => SettledProposalsStay
<1>1. TypeOK /\ EnoughOwners /\ [Next]_vars =>
     [\A i \in DOMAIN proposals :
       /\ i \in DOMAIN proposals'
       /\ Settled(proposals[i]) => proposals'[i] = proposals[i]
       /\ OnlyApprovedOrExecuted(proposals[i], proposals'[i])]_vars
  <2> SUFFICES ASSUME TypeOK, EnoughOwners, Next PROVE Settling
    BY DEF Settling
  <2>1. CASE AdminNext \/ Tick
    <3>1. UNCHANGED proposals
      BY <2>1 DEF AdminNext, initialize, set_admin, propose_admin_rotation,
        accept_admin_rotation, cancel_admin_rotation, set_freeze, Tick, multisigVars
    <3> QED
      BY <3>1, SettlingIdle DEF Settling
  <2>2. ASSUME NEW a \in Addresses, NEW founders \in SUBSET Addresses, NEW t \in Thresholds,
               NEW d \in Durations, NEW q \in Quorums, init_multisig(a, founders, t, d, q)
        PROVE  Settling
    BY <2>2 DEF init_multisig, EnoughOwners, Settling
  <2>3. ASSUME NEW a \in Addresses, NEW action \in Proposable, propose_action(a, action)
        PROVE  Settling
    <3>1. PICK p : proposals' = Append(proposals, p)
      BY <2>3 DEF propose_action
    <3>2. \A j \in DOMAIN proposals : j \in DOMAIN proposals' /\ proposals'[j] = proposals[j]
      BY <3>1 DEF TypeOK, MultisigTypeOK
    <3> QED
      BY <3>2, SettlingIdle DEF Settling
  <2> QED
    BY <2>1, <2>2, <2>3, ApproveSettling, ExecuteSettling DEF Next, MultisigNext
<1> QED
  BY <1>1, ControlTypeCorrect, EnoughOwnersAlways, PTL DEF Spec, SettledProposalsStay

-----------------------------------------------------------------------------
\* A contract that is frozen or has owners has an admin: nobody can become the
\* first admin any more.
AdminExists == frozen \/ owners # {} => admin # NoAddress

\* Every step keeps it: no call removes the admin.
LEMMA AdminExistsStep == TypeOK /\ AdminExists /\ [Next]_vars => AdminExists'
<1> SUFFICES ASSUME TypeOK, AdminExists, [Next]_vars PROVE AdminExists'
  OBVIOUS
<1>1. CASE AdminNext
  BY <1>1, Addressing DEF AdminNext, initialize, set_admin, propose_admin_rotation,
    accept_admin_rotation, cancel_admin_rotation, set_freeze, multisigVars, AdminExists
<1>2. CASE Tick \/ UNCHANGED vars
  BY <1>2 DEF Tick, vars, multisigVars, AdminExists
<1>3. ASSUME NEW a \in Addresses, NEW i \in DOMAIN proposals, execute_action(a, i)
      PROVE  AdminExists'
  <2>1. proposals[i] \in Proposal
    BY DEF TypeOK, MultisigTypeOK
  <2>2. proposals[i].action \in ProposalAction
    BY <2>1 DEF Proposal
  <2>3. admin # NoAddress
    BY <1>3 DEF execute_action, AdminExists
  <2>4. admin' # NoAddress
    BY <1>3, <2>2, <2>3, ActionParts, Addressing DEF execute_action, Perform, SetAdmin,
      Freeze, SetThreshold, AddOwner, RemoveOwner, SetProposalDuration
  <2> QED
    BY <2>4 DEF AdminExists
<1>4. CASE \E a \in Addresses, founders \in SUBSET Addresses, t \in Thresholds,
              d \in Durations, q \in Quorums : init_multisig(a, founders, t, d, q)
  BY <1>4 DEF init_multisig, AdminExists
<1>5. CASE \E a \in Addresses, action \in Proposable : propose_action(a, action)
  BY <1>5 DEF propose_action, AdminExists
<1>6. CASE \E a \in Addresses, i \in DOMAIN proposals : approve_action(a, i)
  BY <1>6 DEF approve_action, AdminExists
<1> QED
  BY <1>1, <1>2, <1>3, <1>4, <1>5, <1>6 DEF Next, MultisigNext

\* It holds in every state.
LEMMA AdminExistsAlways == Spec => []AdminExists
<1>1. Init => AdminExists
  BY DEF Init, AdminExists
<1> QED
  BY <1>1, AdminExistsStep, ControlTypeCorrect, PTL DEF Spec

(***************************************************************************)
(* Nothing lifts a freeze; the rotation stops where it is, and only a      *)
(* proposal can still change the admin.                                    *)
(***************************************************************************)
THEOREM FreezeStopsRotation == Spec => FreezeEndsRotation
<1> DEFINE AdminVoted ==
      \E i \in DOMAIN proposals :
        /\ proposals[i].action = [kind |-> "SetAdmin", address |-> admin']
        /\ ~proposals[i].executed /\ proposals'[i].executed
<1>1. TypeOK /\ AdminExists /\ [Next]_vars =>
        [frozen => /\ frozen' /\ pendingAdmin' = pendingAdmin
                   /\ admin' # admin => AdminVoted]_vars
  <2> SUFFICES ASSUME TypeOK, AdminExists, Next, frozen
               PROVE  /\ frozen' /\ pendingAdmin' = pendingAdmin
                      /\ admin' # admin => AdminVoted
    OBVIOUS
  <2>1. ASSUME NEW a \in Addresses, NEW i \in DOMAIN proposals, execute_action(a, i)
        PROVE  /\ frozen' /\ pendingAdmin' = pendingAdmin
               /\ admin' # admin => AdminVoted
    <3>1. proposals[i] \in Proposal /\ i \in 1..Len(proposals)
      BY DEF TypeOK, MultisigTypeOK
    <3>2. proposals[i].action \in ProposalAction
      BY <3>1 DEF Proposal
    <3>3. /\ Perform(proposals[i].action) /\ pendingAdmin' = pendingAdmin
          /\ proposals' = [proposals EXCEPT ![i].executed = TRUE]
          /\ ~proposals[i].executed
      BY <2>1 DEF execute_action, Open
    <3>4. proposals'[i].executed
      BY <3>1, <3>3 DEF Proposal
    <3>5. frozen'
      BY <3>3 DEF Perform, SetAdmin, Freeze, SetThreshold, AddOwner, RemoveOwner,
        SetProposalDuration
    <3>6. admin' # admin => /\ proposals[i].action.kind = "SetAdmin"
                            /\ admin' = proposals[i].action.address
      BY <3>3 DEF Perform, SetAdmin, Freeze, SetThreshold, AddOwner, RemoveOwner,
        SetProposalDuration
    <3>7. admin' # admin => proposals[i].action = [kind |-> "SetAdmin", address |-> admin']
      BY <3>2, <3>6, ActionParts
    <3> QED
      BY <3>3, <3>4, <3>5, <3>7
  <2>2. CASE Tick \/ \E a \in Addresses, action \in Proposable : propose_action(a, action)
    BY <2>2 DEF Tick, propose_action
  <2>3. CASE \E a \in Addresses, i \in DOMAIN proposals : approve_action(a, i)
    BY <2>3 DEF approve_action
  <2>4. CASE \E a \in Addresses, founders \in SUBSET Addresses, t \in Thresholds,
                d \in Durations, q \in Quorums : init_multisig(a, founders, t, d, q)
    BY <2>4 DEF init_multisig
  <2>5. CASE AdminNext
    BY <2>5 DEF AdminNext, initialize, set_admin, propose_admin_rotation,
      accept_admin_rotation, cancel_admin_rotation, set_freeze, AdminExists
  <2> QED
    BY <2>1, <2>2, <2>3, <2>4, <2>5 DEF Next, MultisigNext
<1> QED
  BY <1>1, ControlTypeCorrect, AdminExistsAlways, PTL DEF Spec, FreezeEndsRotation
-----------------------------------------------------------------------------
(***************************************************************************)
(* Approvals and their weight                                              *)
(***************************************************************************)

Distinct(list) == \A j, k \in DOMAIN list : list[j] = list[k] => j = k

\* No address approves a proposal twice.
ApprovedOnce == \A i \in DOMAIN proposals : Distinct(proposals[i].approvals)

\* A step that keeps the approvals of the proposals there were.
LEMMA ApprovalsKept ==
  ASSUME ApprovedOnce,
         \A i \in DOMAIN proposals' :
           \/ i \in DOMAIN proposals /\ proposals'[i].approvals = proposals[i].approvals
           \/ Distinct(proposals'[i].approvals)
  PROVE  ApprovedOnce'
BY DEF ApprovedOnce, Distinct

LEMMA ApprovedOnceStep ==
  ASSUME TypeOK, ApprovedOnce, [Next]_vars
  PROVE  ApprovedOnce'
<1>1. CASE UNCHANGED proposals
  BY <1>1 DEF ApprovedOnce
<1>2. ASSUME proposals' = <<>>
      PROVE  ApprovedOnce'
  BY <1>2 DEF ApprovedOnce
<1>3. ASSUME NEW a \in Addresses, NEW action \in Proposable, propose_action(a, action)
      PROVE  ApprovedOnce'
  <2> DEFINE new == [action |-> action, approvals |-> <<a>>, executed |-> FALSE,
                     expiry |-> now + duration, quorum_bps |-> quorum]
  <2>1. proposals' = Append(proposals, new) /\ proposals \in Seq(Proposal)
    BY <1>3 DEF propose_action, TypeOK, MultisigTypeOK
  <2>2. new.approvals = <<a>> /\ Distinct(<<a>>)
    BY DEF Distinct
  <2> HIDE DEF new
  <2>3. ASSUME NEW i \in DOMAIN proposals'
        PROVE  \/ i \in DOMAIN proposals /\ proposals'[i] = proposals[i]
               \/ proposals'[i] = new
    BY <2>1
  <2> QED
    BY <2>2, <2>3, ApprovalsKept
<1>4. ASSUME NEW a \in Addresses, NEW i \in DOMAIN proposals, approve_action(a, i)
      PROVE  ApprovedOnce'
  <2> DEFINE old == proposals[i].approvals
             new == Append(old, a)
  <2>1. proposals[i] \in Proposal
    BY DEF TypeOK, MultisigTypeOK
  <2>2. old \in Seq(Addresses)
    BY <2>1 DEF Proposal
  <2>3. /\ proposals' = [proposals EXCEPT ![i].approvals = new]
        /\ \A k \in DOMAIN old : old[k] # a
    BY <1>4 DEF approve_action, HasApproved
  <2>4. Distinct(old)
    BY DEF ApprovedOnce
  <2>5. proposals'[i].approvals = new
    <3> HIDE DEF new
    <3> QED
      BY <2>1, <2>3 DEF Proposal
  <2>6. DOMAIN proposals' = DOMAIN proposals
        /\ \A j \in DOMAIN proposals \ {i} : proposals'[j] = proposals[j]
    BY <2>3
  <2> HIDE DEF old
  <2>7. Distinct(new)
    BY <2>2, <2>3, <2>4 DEF Distinct
  <2> HIDE DEF new
  <2> QED
    BY <2>5, <2>6, <2>7, ApprovalsKept
<1>5. ASSUME NEW a \in Addresses, NEW i \in DOMAIN proposals, execute_action(a, i)
      PROVE  ApprovedOnce'
  <2>1. proposals' = [proposals EXCEPT ![i].executed = TRUE]
    BY <1>5 DEF execute_action
  <2>2. proposals[i] \in Proposal
    BY DEF TypeOK, MultisigTypeOK
  <2>3. /\ DOMAIN proposals' = DOMAIN proposals
        /\ \A j \in DOMAIN proposals : proposals'[j].approvals = proposals[j].approvals
    BY <2>1, <2>2 DEF Proposal
  <2> QED
    BY <2>3, ApprovalsKept
<1>6. \/ UNCHANGED proposals \/ proposals' = <<>>
      \/ \E a \in Addresses, action \in Proposable : propose_action(a, action)
      \/ \E a \in Addresses, i \in DOMAIN proposals : approve_action(a, i) \/ execute_action(a, i)
  BY Zenon DEF Next, AdminNext, MultisigNext, initialize, set_admin, propose_admin_rotation,
    accept_admin_rotation, cancel_admin_rotation, set_freeze, init_multisig, Tick, vars,
    multisigVars
<1> QED
  BY <1>1, <1>2, <1>3, <1>4, <1>5, <1>6

LEMMA ApprovedOnceAlways == Spec => []ApprovedOnce
<1>1. Init => ApprovedOnce
  BY DEF Init, ApprovedOnce
<1>2. TypeOK /\ ApprovedOnce /\ [Next]_vars => ApprovedOnce'
  BY ApprovedOnceStep
<1> QED
  BY <1>1, <1>2, ControlTypeCorrect, PTL DEF Spec

\* A list without repetition is as long as it has members.
LEMMA CardinalityOfDistinct ==
  ASSUME NEW S, NEW list \in Seq(S), Distinct(list)
  PROVE  IsFiniteSet(Range(list)) /\ Cardinality(Range(list)) = Len(list)
<1>1. Len(list) \in Nat /\ DOMAIN list = 1 .. Len(list)
      /\ list = [k \in 1 .. Len(list) |-> list[k]]
  OBVIOUS
<1>2. list \in Bijection(1 .. Len(list), Range(list))
  BY <1>1 DEF Bijection, Injection, Surjection, IsInjective, Range, Distinct
<1>3. ExistsBijection(1 .. Len(list), Range(list))
  BY <1>2 DEF ExistsBijection
<1>4. IsFiniteSet(1 .. Len(list))
  <2>1. 1 \in Int /\ Len(list) \in Int
    BY <1>1
  <2> QED
    BY ONLY <2>1, RangeIsFinite
<1> QED
  BY <1>1, <1>3, <1>4, FS_Bijection, FS_CountingElements

\* Adding up along the list is adding up over its members.
LEMMA WeightOfDistinct ==
  ASSUME TypeOK, NEW p \in Proposal, Distinct(p.approvals)
  PROVE  VotedWeight(p) = WeightOf(Range(p.approvals))
<1> DEFINE list == p.approvals
           f == [k \in DOMAIN list |-> weight[list[k]]]
<1>1. list \in Seq(Addresses)
  BY DEF Proposal
<1>2. /\ IsFiniteSet(DOMAIN list)
      /\ \A k \in DOMAIN list : list[k] \in Addresses
  <2>1. DOMAIN list = 1 .. Len(list) /\ Len(list) \in Nat
    BY <1>1
  <2> QED
    BY <1>1, <2>1, RangeIsFinite
<1>3. weight \in [Addresses -> Nat]
  BY DEF TypeOK, MultisigTypeOK
<1> HIDE DEF list
<1>4. Renames(list, f, weight, DOMAIN list)
  BY <1>2, <1>3 DEF Renames, Distinct, list
<1>5. VotedWeight(p) = SumFunctionOnSet(f, DOMAIN list)
  BY DEF VotedWeight, SumFunction, list
<1> HIDE DEF f
<1>6. SumFunctionOnSet(f, DOMAIN list) = SumFunctionOnSet(weight, {list[k] : k \in DOMAIN list})
  BY <1>2, <1>4, SumOfRenamed
<1> QED
  BY <1>5, <1>6 DEF WeightOf, Range, list


\* An executed proposal was carried.
LEMMA ExecutedWasCarried ==
  ASSUME TypeOK, ApprovedOnce, NEW a \in Addresses, NEW i \in DOMAIN proposals,
         execute_action(a, i)
  PROVE  Carried(proposals[i])
<1> DEFINE p == proposals[i]
<1>1. p \in Proposal /\ Distinct(p.approvals)
  BY DEF TypeOK, MultisigTypeOK, ApprovedOnce
<1>2. p.approvals \in Seq(Addresses)
  BY <1>1 DEF Proposal
<1>3. /\ Open(p) /\ Len(p.approvals) >= threshold /\ check_quorum_inner(p)
  BY DEF execute_action
<1> HIDE DEF p
<1>4. Cardinality(Range(p.approvals)) = Len(p.approvals)
  BY <1>1, <1>2, CardinalityOfDistinct
<1>5. WeightOf(Range(p.approvals)) = VotedWeight(p)
  BY <1>1, WeightOfDistinct
<1>6. Carried(p)
  BY <1>3, <1>4, <1>5 DEF Open, check_quorum_inner, Carried
<1> QED
  BY <1>6 DEF p

\* Performing an action changes what it asks for and nothing else.
LEMMA PerformsWhatIsAsked ==
  ASSUME TypeOK, NEW action \in ProposalAction, Perform(action)
  PROVE  ChangeAskedFor(action)
<1> USE DEF Perform, SetAdmin, Freeze, SetThreshold, AddOwner, RemoveOwner, SetProposalDuration
<1>1. owners' = CASE action.kind = "AddOwner" -> owners \cup {action.address}
                  [] action.kind = "RemoveOwner" -> owners \ {action.address}
                  [] OTHER -> owners
  OBVIOUS
<1>2. threshold' = IF action.kind = "SetThreshold" THEN action.value ELSE threshold
  OBVIOUS
<1>3. duration' = IF action.kind = "SetProposalDuration" THEN action.value ELSE duration
  OBVIOUS
<1>4. frozen' = (frozen \/ action.kind = "Freeze")
  <2>1. CASE action.kind = "Freeze"
    <3>1. frozen' = TRUE
      BY <2>1
    <3> QED
      BY <2>1, <3>1, Zenon
  <2>2. CASE action.kind # "Freeze"
    <3>1. frozen' = frozen
      BY <2>2
    <3>2. frozen \in BOOLEAN
      BY DEF TypeOK, AdminTypeOK
    <3> QED
      BY <2>2, <3>1, <3>2, Zenon
  <2> QED
    BY <2>1, <2>2
<1> QED
  BY <1>1, <1>2, <1>3, <1>4, Zenon DEF ChangeAskedFor

\* The execution of one carried proposal that asks for the change.
VotedChange ==
  \E i \in DOMAIN proposals :
    /\ ~proposals[i].executed /\ proposals'[i].executed
    /\ Carried(proposals[i])
    /\ ChangeAskedFor(proposals[i].action)

LEMMA ExecuteIsVoted ==
  ASSUME TypeOK, ApprovedOnce, NEW a \in Addresses, NEW i \in DOMAIN proposals,
         execute_action(a, i)
  PROVE  VotedChange
<1>1. proposals[i] \in Proposal
  BY DEF TypeOK, MultisigTypeOK
<1>2. proposals[i].action \in ProposalAction
  BY <1>1 DEF Proposal
<1>3. /\ Perform(proposals[i].action) /\ ~proposals[i].executed
      /\ proposals' = [proposals EXCEPT ![i].executed = TRUE]
  BY DEF execute_action, Open
<1>4. proposals'[i].executed
  BY <1>1, <1>3 DEF Proposal
<1> QED
  BY <1>2, <1>3, <1>4, ExecutedWasCarried, PerformsWhatIsAsked DEF VotedChange

(***************************************************************************)
(* Once there is a multisig, its owners, threshold and duration and the    *)
(* freeze change only by executing one open proposal that asks for the     *)
(* change, approved by as many different addresses as the threshold asks   *)
(* and with the quorum pinned at its creation.  The code counts the list   *)
(* of approvals and adds weights along it; that no address is in a list    *)
(* twice makes this a count of addresses and a sum over them.              *)
(***************************************************************************)
THEOREM ChangesAreAlwaysVoted == Spec => ChangesAreVoted
<1>1. TypeOK /\ ApprovedOnce /\ [Next]_vars =>
        [MultisigInitialized /\ ~UNCHANGED <<owners, threshold, duration, frozen>> =>
           VotedChange]_vars
  <2> SUFFICES ASSUME TypeOK, ApprovedOnce, Next, MultisigInitialized,
                      ~UNCHANGED <<owners, threshold, duration, frozen>>
               PROVE  VotedChange
    OBVIOUS
  <2>1. \E a \in Addresses, i \in DOMAIN proposals : execute_action(a, i)
    BY Zenon DEF Next, AdminNext, MultisigNext, initialize, set_admin,
      propose_admin_rotation, accept_admin_rotation, cancel_admin_rotation, set_freeze,
      init_multisig, propose_action, approve_action, Tick, multisigVars
  <2> QED
    BY <2>1, ExecuteIsVoted
<1> QED
  BY <1>1, ControlTypeCorrect, ApprovedOnceAlways, PTL DEF Spec, ChangesAreVoted, VotedChange

-----------------------------------------------------------------------------
(***************************************************************************)
(* The lockout                                                             *)
(***************************************************************************)

\* More addresses have no fewer votes.
LEMMA WeightOfMore ==
  ASSUME TypeOK, NEW T \in SUBSET Addresses, NEW S \in SUBSET T
  PROVE  /\ WeightOf(S) \in Nat /\ WeightOf(T) \in Nat
         /\ WeightOf(S) <= WeightOf(T)
<1>1. IsFiniteSet(S) /\ IsFiniteSet(T)
  BY Addressing, FS_Subset
<1>2. \A a \in T : weight[a] \in Nat
  BY DEF TypeOK, MultisigTypeOK
<1>3. WeightOf(S) \in Nat
  BY <1>1, <1>2, SumOfNaturals DEF WeightOf
<1>4. WeightOf(T) \in Nat
  BY <1>1, <1>2, SumOfNaturals DEF WeightOf
<1>5. WeightOf(S) <= WeightOf(T)
  BY <1>1, <1>2, SumOfPart DEF WeightOf
<1> QED
  BY <1>3, <1>4, <1>5

\* The addresses on a list of approvals.
LEMMA ApproversAreAddresses ==
  ASSUME NEW p \in Proposal
  PROVE  Range(p.approvals) \in SUBSET Addresses
<1>1. p.approvals \in Seq(Addresses)
  BY DEF Proposal
<1> QED
  BY <1>1 DEF Range

\* No open proposal of a locked-out multisig has its quorum.
LEMMA LockedOutRefuses ==
  ASSUME TypeOK, ApprovedOnce, LockedOut, NEW a \in Addresses, NEW i \in DOMAIN proposals,
         execute_action(a, i)
  PROVE  FALSE
<1> DEFINE p == proposals[i]
           voters == Range(p.approvals)
<1>1. p \in Proposal /\ now \in Nat /\ owners \in SUBSET Addresses
  BY DEF TypeOK, AdminTypeOK, MultisigTypeOK
<1>2. Carried(p) /\ ~p.executed
  BY ExecutedWasCarried DEF execute_action, Open
<1>3. p.expiry \in Nat /\ p.quorum_bps \in Nat
  BY <1>1 DEF Proposal
<1>4. ~Settled(p)
  BY <1>1, <1>2, <1>3 DEF Carried, Settled
<1>5. WeightOf(owners \cup voters) < p.quorum_bps
  BY <1>4 DEF LockedOut
<1>6. WeightOf(voters) >= p.quorum_bps
  BY <1>2 DEF Carried
<1> HIDE DEF p
<1>7. voters \in SUBSET Addresses
  BY <1>1, ApproversAreAddresses
<1> HIDE DEF voters
<1>8. /\ WeightOf(voters) \in Nat /\ WeightOf(owners \cup voters) \in Nat
      /\ WeightOf(voters) <= WeightOf(owners \cup voters)
  BY <1>1, <1>7, WeightOfMore
<1> QED
  BY <1>3, <1>5, <1>6, <1>8

\* The proposal q is p with, at most, more owners among its approvers.
SameVotes(p, q) ==
  /\ q.executed = p.executed /\ q.expiry = p.expiry /\ q.quorum_bps = p.quorum_bps
  /\ owners \cup Range(q.approvals) = owners \cup Range(p.approvals)

\* A step that gives no proposal a vote that is not its owners'.
LEMMA LockoutKept ==
  ASSUME TypeOK, LockedOut, UNCHANGED <<owners, threshold, weight, quorum>>,
         now' \in Nat, now' >= now, \A i \in DOMAIN proposals : proposals[i] \in Proposal,
         \A i \in DOMAIN proposals' :
           \/ i \in DOMAIN proposals /\ SameVotes(proposals[i], proposals'[i])
           \/ /\ proposals'[i].quorum_bps = quorum
              /\ Range(proposals'[i].approvals) \subseteq owners
  PROVE  LockedOut'
<1>1. MultisigInitialized' /\ WeightOf(owners)' < quorum'
  BY DEF LockedOut, MultisigInitialized, WeightOf
<1>2. ASSUME NEW i \in DOMAIN proposals', ~Settled(proposals[i])'
      PROVE  SumFunctionOnSet(weight, owners \cup Range(proposals'[i].approvals))
               < proposals'[i].quorum_bps
  <2>1. CASE i \in DOMAIN proposals /\ SameVotes(proposals[i], proposals'[i])
    <3>1. proposals[i].expiry \in Nat /\ now \in Nat
      BY <2>1 DEF Proposal, TypeOK, AdminTypeOK
    <3>2. ~Settled(proposals[i])
      BY <1>2, <2>1, <3>1 DEF SameVotes, Settled
    <3> QED
      BY <2>1, <3>2 DEF SameVotes, LockedOut, WeightOf
  <2>2. CASE /\ proposals'[i].quorum_bps = quorum
             /\ Range(proposals'[i].approvals) \subseteq owners
    <3>1. owners \cup Range(proposals'[i].approvals) = owners
      BY <2>2
    <3> QED
      BY <2>2, <3>1 DEF LockedOut, WeightOf
  <2> QED
    BY <2>1, <2>2
<1> QED
  BY <1>1, <1>2 DEF LockedOut, WeightOf

\* A step that touches neither the votes nor the clock.
LEMMA LockoutIdle ==
  ASSUME TypeOK, LockedOut, UNCHANGED <<owners, threshold, weight, quorum, proposals>>,
         now' \in Nat, now' >= now
  PROVE  LockedOut'
<1>1. \A i \in DOMAIN proposals : proposals[i] \in Proposal
  BY DEF TypeOK, MultisigTypeOK
<1>2. \A i \in DOMAIN proposals' :
        i \in DOMAIN proposals /\ SameVotes(proposals[i], proposals'[i])
  BY DEF SameVotes
<1> QED
  BY <1>1, <1>2, LockoutKept

\* A new proposal has the vote of an owner, and the quorum of the moment.
LEMMA ProposeLockout ==
  ASSUME TypeOK, LockedOut, NEW a \in Addresses, NEW action \in Proposable,
         propose_action(a, action)
  PROVE  LockedOut'
<1> DEFINE new == [action |-> action, approvals |-> <<a>>, executed |-> FALSE,
                   expiry |-> now + duration, quorum_bps |-> quorum]
<1>1. /\ proposals' = Append(proposals, new) /\ a \in owners
      /\ UNCHANGED <<now, owners, threshold, weight, quorum>>
  BY DEF propose_action, ballotVars
<1>2. proposals \in Seq(Proposal) /\ now \in Nat
  BY DEF TypeOK, AdminTypeOK, MultisigTypeOK
<1>3. new.quorum_bps = quorum /\ Range(new.approvals) \subseteq owners
  BY <1>1 DEF Range
<1> HIDE DEF new
<1>4. ASSUME NEW i \in DOMAIN proposals'
      PROVE  \/ i \in DOMAIN proposals /\ proposals'[i] = proposals[i]
             \/ proposals'[i] = new
  BY <1>1, <1>2
<1>5. ASSUME NEW i \in DOMAIN proposals'
      PROVE  \/ i \in DOMAIN proposals /\ SameVotes(proposals[i], proposals'[i])
             \/ /\ proposals'[i].quorum_bps = quorum
                /\ Range(proposals'[i].approvals) \subseteq owners
  BY <1>3, <1>4 DEF SameVotes
<1>6. now' \in Nat /\ now' >= now
  BY <1>1, <1>2
<1>7. \A i \in DOMAIN proposals : proposals[i] \in Proposal
  BY <1>2
<1> QED
  BY <1>1, <1>5, <1>6, <1>7, LockoutKept

\* An approval is the vote of an owner.
LEMMA ApproveLockout ==
  ASSUME TypeOK, LockedOut, NEW a \in Addresses, NEW i \in DOMAIN proposals,
         approve_action(a, i)
  PROVE  LockedOut'
<1> DEFINE old == proposals[i].approvals
           new == Append(old, a)
<1>1. /\ proposals' = [proposals EXCEPT ![i].approvals = new] /\ a \in owners
      /\ UNCHANGED <<now, owners, threshold, weight, quorum>>
  BY DEF approve_action, ballotVars
<1>2. (\A j \in DOMAIN proposals : proposals[j] \in Proposal) /\ now \in Nat
  BY DEF TypeOK, AdminTypeOK, MultisigTypeOK
<1>3. old \in Seq(Addresses)
  BY <1>2 DEF Proposal
<1> HIDE DEF old
<1>4. owners \cup Range(new) = owners \cup Range(old)
  BY <1>1, <1>3 DEF Range
<1> HIDE DEF new
<1>5. SameVotes(proposals[i], proposals'[i])
  <2>1. /\ proposals'[i].approvals = new
        /\ proposals'[i].executed = proposals[i].executed
        /\ proposals'[i].expiry = proposals[i].expiry
        /\ proposals'[i].quorum_bps = proposals[i].quorum_bps
    BY <1>1, <1>2 DEF Proposal
  <2> QED
    BY <1>4, <2>1 DEF SameVotes, old
<1>6. ASSUME NEW j \in DOMAIN proposals'
      PROVE  j \in DOMAIN proposals /\ SameVotes(proposals[j], proposals'[j])
  <2>1. CASE j = i
    BY <1>1, <1>5, <2>1
  <2>2. CASE j # i
    BY <1>1, <2>2 DEF SameVotes
  <2> QED
    BY <2>1, <2>2
<1>7. now' \in Nat /\ now' >= now
  BY <1>1, <1>2
<1> QED
  BY <1>1, <1>2, <1>6, <1>7, LockoutKept

LEMMA LockoutStep ==
  ASSUME TypeOK, ApprovedOnce, LockedOut, [Next]_vars
  PROVE  LockedOut' /\ UNCHANGED <<owners, threshold, duration>>
<1>1. now \in Nat
  BY DEF TypeOK, AdminTypeOK
<1>2. CASE AdminNext \/ Tick \/ UNCHANGED vars
  <2>1. UNCHANGED <<owners, threshold, duration, weight, quorum, proposals>>
    BY <1>2 DEF AdminNext, initialize, set_admin, propose_admin_rotation,
      accept_admin_rotation, cancel_admin_rotation, set_freeze, Tick, vars, multisigVars,
      ballotVars
  <2>2. now' \in Nat /\ now' >= now
    BY <1>1, <1>2 DEF AdminNext, initialize, set_admin, propose_admin_rotation,
      accept_admin_rotation, cancel_admin_rotation, set_freeze, Tick, vars
  <2> QED
    BY <2>1, <2>2, LockoutIdle
<1>3. ASSUME NEW a \in Addresses, NEW founders \in SUBSET Addresses, NEW t \in Thresholds,
             NEW d \in Durations, NEW q \in Quorums, init_multisig(a, founders, t, d, q)
      PROVE  FALSE
  BY <1>3 DEF init_multisig, LockedOut
<1>4. ASSUME NEW a \in Addresses, NEW action \in Proposable, propose_action(a, action)
      PROVE  LockedOut' /\ UNCHANGED <<owners, threshold, duration>>
  BY <1>4, ProposeLockout DEF propose_action
<1>5. ASSUME NEW a \in Addresses, NEW i \in DOMAIN proposals, approve_action(a, i)
      PROVE  LockedOut' /\ UNCHANGED <<owners, threshold, duration>>
  BY <1>5, ApproveLockout DEF approve_action
<1> QED
  BY <1>2, <1>3, <1>4, <1>5, LockedOutRefuses DEF Next, MultisigNext

(***************************************************************************)
(* When neither the owners of the moment nor they and the approvers of any *)
(* open proposal have the votes for its quorum, the multisig is stuck for  *)
(* good: its owners, threshold and duration never change again, since      *)
(* votes are dealt out at init_multisig only and a removed owner's are     *)
(* lost.                                                                   *)
(***************************************************************************)
THEOREM LockoutLasts == Spec => LockoutIsFinal
<1>1. TypeOK /\ ApprovedOnce /\ [Next]_vars =>
        [LockedOut => LockedOut' /\ UNCHANGED <<owners, threshold, duration>>]_vars
  BY LockoutStep
<1> QED
  BY <1>1, ControlTypeCorrect, ApprovedOnceAlways, PTL DEF Spec, LockoutIsFinal

-----------------------------------------------------------------------------
(***************************************************************************)
(* The multisig as a council                                               *)
(***************************************************************************)

\* The quorum never changes after the founding and is pinned in every proposal,
\* and a proposal made now stays open for a while.
PinnedQuorum ==
  /\ MultisigInitialized => duration > 0 /\ quorum > 0
  /\ \A i \in DOMAIN proposals : proposals[i].quorum_bps = quorum

\* A step that leaves the durations and the pinned quorums alone.
LEMMA PinnedQuorumKept ==
  ASSUME PinnedQuorum, UNCHANGED quorum,
         MultisigInitialized' => MultisigInitialized,
         MultisigInitialized => duration' > 0,
         \A i \in DOMAIN proposals' :
           \/ i \in DOMAIN proposals /\ proposals'[i].quorum_bps = proposals[i].quorum_bps
           \/ proposals'[i].quorum_bps = quorum
  PROVE  PinnedQuorum'
<1>1. (MultisigInitialized => duration > 0 /\ quorum > 0)'
  BY DEF PinnedQuorum
<1>2. (\A i \in DOMAIN proposals : proposals[i].quorum_bps = quorum)'
  BY DEF PinnedQuorum
<1> QED
  BY <1>1, <1>2 DEF PinnedQuorum

\* Every step keeps it.
LEMMA PinnedQuorumStep ==
  ASSUME TypeOK, EnoughOwners, PinnedQuorum, [Next]_vars
  PROVE  PinnedQuorum'
<1>1. CASE AdminNext \/ Tick \/ UNCHANGED vars
  <2>1. UNCHANGED <<threshold, duration, quorum, proposals>>
    BY <1>1 DEF AdminNext, initialize, set_admin, propose_admin_rotation,
      accept_admin_rotation, cancel_admin_rotation, set_freeze, Tick, vars, multisigVars, ballotVars
  <2> QED
    BY <2>1 DEF PinnedQuorum, MultisigInitialized
<1>2. ASSUME NEW a \in Addresses, NEW founders \in SUBSET Addresses, NEW t \in Thresholds,
             NEW d \in Durations, NEW q \in Quorums, init_multisig(a, founders, t, d, q)
      PROVE  PinnedQuorum'
  <2>1. /\ proposals' = <<>> /\ duration' = d /\ quorum' = q
        /\ d \in 1..MAX_PROPOSAL_DURATION /\ q \in 1..FULL_BPS
    BY <1>2 DEF init_multisig
  <2>2. duration' > 0 /\ quorum' > 0
    BY <2>1, Limits, Inputs
  <2> QED
    BY <2>1, <2>2 DEF PinnedQuorum
<1>3. ASSUME NEW a \in Addresses, NEW action \in Proposable, propose_action(a, action)
      PROVE  PinnedQuorum'
  <2> DEFINE new == [action |-> action, approvals |-> <<a>>, executed |-> FALSE,
                     expiry |-> now + duration, quorum_bps |-> quorum]
  <2>1. proposals' = Append(proposals, new) /\ proposals \in Seq(Proposal)
        /\ UNCHANGED <<threshold, duration, quorum>>
    BY <1>3 DEF propose_action, ballotVars, TypeOK, MultisigTypeOK
  <2>2. new.quorum_bps = quorum
    OBVIOUS
  <2> HIDE DEF new
  <2>3. ASSUME NEW i \in DOMAIN proposals'
        PROVE  \/ i \in DOMAIN proposals /\ proposals'[i] = proposals[i]
               \/ proposals'[i] = new
    BY <2>1
  <2> QED
    BY <2>1, <2>2, <2>3, PinnedQuorumKept DEF PinnedQuorum, MultisigInitialized
<1>4. ASSUME NEW a \in Addresses, NEW i \in DOMAIN proposals, approve_action(a, i)
      PROVE  PinnedQuorum'
  <2>1. proposals[i] \in Proposal
    BY DEF TypeOK, MultisigTypeOK
  <2>2. /\ DOMAIN proposals' = DOMAIN proposals
        /\ \A j \in DOMAIN proposals : proposals'[j].quorum_bps = proposals[j].quorum_bps
    BY <1>4, <2>1 DEF approve_action, Proposal
  <2>3. UNCHANGED <<threshold, duration, quorum>>
    BY <1>4 DEF approve_action, ballotVars
  <2> QED
    BY <2>2, <2>3, PinnedQuorumKept DEF PinnedQuorum, MultisigInitialized
<1>5. ASSUME NEW a \in Addresses, NEW i \in DOMAIN proposals, execute_action(a, i)
      PROVE  PinnedQuorum'
  <2>1. proposals[i] \in Proposal
    BY DEF TypeOK, MultisigTypeOK
  <2>2. /\ DOMAIN proposals' = DOMAIN proposals
        /\ \A j \in DOMAIN proposals : proposals'[j].quorum_bps = proposals[j].quorum_bps
    BY <1>5, <2>1 DEF execute_action, Proposal
  <2>3. UNCHANGED quorum /\ Perform(proposals[i].action)
    BY <1>5 DEF execute_action, ballotVars
  <2>4. MultisigInitialized
    BY <1>5 DEF execute_action, EnoughOwners
  <2>5. duration > 0
    BY <2>4 DEF PinnedQuorum
  <2>6. duration' > 0
    BY <2>3, <2>5 DEF Perform, SetAdmin, Freeze, SetThreshold, AddOwner, RemoveOwner,
      SetProposalDuration
  <2> QED
    BY <2>2, <2>3, <2>4, <2>6, PinnedQuorumKept
<1> QED
  BY <1>1, <1>2, <1>3, <1>4, <1>5 DEF Next, MultisigNext

LEMMA PinnedQuorumAlways == Spec => []PinnedQuorum
<1>1. Init => PinnedQuorum
  BY DEF Init, PinnedQuorum, MultisigInitialized
<1>2. TypeOK /\ EnoughOwners /\ PinnedQuorum /\ [Next]_vars => PinnedQuorum'
  BY PinnedQuorumStep
<1> QED
  BY <1>1, <1>2, ControlTypeCorrect, EnoughOwnersAlways, PTL DEF Spec

\* The two modules count alike.
LEMMA CouncilCounts ==
  ASSUME NEW S
  PROVE  Council!Cardinality(S) = Cardinality(S)
BY DEF Cardinality, Council!Cardinality

\* Only founders have votes, and more addresses have no fewer.
LEMMA FoundersDecideAlone ==
  ASSUME NEW founders \in SUBSET Addresses, Cardinality(founders) \in Nat \ {0},
         NEW q \in Nat \ {0}
  PROVE  Council!FoundersDecide([weight |-> FoundersWeight(founders), quorum |-> q], founders)
<1> DEFINE w == FoundersWeight(founders)
           Sum(S) == SumFunctionOnSet(w, S)
<1>1. /\ \A a \in Addresses : w[a] \in Nat
      /\ \A a \in Addresses \ founders : w[a] = 0
  BY FoundersWeightType DEF FoundersWeight
<1> HIDE DEF w
<1>2. Sum({}) = 0
  BY SumOfNone
<1>3. ASSUME NEW S \in SUBSET Addresses
      PROVE  Sum(S) \in Nat /\ Sum(S) = Sum(S \cap founders)
  <2> DEFINE in == S \cap founders
             out == S \ founders
  <2>1. IsFiniteSet(S) /\ IsFiniteSet(in) /\ IsFiniteSet(out)
    BY Addressing, FS_Subset
  <2>2. /\ in \cap out = {} /\ S = in \cup out
        /\ \A a \in in : w[a] \in Nat
        /\ \A a \in out : w[a] = 0
    BY <1>1
  <2> HIDE DEF in, out
  <2>3. Sum(in) \in Nat
    BY <2>1, <2>2, SumOfNaturals
  <2>4. Sum(out) = 0
    BY <2>1, <2>2, SumOfZeros
  <2>5. \A a \in in \cup out : w[a] \in Int
    BY <2>2
  <2>6. Sum(in \cup out) = Sum(in) + Sum(out)
    BY <2>1, <2>2, <2>5, SumOfUnion
  <2> HIDE DEF Sum
  <2>7. Sum(S) = Sum(in)
    BY <2>2, <2>3, <2>4, <2>6
  <2> QED
    BY <2>3, <2>7 DEF in
<1>4. ASSUME NEW T \in SUBSET Addresses, NEW S \in SUBSET T
      PROVE  Sum(S) <= Sum(T)
  <2>1. IsFiniteSet(T) /\ \A a \in T : w[a] \in Nat
    BY <1>1, Addressing, FS_Subset
  <2> QED
    BY <2>1, SumOfPart
<1> DEFINE deal == [weight |-> w, quorum |-> q]
<1>5. \A S : VotesSuffice(deal, S) <=> Sum(S) >= q
  BY DEF VotesSuffice
<1> HIDE DEF Sum, deal
<1>6. ~VotesSuffice(deal, {})
  BY <1>2, <1>5
<1>7. \A S \in SUBSET Addresses : VotesSuffice(deal, S) <=> VotesSuffice(deal, S \cap founders)
  BY <1>3, <1>5
<1>8. ASSUME NEW T \in SUBSET Addresses, NEW S \in SUBSET T, VotesSuffice(deal, S)
      PROVE  VotesSuffice(deal, T)
  <2>1. Sum(S) \in Nat /\ Sum(T) \in Nat /\ Sum(S) <= Sum(T)
    BY <1>3, <1>4
  <2>2. Sum(S) >= q
    BY <1>5, <1>8
  <2>3. Sum(T) >= q
    BY <2>1, <2>2
  <2> QED
    BY <1>5, <2>3
<1>9. Council!FoundersDecide(deal, founders)
  BY <1>6, <1>7, <1>8 DEF Council!FoundersDecide
<1> QED
  BY <1>9 DEF deal, w

\* Founding the multisig founds the council.
LEMMA InitFounds ==
  ASSUME TypeOK, EnoughOwners, NEW a \in Addresses, NEW founders \in SUBSET Addresses,
         NEW t \in Thresholds, NEW d \in Durations, NEW q \in Quorums,
         init_multisig(a, founders, t, d, q)
  PROVE  Council!Found
<1>1. /\ threshold' = t /\ owners' = founders /\ duration' = d /\ quorum' = q
      /\ proposals' = <<>> /\ weight' = FoundersWeight(founders)
      /\ UNCHANGED <<now, admin, frozen>>
  BY DEF init_multisig
<1>2. /\ Cardinality(founders) \in Nat \ {0}
      /\ t \in 1..Cardinality(founders)
      /\ d > 0 /\ q \in Nat \ {0}
  BY Inputs, Limits DEF init_multisig
<1>3. threshold = 0 /\ proposals = <<>>
  BY DEF init_multisig, EnoughOwners, TypeOK, MultisigTypeOK, MultisigInitialized
<1>4. Council!InReach'
  BY <1>1, <1>2, CouncilCounts DEF Council!InReach
<1>5. Council!FoundersDecide([weight |-> FoundersWeight(founders), quorum |-> q], founders)
  BY <1>2, FoundersDecideAlone
<1>6. Council!FoundersDecide([weight |-> weight', quorum |-> quorum'], owners')
  BY <1>1, <1>5
<1>7. UNCHANGED Council!docket
  BY <1>1, <1>3 DEF Council!docket, Motions, Backers
<1> QED
  BY <1>1, <1>2, <1>3, <1>4, <1>6, <1>7 DEF Council!Found

OpenMotions == {i \in DOMAIN proposals : ~Settled(proposals[i])}

CarriedMotions == {i \in DOMAIN proposals : proposals[i].executed}

\* Steps that leave the proposals alone in time leave the docket alone.
LEMMA DocketIdle ==
  ASSUME UNCHANGED <<now, proposals>>
  PROVE  UNCHANGED Council!docket
BY DEF Council!docket, Motions, Backers, Settled

\* The admin's own calls are succession or a freeze before the founding.
LEMMA AdminIsHead ==
  ASSUME TypeOK, AdminExists, AdminNext
  PROVE  Council!Succeed \/ Council!FreezeAlone \/ UNCHANGED Council!vars
<1>1. UNCHANGED <<now, proposals, owners, threshold, duration, weight, quorum>>
  BY DEF AdminNext, initialize, set_admin, propose_admin_rotation, accept_admin_rotation,
    cancel_admin_rotation, set_freeze, multisigVars, ballotVars
<1>2. UNCHANGED Council!docket
  BY <1>1, DocketIdle
<1>3. CASE set_freeze
  <2>1. threshold = 0 /\ frozen' = TRUE /\ UNCHANGED admin
    BY <1>3 DEF set_freeze, MultisigInitialized, TypeOK, MultisigTypeOK
  <2> QED
    BY <1>1, <1>2, <2>1 DEF Council!FreezeAlone
<1>4. CASE \E a \in Addresses : initialize(a) \/ accept_admin_rotation(a)
  <2>1. ~frozen /\ admin' \in Addresses /\ UNCHANGED frozen
    BY <1>4 DEF initialize, accept_admin_rotation, AdminExists
  <2> QED
    BY <1>1, <1>2, <2>1 DEF Council!Succeed
<1>5. CASE cancel_admin_rotation \/ \E a \in Addresses : propose_admin_rotation(a)
  <2>1. UNCHANGED <<admin, frozen>>
    BY <1>5 DEF cancel_admin_rotation, propose_admin_rotation
  <2> QED
    BY <1>1, <1>2, <2>1 DEF Council!vars, Council!body
<1> QED
  BY <1>3, <1>4, <1>5 DEF AdminNext, set_admin

\* A proposal is a new motion, open and backed by its proposer.
LEMMA ProposalIsFiled ==
  ASSUME TypeOK, EnoughOwners, PinnedQuorum, NEW a \in Addresses, NEW action \in Proposable,
         propose_action(a, action)
  PROVE  Council!File
<1> DEFINE new == [action |-> action, approvals |-> <<a>>, executed |-> FALSE,
                   expiry |-> now + duration, quorum_bps |-> quorum]
           n == Len(proposals)
<1>1. /\ proposals' = Append(proposals, new) /\ proposals \in Seq(Proposal)
      /\ a \in owners
      /\ UNCHANGED <<now, owners, threshold, duration, frozen, admin, weight, quorum>>
  BY DEF propose_action, ballotVars, TypeOK, MultisigTypeOK
<1>2. duration > 0 /\ duration \in Nat /\ now \in Nat
  BY <1>1 DEF EnoughOwners, PinnedQuorum, TypeOK, MultisigTypeOK, AdminTypeOK
<1>3. /\ new.action = action /\ Range(new.approvals) = {a} /\ ~new.executed
      /\ now < new.expiry /\ new.expiry \in Nat
  BY <1>2 DEF Range
<1> HIDE DEF new
<1>4. /\ n \in Nat /\ DOMAIN proposals = 1..n /\ DOMAIN proposals' = 1..(n + 1)
      /\ \A i \in 1..n : proposals'[i] = proposals[i]
      /\ proposals'[n + 1] = new
  BY <1>1
<1> HIDE DEF n
<1>5. ~new.executed /\ ~(now' >= new.expiry)
  BY <1>1, <1>2, <1>3
<1>6. Motions' = Append(Motions, action)
  BY <1>3, <1>4 DEF Motions
<1>7. Backers' = Append(Backers, {a})
  BY <1>3, <1>4 DEF Backers
<1>8. OpenMotions' = OpenMotions \cup {Len(Motions) + 1}
  <2>1. Len(Motions) = n
    BY <1>4 DEF Motions
  <2>2. OpenMotions' =
          {i \in 1..(n + 1) : ~(proposals'[i].executed \/ now' >= proposals'[i].expiry)}
    BY <1>4 DEF OpenMotions, Settled
  <2>3. OpenMotions = {i \in 1..n : ~(proposals[i].executed \/ now >= proposals[i].expiry)}
    BY <1>4 DEF OpenMotions, Settled
  <2> QED
    BY <1>1, <1>4, <1>5, <2>1, <2>2, <2>3
<1>9. UNCHANGED CarriedMotions
  BY <1>3, <1>4 DEF CarriedMotions
<1>10. Len(Motions) + 1 \in DOMAIN Motions' /\ Motions'[Len(Motions) + 1] = action
  <2>1. Motions \in Seq({proposals[i].action : i \in 1..n})
    BY <1>4 DEF Motions
  <2> QED
    BY <1>6, <2>1
<1> QED
  BY <1>1, <1>6, <1>7, <1>8, <1>9, <1>10
  DEF Council!File, Council!body, OpenMotions, CarriedMotions

\* An approval backs an open motion.
LEMMA ApprovalBacks ==
  ASSUME TypeOK, NEW a \in Addresses, NEW i \in DOMAIN proposals, approve_action(a, i)
  PROVE  i \in OpenMotions /\ Council!Back(i)
<1> DEFINE p == proposals[i]
           q == [p EXCEPT !.approvals = Append(@, a)]
<1>1. p \in Proposal /\ now \in Nat
  BY DEF TypeOK, MultisigTypeOK, AdminTypeOK
<1>2. /\ a \in owners /\ Open(p) /\ ~HasApproved(a, p)
      /\ proposals' = [proposals EXCEPT ![i] = q]
      /\ UNCHANGED <<now, owners, threshold, duration, frozen, admin, weight, quorum>>
  BY DEF approve_action, ballotVars
<1>3. p.approvals \in Seq(Addresses) /\ p.expiry \in Nat
  BY <1>1 DEF Proposal
<1>4. /\ q.action = p.action /\ q.executed = p.executed /\ q.expiry = p.expiry
      /\ q.approvals = Append(p.approvals, a)
  BY <1>1 DEF Proposal
<1>5. a \notin Range(p.approvals)
  BY <1>2 DEF HasApproved, Range
<1>6. Range(q.approvals) = Range(p.approvals) \cup {a}
  BY <1>3, <1>4 DEF Range
<1>7. ~Settled(p)
  BY <1>1, <1>2, <1>3 DEF Open, Settled
<1> HIDE DEF p, q
<1>8. /\ DOMAIN proposals' = DOMAIN proposals
      /\ proposals'[i] = q
      /\ \A j \in DOMAIN proposals \ {i} : proposals'[j] = proposals[j]
  BY <1>2
<1>9. Motions' = Motions
  BY <1>4, <1>8 DEF Motions, p
<1>10. Backers' = [Backers EXCEPT ![i] = @ \cup {a}]
  BY <1>6, <1>8 DEF Backers, p
<1>11. UNCHANGED OpenMotions
  BY <1>2, <1>4, <1>8 DEF OpenMotions, Settled, p
<1>12. UNCHANGED CarriedMotions
  BY <1>4, <1>8 DEF CarriedMotions, p
<1>13. a \notin Backers[i]
  BY <1>5 DEF Backers, p
<1>14. i \in OpenMotions
  BY <1>7 DEF OpenMotions, p
<1> QED
  BY <1>2, <1>9, <1>10, <1>11, <1>12, <1>13, <1>14
  DEF Council!Back, Council!body, OpenMotions, CarriedMotions

\* What is performed is what the motion asks for.
LEMMA PerformingEnacts ==
  ASSUME TypeOK, NEW action \in ProposalAction, Perform(action)
  PROVE  Council!Enact(action)
<1>1. ChangeAskedFor(action)
  BY PerformsWhatIsAsked
<1>2. admin' = IF action.kind = "SetAdmin" THEN action.address ELSE admin
  BY DEF Perform, SetAdmin, Freeze, SetThreshold, AddOwner, RemoveOwner, SetProposalDuration
<1> QED
  BY <1>1, <1>2, Zenon DEF ChangeAskedFor, Council!Enact

\* An execution carries an open motion.
LEMMA ExecutionCarries ==
  ASSUME TypeOK, TypeOK', EnoughOwners, ApprovedOnce, PinnedQuorum,
         NEW a \in Addresses, NEW i \in DOMAIN proposals, execute_action(a, i)
  PROVE  i \in OpenMotions /\ Council!Carry(i)
<1> DEFINE p == proposals[i]
           q == [p EXCEPT !.executed = TRUE]
<1>1. p \in Proposal /\ now \in Nat
  BY DEF TypeOK, MultisigTypeOK, AdminTypeOK
<1>2. /\ Perform(p.action) /\ Open(p)
      /\ proposals' = [proposals EXCEPT ![i] = q]
      /\ UNCHANGED <<now, weight, quorum>>
  BY DEF execute_action, ballotVars
<1>3. p.action \in ProposalAction /\ p.expiry \in Nat /\ p.executed \in BOOLEAN
  BY <1>1 DEF Proposal
<1>4. /\ q.action = p.action /\ q.approvals = p.approvals /\ q.expiry = p.expiry
      /\ q.executed
  BY <1>1 DEF Proposal
<1>5. Carried(p) /\ p.quorum_bps = quorum
  BY ExecutedWasCarried DEF PinnedQuorum
<1>6. Range(p.approvals) \in SUBSET Addresses
  BY <1>1, ApproversAreAddresses
<1>7. ~Settled(p)
  BY <1>1, <1>2, <1>3 DEF Open, Settled
<1>8. Council!Enact(p.action)
  BY <1>2, <1>3, PerformingEnacts
<1>9. MultisigInitialized
  BY DEF execute_action, EnoughOwners
<1>10. EnoughOwners' /\ MultisigInitialized'
  BY <1>2, <1>3, <1>9, PerformKeepsOwners
<1> HIDE DEF p, q
<1>11. /\ DOMAIN proposals' = DOMAIN proposals
       /\ proposals'[i] = q
       /\ \A j \in DOMAIN proposals \ {i} : proposals'[j] = proposals[j]
  BY <1>2
<1>12. UNCHANGED Motions
  BY <1>4, <1>11 DEF Motions, p
<1>13. UNCHANGED Backers
  BY <1>4, <1>11 DEF Backers, p
<1>14. OpenMotions' = OpenMotions \ {i}
  BY <1>2, <1>4, <1>11 DEF OpenMotions, Settled, p
<1>15. CarriedMotions' = CarriedMotions \cup {i}
  BY <1>4, <1>11 DEF CarriedMotions, p
<1>17. Backers[i] = Range(p.approvals) /\ Motions[i] = p.action
  BY DEF Backers, Motions, p
<1>16. quorum > 0
  BY <1>9 DEF PinnedQuorum, MultisigInitialized
<1>18. VotesSuffice([weight |-> weight, quorum |-> quorum], Backers[i])
  BY <1>5, <1>16, <1>17 DEF Carried, VotesSuffice, WeightOf
<1>19. Council!Cardinality(Backers[i]) >= threshold
  BY <1>5, <1>17, CouncilCounts DEF Carried
<1>20. Council!InReach'
  <2>1. IsFiniteSet(owners') /\ Cardinality(owners') \in Nat /\ threshold' \in Nat
    BY Addressing, FS_Subset, FS_CardinalityType DEF TypeOK, MultisigTypeOK
  <2>2. threshold' > 0 /\ threshold' <= Cardinality(owners')
    BY <1>10 DEF EnoughOwners, OwnersSatisfyThreshold, MultisigInitialized
  <2> QED
    BY <2>1, <2>2, CouncilCounts DEF Council!InReach
<1>21. i \in OpenMotions
  BY <1>7 DEF OpenMotions, p
<1>22. Council!Carry(i)
  BY <1>2, <1>8, <1>12, <1>13, <1>14, <1>15, <1>17, <1>18, <1>19, <1>20
  DEF Council!Carry, OpenMotions, CarriedMotions
<1> QED
  BY <1>21, <1>22

\* Time lets motions lapse.
LEMMA TimeLapses ==
  ASSUME TypeOK, Tick
  PROVE  Council!Lapse
<1>1. now' = now + 1 /\ UNCHANGED <<proposals, owners, threshold, duration, frozen, admin,
                                   weight, quorum>>
  BY DEF Tick, multisigVars, ballotVars
<1>2. \A i \in DOMAIN proposals : proposals[i].expiry \in Nat
  <2> SUFFICES ASSUME NEW i \in DOMAIN proposals PROVE proposals[i].expiry \in Nat
    OBVIOUS
  <2>1. proposals[i] \in Proposal
    BY DEF TypeOK, MultisigTypeOK
  <2> QED
    BY <2>1 DEF Proposal
<1>3. now \in Nat
  BY DEF TypeOK, AdminTypeOK
<1>4. OpenMotions' \subseteq OpenMotions
  BY <1>1, <1>2, <1>3 DEF OpenMotions, Settled
<1>5. UNCHANGED <<Motions, Backers, CarriedMotions>>
  BY <1>1 DEF Motions, Backers, CarriedMotions
<1> QED
  BY <1>1, <1>4, <1>5
  DEF Council!Lapse, Council!body, OpenMotions, CarriedMotions

(***************************************************************************)
(* The multisig implements the council, for any addresses, limits and      *)
(* proposals: filing, backing and carrying motions is all that ever        *)
(* happens to it, a motion is carried at most once and while it is open,   *)
(* by enough different backers who are strong by the votes dealt at the    *)
(* founding, and does what it asks for.  Lists of approvals, expiry times  *)
(* and weights are how the code gets there.                                *)
(***************************************************************************)
THEOREM MultisigIsCouncil == Spec => ImplementsCouncil
<1> DEFINE Inv == TypeOK /\ EnoughOwners /\ AdminExists /\ ApprovedOnce /\ PinnedQuorum
<1>1. Init => Council!Init
  <2> SUFFICES ASSUME Init PROVE Council!Init
    OBVIOUS
  <2>1. Motions = <<>> /\ Backers = <<>>
    BY DEF Init, Motions, Backers
  <2>2. quorum = 0
    BY DEF Init
  <2>3. \A S : ~VotesSuffice([weight |-> weight, quorum |-> quorum], S)
    BY <2>2 DEF VotesSuffice
  <2> QED
    BY <2>1, <2>3 DEF Init, Council!Init
<1>2. ASSUME Inv, Inv', [Next]_vars
      PROVE  [Council!Next]_(Council!vars)
  <2>1. CASE AdminNext
    BY <1>2, <2>1, AdminIsHead DEF Council!Next
  <2>2. CASE Tick
    BY <1>2, <2>2, TimeLapses DEF Council!Next
  <2>3. CASE UNCHANGED vars
    <3>1. UNCHANGED <<now, admin, frozen, owners, threshold, duration, proposals, weight, quorum>>
      BY <2>3 DEF vars, multisigVars, ballotVars
    <3> QED
      BY <3>1, DocketIdle DEF Council!vars, Council!body
  <2>4. ASSUME NEW a \in Addresses, NEW founders \in SUBSET Addresses, NEW t \in Thresholds,
               NEW d \in Durations, NEW q \in Quorums, init_multisig(a, founders, t, d, q)
        PROVE  Council!Next
    BY <1>2, <2>4, InitFounds DEF Council!Next
  <2>5. ASSUME NEW a \in Addresses, NEW action \in Proposable, propose_action(a, action)
        PROVE  Council!Next
    BY <1>2, <2>5, ProposalIsFiled DEF Council!Next
  <2>6. ASSUME NEW a \in Addresses, NEW i \in DOMAIN proposals, approve_action(a, i)
        PROVE  Council!Next
    BY <1>2, <2>6, ApprovalBacks DEF Council!Next, OpenMotions
  <2>7. ASSUME NEW a \in Addresses, NEW i \in DOMAIN proposals, execute_action(a, i)
        PROVE  Council!Next
    BY <1>2, <2>7, ExecutionCarries DEF Council!Next, OpenMotions
  <2> QED
    BY <1>2, <2>1, <2>2, <2>3, <2>4, <2>5, <2>6, <2>7 DEF Next, MultisigNext
<1> QED
  BY <1>1, <1>2, ControlTypeCorrect, EnoughOwnersAlways, AdminExistsAlways,
    ApprovedOnceAlways, PinnedQuorumAlways, PTL DEF Spec, ImplementsCouncil, Council!Spec

=============================================================================
