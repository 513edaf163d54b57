---------------------------- MODULE IssuerTransfer ----------------------------
(***************************************************************************)
(* The registry of offerings and the transfer of an offering to a new      *)
(* issuer, together with the vesting schedules that go along.              *)
(*                                                                         *)
(* An offering is known by its issuer, its namespace and its token; one    *)
(* token stands for all.  Everything kept for an offering is stored under  *)
(* that identity, so a transfer gives the offering a second identity,      *)
(* registers it and moves part of what was stored.  The first identity     *)
(* stays registered.                                                       *)
(*                                                                         *)
(* To find a proposal by its addressee, the contract walks an index of     *)
(* issuers.  Registration does not enter the issuer there, only an         *)
(* accepted transfer does, so the index is empty unless an earlier version *)
(* of the contract left issuers in it, as the tests of transfers set up by *)
(* hand: IndexedIssuers, and with them LegacyOfferings, registered before  *)
(* there was a direct record of an offering.                               *)
(*                                                                         *)
(* The signatures a call requires are taken as given.                      *)
(***************************************************************************)
EXTENDS Vesting

CONSTANTS
  Namespaces,
  None,
  Offered,          \* inputs: identities that may be registered
  IndexedIssuers,   \* issuers an earlier version left in the index
  IndexedNamespace, \* the namespace it left them with
  LegacyOfferings,  \* identities it registered
  Heirs,            \* inputs: issuers proposed as new issuers, by identity
  Expiries,         \* inputs: expiry_secs of a proposal
  Delays,           \* inputs: claim delays
  MaxProposals,     \* bound on the proposals made, replacements included
  ISSUER_TRANSFER_EXPIRY_SECS,
  MIN_ISSUER_TRANSFER_EXPIRY_SECS,
  MAX_ISSUER_TRANSFER_EXPIRY_SECS

OfferingId == [issuer : Issuers, namespace : Namespaces]

ASSUME TransferInputs ==
  /\ Offered \subseteq OfferingId
  /\ IndexedIssuers \in Seq(Issuers) /\ IndexedNamespace \in Namespaces
  /\ LegacyOfferings \subseteq
       {[issuer |-> IndexedIssuers[k], namespace |-> IndexedNamespace] : k \in DOMAIN IndexedIssuers}
  /\ Heirs \in [OfferingId -> SUBSET Issuers]
  /\ Expiries \subseteq Nat /\ Delays \subseteq Nat
  /\ None \notin Issuers
  /\ ISSUER_TRANSFER_EXPIRY_SECS \in Nat /\ MIN_ISSUER_TRANSFER_EXPIRY_SECS \in Nat
  /\ MAX_ISSUER_TRANSFER_EXPIRY_SECS \in Nat /\ MaxProposals \in Nat
  /\ MIN_ISSUER_TRANSFER_EXPIRY_SECS <= MAX_ISSUER_TRANSFER_EXPIRY_SECS

VARIABLES
  stopped,           \* require_not_frozen or require_not_paused fails
  offeringRecord,    \* OfferingRecord(id); a record is its primary issuer
  offerItem,         \* OfferItem and OfferCount of issuer and namespace
  offeringIssuer,    \* OfferingIssuer(id)
  issuerItem,        \* IssuerItem and IssuerCount
  namespaceItem,     \* NamespaceItem and NamespaceCount, by issuer
  claimDelay,        \* ClaimDelaySecs(id)
  pendingTransfer,   \* PendingIssuerTransfer(id)
  proposals          \* number of proposals made so far, for the bound

registryVars == <<offeringRecord, offerItem, offeringIssuer, issuerItem, namespaceItem>>
vars == <<now, vestingVars, stopped, registryVars, claimDelay, pendingTransfer, proposals>>

PendingTransfer == [new_issuer : Issuers, timestamp : Nat, expiry_secs : Nat]

\* The type invariant.
TypeOK ==
  /\ VestingTypeOK
  /\ stopped \in BOOLEAN
  /\ DOMAIN offeringIssuer \subseteq OfferingId
  /\ offeringIssuer \in [DOMAIN offeringIssuer -> Issuers]
  /\ offeringRecord \in [DOMAIN offeringRecord -> Issuers]
  /\ offerItem \in [OfferingId -> Seq(Issuers)]
  /\ issuerItem \in Seq(Issuers)
  /\ namespaceItem \in [Issuers -> Seq(Namespaces)]
  /\ claimDelay \in [DOMAIN claimDelay -> Nat]
  /\ pendingTransfer \in [DOMAIN pendingTransfer -> PendingTransfer]
  /\ proposals \in Nat

RangeOf(s) == {s[k] : k \in DOMAIN s}

\* A fresh contract, or one that an earlier version left something in.
Init ==
  /\ VestingInit
  /\ stopped = FALSE
  /\ \E legacy \in BOOLEAN :
       LET indexed == IF legacy THEN IndexedIssuers ELSE <<>>
           registered == IF legacy THEN LegacyOfferings ELSE {}
       IN  /\ issuerItem = indexed
           /\ namespaceItem = [i \in Issuers |->
                IF i \in RangeOf(indexed) THEN <<IndexedNamespace>> ELSE <<>>]
           /\ offerItem = [id \in OfferingId |->
                IF id \in registered THEN <<id.issuer>> ELSE <<>>]
           /\ offeringIssuer = [id \in registered |-> id.issuer]
  /\ offeringRecord = [id \in {} |-> None]
  /\ claimDelay = [id \in {} |-> 0]
  /\ pendingTransfer = [id \in {} |-> None] /\ proposals = 0

-----------------------------------------------------------------------------
(***************************************************************************)
(* Guards and lookups                                                      *)
(***************************************************************************)

\* require_not_frozen and require_not_paused, which go together here.
require_not_stopped == ~stopped

\* The direct record, or for an offering without one the first item listed.
get_offering(id) ==
  IF id \in DOMAIN offeringRecord THEN offeringRecord[id]
  ELSE IF offerItem[id] # <<>> THEN offerItem[id][1]
  ELSE None

\* How most calls of an issuer are guarded: the record must name the issuer.
IssuerMayAct(id) == get_offering(id) = id.issuer

get_current_issuer(id) == offeringIssuer[id]

\* The places of the index at which a proposal to new_issuer is found.
ProposalsFor(new_issuer, namespace) ==
  {k \in DOMAIN issuerItem :
     LET id == [issuer |-> issuerItem[k], namespace |-> namespace]
     IN  /\ namespace \in RangeOf(namespaceItem[id.issuer])
         /\ id \in DOMAIN pendingTransfer
         /\ pendingTransfer[id].new_issuer = new_issuer}

\* The first of them decides, whether or not it has expired: at most one
\* identity is found.
find_pending_transfer_for_new_issuer(new_issuer, namespace) ==
  LET found == ProposalsFor(new_issuer, namespace)
  IN  {[issuer |-> issuerItem[k], namespace |-> namespace] :
         k \in {first \in found : \A j \in found : first <= j}}

EffectiveExpiry(pending) ==
  IF pending.expiry_secs = 0 THEN ISSUER_TRANSFER_EXPIRY_SECS ELSE pending.expiry_secs

\* Mutant: an expired proposal can still be accepted.
NotExpired_Always(pending) == TRUE

\* The second of the expiry is still in time.
NotExpired(pending) == now <= pending.timestamp + EffectiveExpiry(pending)

Clamped(expiry_secs) ==
  IF expiry_secs < MIN_ISSUER_TRANSFER_EXPIRY_SECS THEN MIN_ISSUER_TRANSFER_EXPIRY_SECS
  ELSE Least(expiry_secs, MAX_ISSUER_TRANSFER_EXPIRY_SECS)

Without(m, k) == [i \in DOMAIN m \ {k} |-> m[i]]

-----------------------------------------------------------------------------
(***************************************************************************)
(* Registering                                                             *)
(***************************************************************************)

ensure_issuer_registered(issuer) ==
  issuerItem' = IF issuer \in RangeOf(issuerItem) THEN issuerItem
                ELSE Append(issuerItem, issuer)

ensure_namespace_registered(issuer, namespace) ==
  namespaceItem' = IF namespace \in RangeOf(namespaceItem[issuer]) THEN namespaceItem
                   ELSE [namespaceItem EXCEPT ![issuer] = Append(@, namespace)]

\* Registering an offering again succeeds and changes nothing.
register_offering(id) ==
  /\ require_not_stopped
  /\ id \notin DOMAIN offeringIssuer
  /\ ensure_namespace_registered(id.issuer, id.namespace)
  /\ offerItem' = [offerItem EXCEPT ![id] = Append(@, id.issuer)]
  /\ offeringRecord' = Put(offeringRecord, id, id.issuer)
  /\ offeringIssuer' = Put(offeringIssuer, id, id.issuer)
  /\ UNCHANGED <<now, vestingVars, stopped, issuerItem, claimDelay, pendingTransfer, proposals>>

\* One of the settings kept for an offering.
set_claim_delay(id, delay_secs) ==
  /\ require_not_stopped
  /\ IssuerMayAct(id)
  /\ claimDelay' = Put(claimDelay, id, delay_secs)
  /\ UNCHANGED <<now, vestingVars, stopped, registryVars, pendingTransfer, proposals>>

-----------------------------------------------------------------------------
(***************************************************************************)
(* Transferring                                                            *)
(***************************************************************************)

\* The bound on proposals.
CountProposal == proposals < MaxProposals /\ proposals' = proposals + 1

propose_issuer_transfer(id, new_issuer, expiry_secs) ==
  /\ require_not_stopped
  /\ IssuerMayAct(id)
  /\ id \notin DOMAIN pendingTransfer
  /\ pendingTransfer' = Put(pendingTransfer, id,
       [new_issuer |-> new_issuer, timestamp |-> now,
        expiry_secs |-> IF expiry_secs = 0 THEN 0 ELSE Clamped(expiry_secs)])
  /\ CountProposal
  /\ UNCHANGED <<now, vestingVars, stopped, registryVars, claimDelay>>

\* The window starts again and keeps its length.
replace_issuer_transfer(id, new_issuer) ==
  /\ require_not_stopped
  /\ IssuerMayAct(id)
  /\ id \in DOMAIN pendingTransfer
  /\ pendingTransfer' = [pendingTransfer EXCEPT
       ![id] = [@ EXCEPT !.new_issuer = new_issuer, !.timestamp = now]]
  /\ CountProposal
  /\ UNCHANGED <<now, vestingVars, stopped, registryVars, claimDelay>>

cancel_issuer_transfer(id) ==
  /\ require_not_stopped
  /\ IssuerMayAct(id)
  /\ id \in DOMAIN pendingTransfer
  /\ pendingTransfer' = Without(pendingTransfer, id)
  /\ UNCHANGED <<now, vestingVars, stopped, registryVars, claimDelay, proposals>>

\* A proposal can be rejected after it expired.
reject_issuer_transfer(new_issuer, namespace) ==
  \E id \in find_pending_transfer_for_new_issuer(new_issuer, namespace) :
    /\ require_not_stopped
    /\ pendingTransfer' = Without(pendingTransfer, id)
    /\ UNCHANGED <<now, vestingVars, stopped, registryVars, claimDelay, proposals>>

\* Mutant: an heir may be given the same identity again.
NotYetRegistered_NotChecked(id) == TRUE

NotYetRegistered(id) == get_offering(id) = None

\* Mutant: the new identity is not entered in the lookup.
MovedLookup_OldOnly(id, new_id) == Put(offeringIssuer, id, new_id.issuer)

\* Both identities name the new issuer.
MovedLookup(id, new_id) ==
  Put(Put(offeringIssuer, id, new_id.issuer), new_id, new_id.issuer)

(***************************************************************************)
(* The settings that move: concentration limit and figure, rounding mode,  *)
(* investment constraints, claim delay, snapshot configuration and last    *)
(* snapshot.  Each moves when it is set, like the claim delay here.        *)
(***************************************************************************)
MovedSetting(setting, id, new_id) ==
  IF id \in DOMAIN setting THEN Without(Put(setting, new_id, setting[id]), id) ELSE setting

(***************************************************************************)
(* The offering gets a second identity.  The record is copied as it is, so *)
(* it goes on naming the old issuer; the old identity keeps its record.    *)
(***************************************************************************)
HandOver(id, new_id) ==
  /\ ensure_issuer_registered(new_id.issuer)
  /\ ensure_namespace_registered(new_id.issuer, id.namespace)
  /\ offerItem' = [offerItem EXCEPT ![new_id] = Append(@, get_offering(id))]
  /\ offeringRecord' = Put(offeringRecord, new_id, get_offering(id))
  /\ offeringIssuer' = MovedLookup(id, new_id)
  /\ claimDelay' = MovedSetting(claimDelay, id, new_id)

\* A proposal to the present issuer is merely dropped.
accept_issuer_transfer(new_issuer, namespace) ==
  \E id \in find_pending_transfer_for_new_issuer(new_issuer, namespace) :
    LET new_id == [issuer |-> new_issuer, namespace |-> namespace]
    IN  /\ require_not_stopped
        /\ NotExpired(pendingTransfer[id])
        /\ \/ /\ new_issuer = id.issuer
              /\ UNCHANGED <<vestingVars, registryVars, claimDelay>>
           \/ /\ new_issuer # id.issuer
              /\ NotYetRegistered(new_id)
              /\ NonePreCliff(id.issuer)
              /\ migrate_offering_schedules(id.issuer, new_issuer)
              /\ HandOver(id, new_id)
        /\ pendingTransfer' = Without(pendingTransfer, id)
        /\ UNCHANGED <<now, stopped, proposals>>

-----------------------------------------------------------------------------
(***************************************************************************)
(* The gates of the whole contract and the clock                           *)
(***************************************************************************)

\* A pause comes and goes; a freeze is a stop that never ends.
SetStopped(on) ==
  /\ stopped' = on
  /\ UNCHANGED <<now, vestingVars, registryVars, claimDelay, pendingTransfer, proposals>>

Tick ==
  /\ now < MaxTime
  /\ now' = now + 1
  /\ UNCHANGED <<vestingVars, stopped, registryVars, claimDelay, pendingTransfer, proposals>>

VestingCall ==
  /\ VestingNext
  /\ UNCHANGED <<stopped, registryVars, claimDelay, pendingTransfer, proposals>>

Next ==
  \/ VestingCall
  \/ \E id \in Offered : register_offering(id)
  \/ \E id \in DOMAIN offeringIssuer :
       \/ \E delay \in Delays : set_claim_delay(id, delay)
       \/ \E new_issuer \in Heirs[id] :
            \/ \E expiry \in Expiries : propose_issuer_transfer(id, new_issuer, expiry)
            \/ replace_issuer_transfer(id, new_issuer)
       \/ cancel_issuer_transfer(id)
  \/ \E new_issuer \in Issuers, namespace \in Namespaces :
       \/ accept_issuer_transfer(new_issuer, namespace)
       \/ reject_issuer_transfer(new_issuer, namespace)
  \/ \E on \in BOOLEAN : SetStopped(on)
  \/ Tick

Spec == Init /\ [][Next]_vars

\* Beneficiaries that have something to claim go on claiming.
Claim(b) == vesting_claim(b) /\ UNCHANGED <<stopped, registryVars, claimDelay, pendingTransfer, proposals>>

\* Ledgers go on being closed, and beneficiaries go on claiming.
Fairness == WF_vars(Tick) /\ \A b \in Beneficiaries : WF_vars(Claim(b))

FairSpec == Spec /\ Fairness

-----------------------------------------------------------------------------
(***************************************************************************)
(* Properties                                                              *)
(***************************************************************************)

\* Each identity is listed once, in a namespace its issuer is listed with.
ListedOnce ==
  /\ \A id \in OfferingId : Len(offerItem[id]) <= 1
  /\ DOMAIN offeringIssuer = {id \in OfferingId : offerItem[id] # <<>>}
  /\ DOMAIN offeringRecord \subseteq DOMAIN offeringIssuer
  /\ \A id \in DOMAIN offeringIssuer : id.namespace \in RangeOf(namespaceItem[id.issuer])

\* The lookup names an issuer who is registered with the offering, in one step.
LookupsResolve ==
  \A id \in DOMAIN offeringIssuer :
    LET heir == [id EXCEPT !.issuer = get_current_issuer(id)]
    IN  heir \in DOMAIN offeringIssuer /\ get_current_issuer(heir) = heir.issuer

(***************************************************************************)
(* The four indices register_offering and accept_issuer_transfer write     *)
(* agree, whatever is registered, handed over, and handed over again by    *)
(* the old issuer: every identity is listed once, and the current issuer   *)
(* of any identity is found in one step and holds an identity of its own.  *)
(***************************************************************************)
RegistryCoherent == ListedOnce /\ LookupsResolve

\* The longest time a proposal may stay open since it was last made.
LongestWindow ==
  IF ISSUER_TRANSFER_EXPIRY_SECS > MAX_ISSUER_TRANSFER_EXPIRY_SECS
    THEN ISSUER_TRANSFER_EXPIRY_SECS ELSE MAX_ISSUER_TRANSFER_EXPIRY_SECS

\* The step gives the offering to the issuer it was proposed to, in time.
ByConsent(id) ==
  /\ id \in DOMAIN pendingTransfer
  /\ offeringIssuer'[id] = pendingTransfer[id].new_issuer
  /\ id \notin DOMAIN pendingTransfer'
  /\ now - pendingTransfer[id].timestamp <= LongestWindow

\* No schedule of the issuer is before its cliff, and all go to the heir.
SchedulesGoAlong(issuer, heir) ==
  \A b \in DOMAIN schedule : schedule[b].issuer = issuer =>
    now >= schedule[b].cliff_ts /\ schedule'[b].issuer = heir

DelayGoesAlong(id, heir) ==
  id \in DOMAIN claimDelay =>
    heir \in DOMAIN claimDelay' /\ claimDelay'[heir] = claimDelay[id]

(***************************************************************************)
(* An offering passes to another issuer only by a proposal to that issuer  *)
(* which is not older than the longest window, whatever was replaced or    *)
(* asked for; the proposal is used up, nobody's schedule is before its     *)
(* cliff, all schedules go along, and so does the delay holders rely on.   *)
(***************************************************************************)
HandoverByConsent ==
  [][ \A id \in DOMAIN offeringIssuer :
        offeringIssuer'[id] # offeringIssuer[id] =>
          LET heir == [id EXCEPT !.issuer = offeringIssuer'[id]]
          IN  /\ ByConsent(id)
              /\ SchedulesGoAlong(id.issuer, heir.issuer)
              /\ DelayGoesAlong(id, heir) ]_vars

\* What an observer of Titles sees of a proposal is the addressee.
Offers == [id \in DOMAIN pendingTransfer |-> pendingTransfer[id].new_issuer]
Guardians == [b \in DOMAIN schedule |-> schedule[b].issuer]

Titles == INSTANCE Titles WITH
  Dependants <- Beneficiaries, holder <- offeringIssuer, offers <- Offers,
  guardian <- Guardians

(***************************************************************************)
(* The registry, its six indices and records, the proposals and the lists  *)
(* of vesting schedules together implement Titles: an offering passes only *)
(* by being offered and taken by the one addressed, who had none in that   *)
(* namespace; the offer is used up, and everybody with a schedule of the   *)
(* old issuer is taken over in the same step.                              *)
(***************************************************************************)
ImplementsTitles == Titles!Spec

(***************************************************************************)
(* Everything a beneficiary was promised is claimed in the end, whatever   *)
(* is paused, frozen or handed over meanwhile, and although the linear     *)
(* part of a schedule counts as nothing while its product overflows: time  *)
(* passes and beneficiaries go on claiming.                                *)
(***************************************************************************)
EverythingIsClaimed ==
  \A b \in Beneficiaries :
    b \in DOMAIN schedule ~>
      b \in DOMAIN schedule /\ claimed[b] = schedule[b].total_amount

-----------------------------------------------------------------------------
(***************************************************************************)
(* Statements of the repository that the code does not keep                *)
(***************************************************************************)

(***************************************************************************)
(* ISSUER_TRANSFER.md: with an accepted transfer the new issuer gains full *)
(* control and the old one loses it.  So the issuer of an identity may act *)
(* just when the lookup names that issuer.  The record copied to the new   *)
(* identity names the old issuer, and the old identity keeps its own.      *)
(***************************************************************************)
OnlyTheCurrentIssuerActs ==
  \A id \in DOMAIN offeringIssuer : IssuerMayAct(id) <=> get_current_issuer(id) = id.issuer

\* What holds instead: no heir may act under the identity it was given.
HeirsAreInert ==
  \A id \in DOMAIN offeringIssuer :
    get_current_issuer(id) # id.issuer =>
      ~IssuerMayAct([id EXCEPT !.issuer = get_current_issuer(id)])

(***************************************************************************)
(* ISSUER_TRANSFER.md has any proposed transfer accepted, and the tests    *)
(* accept one right after registration.  What holds instead, since         *)
(* registration does not enter the issuer in the index: only an issuer an  *)
(* earlier version left there, or one that was handed an offering, can     *)
(* hand one over, and with an empty index everybody keeps what they have.  *)
(***************************************************************************)
OnlyIndexedIssuersHandOver ==
  /\ \A id \in DOMAIN offeringIssuer :
       get_current_issuer(id) # id.issuer =>
         {id.issuer, get_current_issuer(id)} \subseteq RangeOf(issuerItem)
  /\ issuerItem = <<>> => \A id \in DOMAIN offeringIssuer : IssuerMayAct(id)
=============================================================================
