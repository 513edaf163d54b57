------------------------ MODULE IssuerTransfer_proofs ------------------------
(***************************************************************************)
(* Theorems about IssuerTransfer: the indices of the registry agree, the   *)
(* lookup of the current issuer always resolves, the identity an heir is   *)
(* given is of no use to the heir, and an offering changes hands only by   *)
(* consent.  Of the vesting schedules that go along: each stays listed     *)
(* with its issuer, nobody is booked more than was promised, and what has  *)
(* vested never shrinks.                                                   *)
(*                                                                         *)
(* For the registry the argument turns on one fact.  A proposal is made by *)
(* an issuer the record names, and the record of an identity never         *)
(* changes; the identity an heir is given is registered with the record of *)
(* the old issuer.  So an inherited identity never proposes, no chain of   *)
(* transfers arises, and one lookup is always enough.                      *)
(*                                                                         *)
(* For the schedules it turns on another: everything an issuer's list      *)
(* names is a schedule of that issuer, so a hand-over passes over nothing. *)
(***************************************************************************)
EXTENDS IssuerTransfer, SumTheorems, TLAPS

\* The identity the current issuer holds.
HeirOf(id) == [id EXCEPT !.issuer = get_current_issuer(id)]

RegistryTyped ==
  /\ DOMAIN offeringIssuer \subseteq OfferingId
  /\ \A id \in DOMAIN offeringIssuer : offeringIssuer[id] \in Issuers
  /\ \A id \in DOMAIN offeringRecord : offeringRecord[id] \in Issuers
  /\ offerItem \in [OfferingId -> Seq(Issuers)]
  /\ issuerItem \in Seq(Issuers)
  /\ namespaceItem \in [Issuers -> Seq(Namespaces)]

\* What holds of the registry alone.
RegistrySound ==
  /\ RegistryTyped
  /\ RegistryCoherent
  /\ OnlyIndexedIssuersHandOver
  /\ HeirsAreInert

\* Whoever has proposed may still act: the inductive link to the registry.
ProposersMayAct ==
  \A id \in DOMAIN pendingTransfer :
    id \in DOMAIN offeringIssuer /\ IssuerMayAct(id)

\* A proposal asks for no more than the longest window.
WindowsBounded ==
  /\ now \in Nat
  /\ \A id \in DOMAIN pendingTransfer :
       pendingTransfer[id] \in
         [new_issuer : Issuers, timestamp : Nat,
          expiry_secs : 0..MAX_ISSUER_TRANSFER_EXPIRY_SECS]

TransferSound == RegistrySound /\ ProposersMayAct /\ WindowsBounded

-----------------------------------------------------------------------------
(***************************************************************************)
(* Lookups                                                                 *)
(***************************************************************************)

LEMMA FoundIsPending ==
  ASSUME NEW new_issuer, NEW namespace,
         NEW id \in find_pending_transfer_for_new_issuer(new_issuer, namespace)
  PROVE  /\ id \in DOMAIN pendingTransfer
         /\ pendingTransfer[id].new_issuer = new_issuer
         /\ id.namespace = namespace
         /\ id.issuer \in RangeOf(issuerItem)
<1>1. PICK k \in ProposalsFor(new_issuer, namespace) :
        id = [issuer |-> issuerItem[k], namespace |-> namespace]
  BY DEF find_pending_transfer_for_new_issuer
<1>2. /\ k \in DOMAIN issuerItem
      /\ id \in DOMAIN pendingTransfer
      /\ pendingTransfer[id].new_issuer = new_issuer
  BY <1>1, Zenon DEF ProposalsFor
<1> QED
  BY <1>1, <1>2 DEF RangeOf

\* A registered offering has an offering to get, any other has none.
LEMMA RecordsFollowRegistration ==
  ASSUME ListedOnce, NEW id \in OfferingId, id \notin DOMAIN offeringIssuer
  PROVE  offerItem[id] = <<>> /\ id \notin DOMAIN offeringRecord
BY DEF ListedOnce

LEMMA RecordedIsGot ==
  ASSUME RegistrySound, NEW id \in DOMAIN offeringIssuer
  PROVE  get_offering(id) # None
<1>1. id \in OfferingId /\ offerItem[id] # <<>>
  BY DEF RegistrySound, RegistryCoherent, ListedOnce
<1>2. offerItem[id] \in Seq(Issuers)
  BY <1>1 DEF RegistrySound, RegistryTyped
<1>3. offerItem[id][1] \in Issuers
  BY <1>1, <1>2
<1>4. id \in DOMAIN offeringRecord => offeringRecord[id] \in Issuers
  BY DEF RegistrySound, RegistryTyped
<1> QED
  BY <1>1, <1>3, <1>4, TransferInputs DEF get_offering

LEMMA RegistryFrame ==
  ASSUME RegistrySound, UNCHANGED registryVars
  PROVE  RegistrySound'
BY DEF RegistrySound, RegistryTyped, RegistryCoherent, ListedOnce, LookupsResolve,
  OnlyIndexedIssuersHandOver, HeirsAreInert, IssuerMayAct, get_offering,
  get_current_issuer, RangeOf, registryVars

LEMMA HeirFacts ==
  ASSUME RegistryTyped, NEW id \in DOMAIN offeringIssuer
  PROVE  /\ HeirOf(id) \in OfferingId
         /\ HeirOf(id).issuer = offeringIssuer[id]
         /\ HeirOf(id).namespace = id.namespace
         /\ offeringIssuer[id] = id.issuer => HeirOf(id) = id
<1>1. id \in [issuer : Issuers, namespace : Namespaces] /\ offeringIssuer[id] \in Issuers
  BY DEF RegistryTyped, OfferingId
<1> QED
  BY <1>1 DEF HeirOf, get_current_issuer, OfferingId

\* The three properties of the lookup, in terms of HeirOf.
LEMMA HeirsRestated ==
  /\ LookupsResolve <=>
       \A id \in DOMAIN offeringIssuer :
         HeirOf(id) \in DOMAIN offeringIssuer /\ offeringIssuer[HeirOf(id)] = HeirOf(id).issuer
  /\ HeirsAreInert <=>
       \A id \in DOMAIN offeringIssuer :
         offeringIssuer[id] # id.issuer => ~IssuerMayAct(HeirOf(id))
BY Zenon DEF LookupsResolve, HeirsAreInert, HeirOf, get_current_issuer

(***************************************************************************)
(* An identity that may act is not the heir of any other one.              *)
(***************************************************************************)
LEMMA NoChains ==
  ASSUME RegistrySound, NEW id \in DOMAIN offeringIssuer, IssuerMayAct(id),
         NEW other \in DOMAIN offeringIssuer, HeirOf(other) = id
  PROVE  other = id
BY HeirFacts, HeirsRestated DEF RegistrySound

\* Entering an issuer or a namespace keeps what was entered.
LEMMA IssuerEntered ==
  ASSUME issuerItem \in Seq(Issuers), NEW issuer \in Issuers,
         ensure_issuer_registered(issuer)
  PROVE  /\ issuerItem' \in Seq(Issuers)
         /\ RangeOf(issuerItem') = RangeOf(issuerItem) \cup {issuer}
         /\ issuerItem' # <<>>
<1>1. CASE issuer \in RangeOf(issuerItem)
  BY <1>1 DEF ensure_issuer_registered, RangeOf
<1>2. CASE issuer \notin RangeOf(issuerItem)
  <2>1. issuerItem' = Append(issuerItem, issuer)
    BY <1>2 DEF ensure_issuer_registered
  <2>2. /\ issuerItem' \in Seq(Issuers)
        /\ Len(issuerItem') = Len(issuerItem) + 1
        /\ \A k \in 1..Len(issuerItem) : issuerItem'[k] = issuerItem[k]
        /\ issuerItem'[Len(issuerItem) + 1] = issuer
    BY <2>1
  <2>3. DOMAIN issuerItem = 1..Len(issuerItem) /\ DOMAIN issuerItem' = 1..Len(issuerItem) + 1
        /\ Len(issuerItem) \in Nat
    BY <2>2
  <2> QED
    BY <2>2, <2>3 DEF RangeOf
<1> QED
  BY <1>1, <1>2

LEMMA NamespaceEntered ==
  ASSUME namespaceItem \in [Issuers -> Seq(Namespaces)],
         NEW issuer \in Issuers, NEW namespace \in Namespaces,
         ensure_namespace_registered(issuer, namespace)
  PROVE  /\ namespaceItem' \in [Issuers -> Seq(Namespaces)]
         /\ namespace \in RangeOf(namespaceItem'[issuer])
         /\ \A i \in Issuers : RangeOf(namespaceItem[i]) \subseteq RangeOf(namespaceItem'[i])
<1>1. CASE namespace \in RangeOf(namespaceItem[issuer])
  BY <1>1 DEF ensure_namespace_registered
<1>2. CASE namespace \notin RangeOf(namespaceItem[issuer])
  <2> DEFINE old == namespaceItem[issuer]
             new == Append(old, namespace)
  <2>1. namespaceItem' = [namespaceItem EXCEPT ![issuer] = new]
    BY <1>2 DEF ensure_namespace_registered
  <2>2. old \in Seq(Namespaces)
    OBVIOUS
  <2> HIDE DEF old
  <2>3. /\ new \in Seq(Namespaces)
        /\ Len(new) = Len(old) + 1
        /\ \A k \in 1..Len(old) : new[k] = old[k]
        /\ new[Len(old) + 1] = namespace
    BY <2>2
  <2> HIDE DEF new
  <2>4. DOMAIN old = 1..Len(old) /\ DOMAIN new = 1..Len(old) + 1 /\ Len(old) \in Nat
    BY <2>2, <2>3
  <2>5. namespace \in RangeOf(new) /\ RangeOf(old) \subseteq RangeOf(new)
    BY <2>3, <2>4 DEF RangeOf
  <2>6. namespaceItem'[issuer] = new /\ \A i \in Issuers \ {issuer} : namespaceItem'[i] = namespaceItem[i]
    BY <2>1
  <2>7. namespaceItem' \in [Issuers -> Seq(Namespaces)]
    BY <2>1, <2>3
  <2>8. RangeOf(namespaceItem[issuer]) \subseteq RangeOf(namespaceItem'[issuer])
        /\ namespace \in RangeOf(namespaceItem'[issuer])
    BY <2>5, <2>6 DEF old
  <2>9. \A i \in Issuers : RangeOf(namespaceItem[i]) \subseteq RangeOf(namespaceItem'[i])
    BY <2>6, <2>8
  <2> QED
    BY <2>7, <2>8, <2>9
<1> QED
  BY <1>1, <1>2

-----------------------------------------------------------------------------
(***************************************************************************)
(* The two steps that register an identity                                 *)
(***************************************************************************)

(***************************************************************************)
(* Entering one more identity leaves what is got for the others alone.     *)
(***************************************************************************)
LEMMA RegistrationFrame ==
  ASSUME ListedOnce, RegistryTyped,
         NEW new \in OfferingId, new \notin DOMAIN offeringIssuer,
         NEW record \in Issuers,
         offerItem' = [offerItem EXCEPT ![new] = Append(@, record)],
         offeringRecord' = Put(offeringRecord, new, record)
  PROVE  /\ offerItem' \in [OfferingId -> Seq(Issuers)]
         /\ Len(offerItem'[new]) = 1
         /\ \A id \in OfferingId \ {new} : offerItem'[id] = offerItem[id]
         /\ DOMAIN offeringRecord' = DOMAIN offeringRecord \cup {new}
         /\ \A id \in DOMAIN offeringRecord' : offeringRecord'[id] \in Issuers
         /\ get_offering(new)' = record
         /\ \A id \in DOMAIN offeringIssuer : get_offering(id)' = get_offering(id)
<1>1. offerItem[new] = <<>> /\ new \notin DOMAIN offeringRecord
  BY RecordsFollowRegistration
<1>2. Append(offerItem[new], record) \in Seq(Issuers) /\ Len(Append(offerItem[new], record)) = 1
  BY <1>1
<1>3. /\ offerItem' \in [OfferingId -> Seq(Issuers)]
      /\ offerItem'[new] = Append(offerItem[new], record)
      /\ \A id \in OfferingId \ {new} : offerItem'[id] = offerItem[id]
  BY <1>2 DEF RegistryTyped
<1>4. /\ DOMAIN offeringRecord' = DOMAIN offeringRecord \cup {new}
      /\ offeringRecord'[new] = record
      /\ \A id \in DOMAIN offeringRecord \ {new} : offeringRecord'[id] = offeringRecord[id]
      /\ \A id \in DOMAIN offeringRecord' : offeringRecord'[id] \in Issuers
  BY DEF Put, RegistryTyped
<1>5. get_offering(new)' = record
  BY <1>4 DEF get_offering
<1>6. ASSUME NEW id \in DOMAIN offeringIssuer
      PROVE  get_offering(id)' = get_offering(id)
  <2>1. id \in OfferingId /\ id # new
    BY DEF RegistryTyped
  <2> QED
    BY <2>1, <1>3, <1>4 DEF get_offering
<1> QED
  BY <1>2, <1>3, <1>4, <1>5, <1>6

\* What is listed stays listed once.
LEMMA ListedAfter ==
  ASSUME ListedOnce, RegistryTyped, NEW new \in OfferingId,
         offerItem' \in [OfferingId -> Seq(Issuers)],
         Len(offerItem'[new]) = 1,
         \A id \in OfferingId \ {new} : offerItem'[id] = offerItem[id],
         DOMAIN offeringRecord' = DOMAIN offeringRecord \cup {new},
         DOMAIN offeringIssuer' = DOMAIN offeringIssuer \cup {new},
         new.namespace \in RangeOf(namespaceItem'[new.issuer]),
         \A i \in Issuers : RangeOf(namespaceItem[i]) \subseteq RangeOf(namespaceItem'[i])
  PROVE  ListedOnce'
<1>1. \A id \in OfferingId : Len(offerItem'[id]) <= 1
  <2> TAKE id \in OfferingId
  <2>1. CASE id = new
    BY <2>1
  <2>2. CASE id # new
    BY <2>2 DEF ListedOnce
  <2> QED
    BY <2>1, <2>2
<1>2. offerItem'[new] # <<>>
  <2> SUFFICES ASSUME offerItem'[new] = <<>>
               PROVE  FALSE
    OBVIOUS
  <2>1. Len(<<>>) = 0
    OBVIOUS
  <2> QED
    BY <2>1
<1>3. DOMAIN offeringIssuer' = {id \in OfferingId : offerItem'[id] # <<>>}
  BY <1>2 DEF ListedOnce
<1>4. \A id \in DOMAIN offeringIssuer' : id.namespace \in RangeOf(namespaceItem'[id.issuer])
  <2> TAKE id \in DOMAIN offeringIssuer'
  <2>1. CASE id = new
    BY <2>1
  <2>2. CASE id # new
    <3>1. id \in DOMAIN offeringIssuer /\ id.issuer \in Issuers
      BY <2>2 DEF RegistryTyped, OfferingId
    <3> QED
      BY <3>1 DEF ListedOnce
  <2> QED
    BY <2>1, <2>2
<1>5. DOMAIN offeringRecord' \subseteq DOMAIN offeringIssuer'
  BY DEF ListedOnce
<1> QED
  BY <1>1, <1>3, <1>4, <1>5 DEF ListedOnce

LEMMA RegisterKeepsRegistry ==
  ASSUME RegistrySound, NEW new \in OfferingId, register_offering(new)
  PROVE  /\ RegistrySound'
         /\ \A id \in DOMAIN offeringIssuer :
              id \in DOMAIN offeringIssuer' /\ get_offering(id)' = get_offering(id)
<1> new.issuer \in Issuers /\ new.namespace \in Namespaces
  BY DEF OfferingId
<1>1. /\ new \notin DOMAIN offeringIssuer
      /\ ensure_namespace_registered(new.issuer, new.namespace)
      /\ offerItem' = [offerItem EXCEPT ![new] = Append(@, new.issuer)]
      /\ offeringRecord' = Put(offeringRecord, new, new.issuer)
      /\ offeringIssuer' = Put(offeringIssuer, new, new.issuer)
      /\ UNCHANGED issuerItem
  BY DEF register_offering
<1>2. RegistryTyped /\ ListedOnce /\ LookupsResolve /\ OnlyIndexedIssuersHandOver /\ HeirsAreInert
  BY DEF RegistrySound, RegistryCoherent
<1>3. /\ offerItem' \in [OfferingId -> Seq(Issuers)]
      /\ Len(offerItem'[new]) = 1
      /\ \A id \in OfferingId \ {new} : offerItem'[id] = offerItem[id]
      /\ DOMAIN offeringRecord' = DOMAIN offeringRecord \cup {new}
      /\ \A j \in DOMAIN offeringRecord' : offeringRecord'[j] \in Issuers
      /\ get_offering(new)' = new.issuer
      /\ \A id \in DOMAIN offeringIssuer : get_offering(id)' = get_offering(id)
  BY <1>1, <1>2, RegistrationFrame
<1>4. /\ namespaceItem' \in [Issuers -> Seq(Namespaces)]
      /\ new.namespace \in RangeOf(namespaceItem'[new.issuer])
      /\ \A i \in Issuers : RangeOf(namespaceItem[i]) \subseteq RangeOf(namespaceItem'[i])
  BY <1>1, <1>2, NamespaceEntered DEF RegistryTyped
<1>5. /\ DOMAIN offeringIssuer' = DOMAIN offeringIssuer \cup {new}
      /\ offeringIssuer'[new] = new.issuer
      /\ \A id \in DOMAIN offeringIssuer : offeringIssuer'[id] = offeringIssuer[id]
  BY <1>1 DEF Put
<1>6. RegistryTyped'
  BY <1>1, <1>2, <1>3, <1>4, <1>5 DEF RegistryTyped
<1>7. ListedOnce'
  BY <1>2, <1>3, <1>4, <1>5, ListedAfter
<1>8. \A id \in DOMAIN offeringIssuer : HeirOf(id)' = HeirOf(id)
  BY <1>5 DEF HeirOf, get_current_issuer
<1>9. HeirOf(new)' = new
  BY <1>5 DEF HeirOf, get_current_issuer, OfferingId
<1>10. LookupsResolve'
  <2>1. \A id \in DOMAIN offeringIssuer :
          HeirOf(id) \in DOMAIN offeringIssuer /\ offeringIssuer[HeirOf(id)] = HeirOf(id).issuer
    BY <1>2, HeirsRestated
  <2>2. \A id \in DOMAIN offeringIssuer' :
          HeirOf(id)' \in DOMAIN offeringIssuer' /\ offeringIssuer'[HeirOf(id)'] = HeirOf(id)'.issuer
    BY <2>1, <1>5, <1>8, <1>9
  <2> QED
    BY <2>2, Zenon DEF LookupsResolve, HeirOf, get_current_issuer
<1>11. HeirsAreInert'
  <2>1. ASSUME NEW id \in DOMAIN offeringIssuer', offeringIssuer'[id] # id.issuer,
               NEW heir, heir = HeirOf(id)'
        PROVE  get_offering(heir)' # heir.issuer
    <3>1. /\ id \in DOMAIN offeringIssuer /\ offeringIssuer[id] # id.issuer
          /\ heir = HeirOf(id)
      BY <1>5, <1>8, <2>1
    <3>2. heir \in DOMAIN offeringIssuer /\ get_offering(heir) # heir.issuer
      BY <1>2, <3>1, HeirsRestated DEF IssuerMayAct
    <3> QED
      BY <1>3, <3>2
  <2> QED
    BY <2>1, Zenon DEF HeirsAreInert, HeirOf, IssuerMayAct, get_current_issuer, get_offering
<1>12. OnlyIndexedIssuersHandOver'
  BY <1>1, <1>2, <1>3, <1>5 DEF OnlyIndexedIssuersHandOver, IssuerMayAct, get_current_issuer, RangeOf
<1> QED
  BY <1>3, <1>5, <1>6, <1>7, <1>10, <1>11, <1>12 DEF RegistrySound, RegistryCoherent
LEMMA HandOverKeepsRegistry ==
  ASSUME RegistrySound, NEW id \in DOMAIN offeringIssuer, IssuerMayAct(id),
         id.issuer \in RangeOf(issuerItem),
         NEW new \in OfferingId, new.namespace = id.namespace, new.issuer # id.issuer,
         get_offering(new) = None, HandOver(id, new)
  PROVE  /\ RegistrySound'
         /\ \A j \in DOMAIN offeringIssuer :
              j \in DOMAIN offeringIssuer' /\ get_offering(j)' = get_offering(j)
         /\ offeringIssuer'[id] = new.issuer
         /\ \A j \in DOMAIN offeringIssuer \ {id} : offeringIssuer'[j] = offeringIssuer[j]
<1> /\ new.issuer \in Issuers /\ new.namespace \in Namespaces
    /\ id.issuer \in Issuers /\ id \in OfferingId
  BY DEF OfferingId, RegistrySound, RegistryTyped
<1>1. /\ ensure_issuer_registered(new.issuer)
      /\ ensure_namespace_registered(new.issuer, new.namespace)
      /\ offerItem' = [offerItem EXCEPT ![new] = Append(@, id.issuer)]
      /\ offeringRecord' = Put(offeringRecord, new, id.issuer)
      /\ offeringIssuer' = Put(Put(offeringIssuer, id, new.issuer), new, new.issuer)
  BY DEF HandOver, MovedLookup, IssuerMayAct
<1>2. RegistryTyped /\ ListedOnce /\ LookupsResolve /\ OnlyIndexedIssuersHandOver /\ HeirsAreInert
  BY DEF RegistrySound, RegistryCoherent
<1>3. new \notin DOMAIN offeringIssuer
  BY <1>2, RecordedIsGot
<1>4. /\ offerItem' \in [OfferingId -> Seq(Issuers)]
      /\ Len(offerItem'[new]) = 1
      /\ \A j \in OfferingId \ {new} : offerItem'[j] = offerItem[j]
      /\ DOMAIN offeringRecord' = DOMAIN offeringRecord \cup {new}
      /\ \A j \in DOMAIN offeringRecord' : offeringRecord'[j] \in Issuers
      /\ get_offering(new)' = id.issuer
      /\ \A j \in DOMAIN offeringIssuer : get_offering(j)' = get_offering(j)
  BY <1>1, <1>2, <1>3, RegistrationFrame
<1>5. /\ namespaceItem' \in [Issuers -> Seq(Namespaces)]
      /\ new.namespace \in RangeOf(namespaceItem'[new.issuer])
      /\ \A i \in Issuers : RangeOf(namespaceItem[i]) \subseteq RangeOf(namespaceItem'[i])
  BY <1>1, <1>2, NamespaceEntered DEF RegistryTyped
<1>6. /\ issuerItem' \in Seq(Issuers)
      /\ RangeOf(issuerItem) \cup {new.issuer} \subseteq RangeOf(issuerItem')
      /\ issuerItem' # <<>>
  BY <1>1, <1>2, IssuerEntered DEF RegistryTyped
<1>7. /\ DOMAIN offeringIssuer' = DOMAIN offeringIssuer \cup {new}
      /\ offeringIssuer'[new] = new.issuer /\ offeringIssuer'[id] = new.issuer
      /\ \A j \in DOMAIN offeringIssuer \ {id} : offeringIssuer'[j] = offeringIssuer[j]
  BY <1>1, <1>3 DEF Put
<1>8. RegistryTyped'
  BY <1>2, <1>4, <1>5, <1>6, <1>7 DEF RegistryTyped
<1>9. ListedOnce'
  BY <1>2, <1>4, <1>5, <1>7, ListedAfter
<1>10. HeirOf(new)' = new /\ HeirOf(id)' = new
  BY <1>7 DEF HeirOf, get_current_issuer, OfferingId
\* The heirs of all others are as before, and neither of the two.
<1>11. ASSUME NEW j \in DOMAIN offeringIssuer \ {id}
       PROVE  HeirOf(j)' = HeirOf(j) /\ HeirOf(j) \in DOMAIN offeringIssuer \ {id}
  <2>1. HeirOf(j)' = HeirOf(j)
    BY <1>7 DEF HeirOf, get_current_issuer
  <2>2. HeirOf(j) \in DOMAIN offeringIssuer
    BY <1>2, HeirsRestated
  <2>3. HeirOf(j) # id
    BY NoChains
  <2> QED
    BY <2>1, <2>2, <2>3
<1>12. LookupsResolve'
  <2>1. \A j \in DOMAIN offeringIssuer : offeringIssuer[HeirOf(j)] = HeirOf(j).issuer
    BY <1>2, HeirsRestated
  <2>2. \A j \in DOMAIN offeringIssuer' :
          HeirOf(j)' \in DOMAIN offeringIssuer' /\ offeringIssuer'[HeirOf(j)'] = HeirOf(j)'.issuer
    BY <2>1, <1>7, <1>10, <1>11
  <2> QED
    BY <2>2, Zenon DEF LookupsResolve, HeirOf, get_current_issuer
<1>13. HeirsAreInert'
  <2>1. ASSUME NEW j \in DOMAIN offeringIssuer', offeringIssuer'[j] # j.issuer,
               NEW heir, heir = HeirOf(j)'
        PROVE  get_offering(heir)' # heir.issuer
    <3>1. CASE j = id
      BY <1>4, <1>10, <2>1, <3>1
    <3>2. CASE j \in DOMAIN offeringIssuer \ {id}
      <4>1. offeringIssuer[j] # j.issuer /\ heir = HeirOf(j)
        BY <1>7, <1>11, <2>1, <3>2
      <4>2. heir \in DOMAIN offeringIssuer /\ get_offering(heir) # heir.issuer
        BY <1>2, <1>11, <3>2, <4>1, HeirsRestated DEF IssuerMayAct
      <4> QED
        BY <1>4, <4>2
    <3> QED
      BY <1>7, <2>1, <3>1, <3>2
  <2> QED
    BY <2>1, Zenon DEF HeirsAreInert, HeirOf, IssuerMayAct, get_current_issuer, get_offering
<1>14. OnlyIndexedIssuersHandOver'
  <2>1. ASSUME NEW j \in DOMAIN offeringIssuer', offeringIssuer'[j] # j.issuer
        PROVE  {j.issuer, offeringIssuer'[j]} \subseteq RangeOf(issuerItem')
    <3>1. CASE j = id
      BY <1>6, <1>7, <3>1
    <3>2. CASE j \in DOMAIN offeringIssuer \ {id}
      <4>1. offeringIssuer'[j] = offeringIssuer[j]
        BY <1>7, <3>2
      <4>2. {j.issuer, offeringIssuer[j]} \subseteq RangeOf(issuerItem)
        BY <1>2, <2>1, <3>2, <4>1 DEF OnlyIndexedIssuersHandOver, get_current_issuer
      <4> QED
        BY <1>6, <4>1, <4>2
    <3> QED
      BY <1>7, <2>1, <3>1, <3>2
  <2> QED
    BY <1>6, <2>1 DEF OnlyIndexedIssuersHandOver, get_current_issuer, RangeOf
<1> QED
  BY <1>4, <1>7, <1>8, <1>9, <1>12, <1>13, <1>14 DEF RegistrySound, RegistryCoherent

-----------------------------------------------------------------------------
(***************************************************************************)
(* The invariant                                                           *)
(***************************************************************************)

LEMMA InitSound == Init => TransferSound
<1> SUFFICES ASSUME Init
             PROVE  TransferSound
  OBVIOUS
<1>1. PICK legacy \in BOOLEAN :
        /\ issuerItem = IF legacy THEN IndexedIssuers ELSE <<>>
        /\ namespaceItem = [i \in Issuers |->
              IF i \in RangeOf(issuerItem) THEN <<IndexedNamespace>> ELSE <<>>]
        /\ offerItem = [id \in OfferingId |->
              IF id \in (IF legacy THEN LegacyOfferings ELSE {}) THEN <<id.issuer>> ELSE <<>>]
        /\ offeringIssuer = [id \in (IF legacy THEN LegacyOfferings ELSE {}) |-> id.issuer]
  BY DEF Init
<1> DEFINE registered == IF legacy THEN LegacyOfferings ELSE {}
<1>2. /\ DOMAIN offeringRecord = {} /\ DOMAIN pendingTransfer = {} /\ now \in Nat
  BY DEF Init, VestingInit
<1>3. \A id \in registered :
        /\ id \in OfferingId /\ id.issuer \in RangeOf(issuerItem)
        /\ id.namespace = IndexedNamespace
  <2> TAKE id \in registered
  <2>1. PICK k \in DOMAIN IndexedIssuers :
          id = [issuer |-> IndexedIssuers[k], namespace |-> IndexedNamespace]
    BY TransferInputs
  <2>2. IndexedIssuers[k] \in Issuers /\ IndexedNamespace \in Namespaces
    BY TransferInputs
  <2> QED
    BY <1>1, <2>1, <2>2 DEF OfferingId, RangeOf
<1>4. /\ DOMAIN offeringIssuer = registered
      /\ \A id \in registered : offeringIssuer[id] = id.issuer /\ id.issuer \in Issuers
  BY <1>1, <1>3 DEF OfferingId
<1>5. \A id \in registered : offerItem[id] = <<id.issuer>> /\ get_offering(id) = id.issuer
  BY <1>1, <1>2, <1>3 DEF get_offering
<1>6. \A id \in OfferingId \ registered : offerItem[id] = <<>>
  BY <1>1
<1>7. RegistryTyped
  <2>1. issuerItem \in Seq(Issuers)
    BY <1>1, TransferInputs
  <2>2. offerItem \in [OfferingId -> Seq(Issuers)]
    BY <1>1 DEF OfferingId
  <2>3. namespaceItem \in [Issuers -> Seq(Namespaces)]
    BY <1>1, TransferInputs
  <2> QED
    BY <1>2, <1>3, <1>4, <2>1, <2>2, <2>3 DEF RegistryTyped
<1>8. ListedOnce
  <2>1. \A id \in OfferingId : Len(offerItem[id]) <= 1 /\ (offerItem[id] # <<>> <=> id \in registered)
    <3> TAKE id \in OfferingId
    <3>1. CASE id \in registered
      <4>1. Len(<<id.issuer>>) <= 1 /\ <<id.issuer>> # <<>>
        OBVIOUS
      <4>2. offerItem[id] = <<id.issuer>>
        BY <1>5, <3>1
      <4> QED
        BY <3>1, <4>1, <4>2, Zenon
    <3>2. CASE id \notin registered
      BY <1>6, <3>2
    <3> QED
      BY <3>1, <3>2
  <2>2. \A id \in registered : id.namespace \in RangeOf(namespaceItem[id.issuer])
    <3> TAKE id \in registered
    <3>1. namespaceItem[id.issuer] = <<IndexedNamespace>>
      BY <1>1, <1>3, <1>4
    <3>2. 1 \in DOMAIN <<IndexedNamespace>> /\ <<IndexedNamespace>>[1] = IndexedNamespace
      OBVIOUS
    <3> QED
      BY <1>3, <3>1, <3>2 DEF RangeOf
  <2> QED
    BY <1>2, <1>3, <1>4, <2>1, <2>2 DEF ListedOnce
<1>9. \A id \in DOMAIN offeringIssuer : HeirOf(id) = id
  BY <1>4, <1>7, HeirFacts
<1>10. LookupsResolve /\ HeirsAreInert
  BY <1>4, <1>9, HeirsRestated
<1>11. OnlyIndexedIssuersHandOver
  BY <1>4, <1>5 DEF OnlyIndexedIssuersHandOver, get_current_issuer, IssuerMayAct
<1> QED
  BY <1>2, <1>7, <1>8, <1>10, <1>11 DEF TransferSound, RegistrySound, RegistryCoherent,
    ProposersMayAct, WindowsBounded

(***************************************************************************)
(* What a step may do to the registry and to the proposals.                *)
(***************************************************************************)

\* The steps that leave both alone.
QuietStep ==
  \/ VestingCall
  \/ \E id \in DOMAIN offeringIssuer, delay \in Delays : set_claim_delay(id, delay)
  \/ \E on \in BOOLEAN : SetStopped(on)
  \/ Tick
  \/ UNCHANGED vars
LEMMA QuietKeepsSound ==
  ASSUME TransferSound, QuietStep
  PROVE  TransferSound'
<1>1. UNCHANGED <<registryVars, pendingTransfer>>
  BY Zenon DEF QuietStep, VestingCall, set_claim_delay, SetStopped, Tick, vars
<1>2. now' \in Nat
  <2>1. UNCHANGED now \/ Tick
    BY Zenon DEF QuietStep, VestingCall, VestingNext, vesting_register, accelerate_vesting,
      vesting_claim, set_claim_delay, SetStopped, vars
  <2> QED
    BY <2>1 DEF Tick, TransferSound, WindowsBounded
<1>3. RegistrySound'
  BY <1>1, RegistryFrame DEF TransferSound
<1>4. ProposersMayAct'
  BY <1>1 DEF TransferSound, ProposersMayAct, IssuerMayAct, get_offering, registryVars
<1>5. WindowsBounded'
  BY <1>1, <1>2 DEF TransferSound, WindowsBounded
<1> QED
  BY <1>3, <1>4, <1>5 DEF TransferSound

LEMMA ClampedIsBounded ==
  ASSUME NEW expiry_secs \in Nat
  PROVE  Clamped(expiry_secs) \in 0..MAX_ISSUER_TRANSFER_EXPIRY_SECS
BY TransferInputs DEF Clamped, Least

\* A proposal of somebody who may act, with a bounded window, made now.
LEMMA ProposalKeepsSound ==
  ASSUME TransferSound, NEW id \in DOMAIN offeringIssuer, IssuerMayAct(id),
         UNCHANGED <<now, registryVars>>,
         DOMAIN pendingTransfer' = DOMAIN pendingTransfer \cup {id},
         \A j \in DOMAIN pendingTransfer \ {id} : pendingTransfer'[j] = pendingTransfer[j],
         pendingTransfer'[id] \in
           [new_issuer : Issuers, timestamp : Nat,
            expiry_secs : 0..MAX_ISSUER_TRANSFER_EXPIRY_SECS]
  PROVE  TransferSound'
<1>1. RegistrySound'
  BY RegistryFrame DEF TransferSound
<1>2. ProposersMayAct'
  BY DEF TransferSound, ProposersMayAct, IssuerMayAct, get_offering, registryVars
<1>3. WindowsBounded'
  BY DEF TransferSound, WindowsBounded
<1> QED
  BY <1>1, <1>2, <1>3 DEF TransferSound

LEMMA ProposeKeepsSound ==
  ASSUME TransferSound, NEW id \in DOMAIN offeringIssuer, NEW new_issuer \in Issuers,
         NEW expiry \in Expiries, propose_issuer_transfer(id, new_issuer, expiry)
  PROVE  TransferSound'
<1> DEFINE window == IF expiry = 0 THEN 0 ELSE Clamped(expiry)
<1>1. window \in 0..MAX_ISSUER_TRANSFER_EXPIRY_SECS
  BY TransferInputs, ClampedIsBounded
<1> HIDE DEF window
<1>2. pendingTransfer' = Put(pendingTransfer, id,
        [new_issuer |-> new_issuer, timestamp |-> now, expiry_secs |-> window])
  BY DEF propose_issuer_transfer, window
<1>3. /\ DOMAIN pendingTransfer' = DOMAIN pendingTransfer \cup {id}
      /\ \A j \in DOMAIN pendingTransfer \ {id} : pendingTransfer'[j] = pendingTransfer[j]
      /\ pendingTransfer'[id] =
           [new_issuer |-> new_issuer, timestamp |-> now, expiry_secs |-> window]
  BY <1>2 DEF Put
<1>4. IssuerMayAct(id) /\ UNCHANGED <<now, registryVars>>
  BY DEF propose_issuer_transfer
<1>5. now \in Nat
  BY DEF TransferSound, WindowsBounded
<1> QED
  BY <1>1, <1>3, <1>4, <1>5, ProposalKeepsSound

LEMMA ReplaceKeepsSound ==
  ASSUME TransferSound, NEW id \in DOMAIN offeringIssuer, NEW new_issuer \in Issuers,
         replace_issuer_transfer(id, new_issuer)
  PROVE  TransferSound'
<1>1. /\ IssuerMayAct(id) /\ UNCHANGED <<now, registryVars>>
      /\ id \in DOMAIN pendingTransfer
      /\ pendingTransfer' = [pendingTransfer EXCEPT
           ![id] = [pendingTransfer[id] EXCEPT !.new_issuer = new_issuer, !.timestamp = now]]
  BY DEF replace_issuer_transfer
<1>2. /\ DOMAIN pendingTransfer' = DOMAIN pendingTransfer
      /\ \A j \in DOMAIN pendingTransfer \ {id} : pendingTransfer'[j] = pendingTransfer[j]
      /\ pendingTransfer'[id] =
           [pendingTransfer[id] EXCEPT !.new_issuer = new_issuer, !.timestamp = now]
  BY <1>1
<1>3. /\ now \in Nat
      /\ pendingTransfer[id] \in
           [new_issuer : Issuers, timestamp : Nat,
            expiry_secs : 0..MAX_ISSUER_TRANSFER_EXPIRY_SECS]
  BY <1>1 DEF TransferSound, WindowsBounded
<1>4. pendingTransfer'[id] \in
        [new_issuer : Issuers, timestamp : Nat,
         expiry_secs : 0..MAX_ISSUER_TRANSFER_EXPIRY_SECS]
  BY <1>2, <1>3
<1> QED
  BY <1>1, <1>2, <1>4, ProposalKeepsSound

\* Dropping a proposal while the registry stays, or only grows.
LEMMA DroppingKeepsProposals ==
  ASSUME TransferSound, NEW id, pendingTransfer' = Without(pendingTransfer, id),
         UNCHANGED now,
         \A j \in DOMAIN offeringIssuer :
           j \in DOMAIN offeringIssuer' /\ get_offering(j)' = get_offering(j)
  PROVE  ProposersMayAct' /\ WindowsBounded'
<1>1. /\ DOMAIN pendingTransfer' = DOMAIN pendingTransfer \ {id}
      /\ \A j \in DOMAIN pendingTransfer' : pendingTransfer'[j] = pendingTransfer[j]
  BY DEF Without
<1>2. ASSUME NEW j \in DOMAIN pendingTransfer'
      PROVE  j \in DOMAIN offeringIssuer' /\ get_offering(j)' = j.issuer
  BY <1>1 DEF TransferSound, ProposersMayAct, IssuerMayAct
<1>3. ProposersMayAct'
  BY <1>2 DEF ProposersMayAct, IssuerMayAct
<1>4. WindowsBounded'
  BY <1>1 DEF TransferSound, WindowsBounded
<1> QED
  BY <1>3, <1>4

LEMMA DropKeepsSound ==
  ASSUME TransferSound, NEW id, pendingTransfer' = Without(pendingTransfer, id),
         UNCHANGED <<now, registryVars>>
  PROVE  TransferSound'
<1>1. \A j \in DOMAIN offeringIssuer :
        j \in DOMAIN offeringIssuer' /\ get_offering(j)' = get_offering(j)
  BY DEF registryVars, get_offering
<1> QED
  BY <1>1, RegistryFrame, DroppingKeepsProposals DEF TransferSound

\* What an acceptance that hands an offering over rests on.
LEMMA HandOverStep ==
  ASSUME TransferSound, NEW new_issuer \in Issuers, NEW namespace \in Namespaces,
         NEW id \in find_pending_transfer_for_new_issuer(new_issuer, namespace),
         NEW new, new = [issuer |-> new_issuer, namespace |-> namespace],
         new_issuer # id.issuer, get_offering(new) = None, HandOver(id, new)
  PROVE  /\ RegistrySound'
         /\ id \in DOMAIN offeringIssuer
         /\ \A j \in DOMAIN offeringIssuer :
              j \in DOMAIN offeringIssuer' /\ get_offering(j)' = get_offering(j)
         /\ offeringIssuer'[id] = new_issuer
         /\ \A j \in DOMAIN offeringIssuer \ {id} : offeringIssuer'[j] = offeringIssuer[j]
<1>1. /\ id \in DOMAIN pendingTransfer
      /\ id.namespace = namespace
      /\ id.issuer \in RangeOf(issuerItem)
  BY FoundIsPending
<1>2. id \in DOMAIN offeringIssuer /\ IssuerMayAct(id)
  BY <1>1 DEF TransferSound, ProposersMayAct
<1>3. new \in OfferingId /\ new.namespace = id.namespace /\ new.issuer = new_issuer
  BY <1>1 DEF OfferingId
<1> QED
  BY <1>1, <1>2, <1>3, HandOverKeepsRegistry DEF TransferSound

LEMMA AcceptKeepsSound ==
  ASSUME TransferSound, NEW new_issuer \in Issuers, NEW namespace \in Namespaces,
         accept_issuer_transfer(new_issuer, namespace)
  PROVE  TransferSound'
<1> DEFINE new == [issuer |-> new_issuer, namespace |-> namespace]
<1>1. PICK id \in find_pending_transfer_for_new_issuer(new_issuer, namespace) :
        /\ \/ UNCHANGED registryVars
           \/ /\ new_issuer # id.issuer
              /\ get_offering(new) = None
              /\ HandOver(id, new)
        /\ pendingTransfer' = Without(pendingTransfer, id)
        /\ UNCHANGED now
  BY DEF accept_issuer_transfer, NotYetRegistered
<1>2. CASE UNCHANGED registryVars
  BY <1>1, <1>2, DropKeepsSound
<1>3. CASE new_issuer # id.issuer /\ get_offering(new) = None /\ HandOver(id, new)
  <2> HIDE DEF new
  <2>1. /\ RegistrySound'
        /\ \A j \in DOMAIN offeringIssuer :
             j \in DOMAIN offeringIssuer' /\ get_offering(j)' = get_offering(j)
    BY <1>3, HandOverStep DEF new
  <2> QED
    BY <1>1, <2>1, DroppingKeepsProposals DEF TransferSound
<1> QED
  BY <1>1, <1>2, <1>3

LEMMA RegisterKeepsSound ==
  ASSUME TransferSound, NEW id \in Offered, register_offering(id)
  PROVE  TransferSound'
<1>1. /\ RegistrySound'
      /\ \A j \in DOMAIN offeringIssuer :
           j \in DOMAIN offeringIssuer' /\ get_offering(j)' = get_offering(j)
  BY TransferInputs, RegisterKeepsRegistry DEF TransferSound
<1>2. UNCHANGED <<now, pendingTransfer>>
  BY DEF register_offering
<1>3. ASSUME NEW j \in DOMAIN pendingTransfer'
      PROVE  j \in DOMAIN offeringIssuer' /\ get_offering(j)' = j.issuer
  BY <1>1, <1>2 DEF TransferSound, ProposersMayAct, IssuerMayAct
<1>4. ProposersMayAct'
  BY <1>3 DEF ProposersMayAct, IssuerMayAct
<1>5. WindowsBounded'
  BY <1>2 DEF TransferSound, WindowsBounded
<1> QED
  BY <1>1, <1>4, <1>5 DEF TransferSound

(***************************************************************************)
(* The two action properties, step by step.                                *)
(***************************************************************************)

\* The record of an identity decides who may act, and never changes.
RecordsFixed ==
  \A id \in DOMAIN offeringIssuer :
    id \in DOMAIN offeringIssuer' /\ IssuerMayAct(id)' = IssuerMayAct(id)

\* HandoverByConsent without the schedules.
Consented ==
  \A id \in DOMAIN offeringIssuer :
    offeringIssuer'[id] # offeringIssuer[id] =>
      /\ ByConsent(id)
      /\ DelayGoesAlong(id, [id EXCEPT !.issuer = offeringIssuer'[id]])

LEMMA RegistryUnchanged ==
  ASSUME UNCHANGED registryVars
  PROVE  RecordsFixed /\ Consented
BY DEF registryVars, RecordsFixed, Consented, IssuerMayAct, get_offering

LEMMA GottenFixed ==
  ASSUME \A id \in DOMAIN offeringIssuer :
           id \in DOMAIN offeringIssuer' /\ get_offering(id)' = get_offering(id)
  PROVE  RecordsFixed
BY Zenon DEF RecordsFixed, IssuerMayAct

LEMMA InTime ==
  ASSUME TransferSound, NEW id \in DOMAIN pendingTransfer, NotExpired(pendingTransfer[id])
  PROVE  now - pendingTransfer[id].timestamp <= LongestWindow
<1>1. /\ now \in Nat
      /\ pendingTransfer[id].timestamp \in Nat
      /\ pendingTransfer[id].expiry_secs \in 0..MAX_ISSUER_TRANSFER_EXPIRY_SECS
  BY DEF TransferSound, WindowsBounded
<1>2. /\ ISSUER_TRANSFER_EXPIRY_SECS \in Nat /\ MAX_ISSUER_TRANSFER_EXPIRY_SECS \in Nat
  BY TransferInputs
<1>3. EffectiveExpiry(pendingTransfer[id]) <= LongestWindow
  BY <1>1, <1>2 DEF EffectiveExpiry, LongestWindow
<1>4. EffectiveExpiry(pendingTransfer[id]) \in Nat /\ LongestWindow \in Nat
  BY <1>1, <1>2 DEF EffectiveExpiry, LongestWindow
<1> QED
  BY <1>1, <1>3, <1>4 DEF NotExpired

LEMMA DelayMoved ==
  ASSUME NEW id, NEW new, new # id, claimDelay' = MovedSetting(claimDelay, id, new)
  PROVE  DelayGoesAlong(id, new)
BY DEF MovedSetting, DelayGoesAlong, Put, Without

LEMMA AcceptIsConsented ==
  ASSUME TransferSound, NEW new_issuer \in Issuers, NEW namespace \in Namespaces,
         accept_issuer_transfer(new_issuer, namespace)
  PROVE  RecordsFixed /\ Consented
<1> DEFINE new == [issuer |-> new_issuer, namespace |-> namespace]
<1>1. PICK id \in find_pending_transfer_for_new_issuer(new_issuer, namespace) :
        /\ NotExpired(pendingTransfer[id])
        /\ \/ UNCHANGED registryVars
           \/ /\ new_issuer # id.issuer
              /\ get_offering(new) = None
              /\ HandOver(id, new)
        /\ pendingTransfer' = Without(pendingTransfer, id)
  BY DEF accept_issuer_transfer, NotYetRegistered
<1>2. CASE UNCHANGED registryVars
  BY <1>2, RegistryUnchanged
<1>3. CASE new_issuer # id.issuer /\ get_offering(new) = None /\ HandOver(id, new)
  <2>1. /\ id \in DOMAIN pendingTransfer
        /\ pendingTransfer[id].new_issuer = new_issuer
        /\ id.namespace = namespace
    BY FoundIsPending
  <2>2. new.issuer = new_issuer /\ new # id
    BY <1>3
  <2>3. /\ id \in DOMAIN offeringIssuer
        /\ \A j \in DOMAIN offeringIssuer :
             j \in DOMAIN offeringIssuer' /\ get_offering(j)' = get_offering(j)
        /\ offeringIssuer'[id] = new_issuer
        /\ \A j \in DOMAIN offeringIssuer \ {id} : offeringIssuer'[j] = offeringIssuer[j]
    <3> HIDE DEF new
    <3> QED
      BY <1>3, HandOverStep DEF new
  <2>4. new = [id EXCEPT !.issuer = new_issuer]
    <3>1. id \in [issuer : Issuers, namespace : Namespaces]
      BY <2>3 DEF TransferSound, RegistrySound, RegistryTyped, OfferingId
    <3> QED
      BY <2>1, <3>1
  <2> HIDE DEF new
  <2>5. DelayGoesAlong(id, new)
    BY <1>3, <2>2, DelayMoved DEF HandOver
  <2>6. id \notin DOMAIN pendingTransfer'
    BY <1>1 DEF Without
  <2>7. now - pendingTransfer[id].timestamp <= LongestWindow
    BY <1>1, <2>1, InTime
  <2>8. ByConsent(id)
    BY <2>1, <2>3, <2>6, <2>7 DEF ByConsent
  <2>9. Consented
    BY <2>3, <2>4, <2>5, <2>8 DEF Consented
  <2> QED
    BY <2>3, <2>9, GottenFixed
<1> QED
  BY <1>1, <1>2, <1>3

LEMMA RegisterIsConsented ==
  ASSUME TransferSound, NEW new \in Offered, register_offering(new)
  PROVE  RecordsFixed /\ Consented
<1>1. \A id \in DOMAIN offeringIssuer :
        id \in DOMAIN offeringIssuer' /\ get_offering(id)' = get_offering(id)
  BY TransferInputs, RegisterKeepsRegistry DEF TransferSound
<1>2. \A id \in DOMAIN offeringIssuer : offeringIssuer'[id] = offeringIssuer[id]
  BY DEF register_offering, Put
<1>3. Consented
  BY <1>2 DEF Consented
<1> QED
  BY <1>1, <1>3, GottenFixed

-----------------------------------------------------------------------------
(***************************************************************************)
(* Every step                                                              *)
(***************************************************************************)

LEMMA NextSound ==
  ASSUME TransferSound, [Next]_vars
  PROVE  TransferSound' /\ RecordsFixed /\ Consented
<1>1. CASE QuietStep
  <2>1. UNCHANGED registryVars
    BY <1>1, Zenon DEF QuietStep, VestingCall, set_claim_delay, SetStopped, Tick, vars
  <2> QED
    BY <1>1, <2>1, QuietKeepsSound, RegistryUnchanged
<1>2. CASE \E id \in Offered : register_offering(id)
  BY <1>2, RegisterKeepsSound, RegisterIsConsented
<1>3. ASSUME NEW id \in DOMAIN offeringIssuer, NEW new_issuer \in Heirs[id],
             \/ \E expiry \in Expiries : propose_issuer_transfer(id, new_issuer, expiry)
             \/ replace_issuer_transfer(id, new_issuer)
      PROVE  TransferSound' /\ RecordsFixed /\ Consented
  <2>1. id \in OfferingId
    BY DEF TransferSound, RegistrySound, RegistryTyped
  <2>2. new_issuer \in Issuers
    BY <2>1, TransferInputs
  <2>3. UNCHANGED registryVars
    BY <1>3, Zenon DEF propose_issuer_transfer, replace_issuer_transfer
  <2> QED
    BY <1>3, <2>2, <2>3, ProposeKeepsSound, ReplaceKeepsSound, RegistryUnchanged
<1>4. ASSUME NEW id \in DOMAIN offeringIssuer, cancel_issuer_transfer(id)
      PROVE  TransferSound' /\ RecordsFixed /\ Consented
  BY <1>4, DropKeepsSound, RegistryUnchanged DEF cancel_issuer_transfer
<1>5. ASSUME NEW new_issuer \in Issuers, NEW namespace \in Namespaces,
             accept_issuer_transfer(new_issuer, namespace)
      PROVE  TransferSound' /\ RecordsFixed /\ Consented
  BY <1>5, AcceptKeepsSound, AcceptIsConsented
<1>6. ASSUME NEW new_issuer \in Issuers, NEW namespace \in Namespaces,
             reject_issuer_transfer(new_issuer, namespace)
      PROVE  TransferSound' /\ RecordsFixed /\ Consented
  BY <1>6, DropKeepsSound, RegistryUnchanged DEF reject_issuer_transfer
<1> QED
  BY <1>1, <1>2, <1>3, <1>4, <1>5, <1>6, Zenon DEF Next, QuietStep

LEMMA TransferSoundness == Spec => []TransferSound
<1>1. TransferSound /\ [Next]_vars => TransferSound'
  BY NextSound
<1> QED
  BY <1>1, InitSound, PTL DEF Spec

(***************************************************************************)
(* The four indices agree whatever is registered, handed over, and handed  *)
(* over again by the old issuer; the current issuer is found in one step.  *)
(***************************************************************************)
THEOREM IndicesAgree == Spec => []RegistryCoherent
<1>1. TransferSound => RegistryCoherent
  BY DEF TransferSound, RegistrySound
<1> QED
  BY <1>1, TransferSoundness, PTL

(***************************************************************************)
(* Only an issuer an earlier version of the contract indexed, or one that  *)
(* was handed an offering, ever takes part in a transfer that succeeds.    *)
(***************************************************************************)
THEOREM UnindexedNeverHandOver == Spec => []OnlyIndexedIssuersHandOver
<1>1. TransferSound => OnlyIndexedIssuersHandOver
  BY DEF TransferSound, RegistrySound
<1> QED
  BY <1>1, TransferSoundness, PTL

(***************************************************************************)
(* The identity handed to a new issuer stays without use for that issuer:  *)
(* the record accept_issuer_transfer copies names the old one.             *)
(***************************************************************************)
THEOREM InheritedIdentitiesAreInert == Spec => []HeirsAreInert
<1>1. TransferSound => HeirsAreInert
  BY DEF TransferSound, RegistrySound
<1> QED
  BY <1>1, TransferSoundness, PTL

(***************************************************************************)
(* Who may act on an identity is settled when it is registered: no later   *)
(* call, a transfer included, gives or takes that power.                   *)
(***************************************************************************)
THEOREM AuthorityIsFixed ==
  Spec => [][ \A id \in DOMAIN offeringIssuer :
                id \in DOMAIN offeringIssuer' /\ IssuerMayAct(id)' = IssuerMayAct(id) ]_vars
<1>1. TransferSound /\ [Next]_vars =>
        [ \A id \in DOMAIN offeringIssuer :
            id \in DOMAIN offeringIssuer' /\ IssuerMayAct(id)' = IssuerMayAct(id) ]_vars
  BY NextSound DEF RecordsFixed
<1> QED
  BY <1>1, TransferSoundness, PTL DEF Spec

(***************************************************************************)
(* An offering passes to another issuer only by a proposal to that issuer  *)
(* that is still open, which it uses up, and the claim delay goes along.   *)
(***************************************************************************)
THEOREM TransfersAreConsented ==
  Spec => [][ \A id \in DOMAIN offeringIssuer :
                offeringIssuer'[id] # offeringIssuer[id] =>
                  /\ ByConsent(id)
                  /\ DelayGoesAlong(id, [id EXCEPT !.issuer = offeringIssuer'[id]]) ]_vars
<1>1. TransferSound /\ [Next]_vars =>
        [ \A id \in DOMAIN offeringIssuer :
            offeringIssuer'[id] # offeringIssuer[id] =>
              /\ ByConsent(id)
              /\ DelayGoesAlong(id, [id EXCEPT !.issuer = offeringIssuer'[id]]) ]_vars
  BY NextSound DEF Consented
<1> QED
  BY <1>1, TransferSoundness, PTL DEF Spec

-----------------------------------------------------------------------------
(***************************************************************************)
(* Vesting: nobody is booked more than was promised                        *)
(***************************************************************************)

VestingSound ==
  /\ now \in Nat
  /\ schedule \in [DOMAIN schedule -> Schedule]
  /\ \A b \in DOMAIN schedule : schedule[b].end_ts > schedule[b].start_ts
  /\ DOMAIN claimed = DOMAIN schedule
  /\ \A b \in DOMAIN schedule : claimed[b] \in 0..schedule[b].total_amount

LEMMA ProductIsNat ==
  ASSUME NEW a \in Nat, NEW b \in Nat
  PROVE  ProductOrZero(a, b) \in Nat
<1>1. a * b \in Nat
  OBVIOUS
<1> QED
  BY <1>1 DEF ProductOrZero

LEMMA QuotientIsNat ==
  ASSUME NEW a \in Nat, NEW d \in Nat \ {0}
  PROVE  a \div d \in Nat
OBVIOUS

LEMMA BaseVestedIsNat ==
  ASSUME NEW s \in Schedule, s.end_ts > s.start_ts, NEW time \in Nat
  PROVE  BaseVested(s, time) \in Nat
<1>1. /\ s.total_amount \in 1..I128_MAX /\ I128_MAX \in Nat
      /\ s.cliff_ts \in Nat /\ s.start_ts \in Nat /\ s.end_ts \in Nat
  BY VestingInputs DEF Schedule
<1>2. CASE time > s.start_ts
  <2>1. time - s.start_ts \in Nat /\ s.total_amount \in Nat /\ s.end_ts - s.start_ts \in Nat \ {0}
    BY <1>1, <1>2
  <2>2. ProductOrZero(s.total_amount, time - s.start_ts) \in Nat
    BY <2>1, ProductIsNat
  <2>3. ProductOrZero(s.total_amount, time - s.start_ts) \div (s.end_ts - s.start_ts) \in Nat
    BY <2>1, <2>2, QuotientIsNat
  <2> QED
    BY <1>1, <2>3 DEF BaseVested
<1>3. CASE time <= s.start_ts
  BY <1>1, <1>3 DEF BaseVested
<1> QED
  BY <1>1, <1>2, <1>3

\* compute_vested is an amount, at most the total.
LEMMA VestedWithinTotal ==
  ASSUME NEW s \in Schedule, s.end_ts > s.start_ts, NEW time \in Nat
  PROVE  compute_vested(s, time) \in 0..s.total_amount
<1>1. /\ s.total_amount \in 1..I128_MAX /\ s.accelerated_amount \in 0..I128_MAX
      /\ s.cliff_ts \in Nat /\ s.start_ts \in Nat /\ s.end_ts \in Nat
      /\ I128_MAX \in Nat
  BY VestingInputs DEF Schedule
<1>2. BaseVested(s, time) \in Nat
  BY BaseVestedIsNat
<1> QED
  BY <1>1, <1>2 DEF compute_vested, Least

LEMMA AcceleratedWithinTotal ==
  ASSUME NEW s \in Schedule, NEW bps \in Nat
  PROVE  Accelerated(s, bps) \in 0..I128_MAX
<1>1. /\ s.total_amount \in 1..I128_MAX /\ s.accelerated_amount \in 0..I128_MAX
      /\ BPS \in Nat \ {0} /\ I128_MAX \in Nat
  BY VestingInputs DEF Schedule
<1>2. ProductOrZero(s.total_amount, bps) \in Nat
  <2>1. s.total_amount \in Nat
    BY <1>1
  <2> QED
    BY <2>1, ProductIsNat
<1>3. ProductOrZero(s.total_amount, bps) \div BPS \in Nat
  BY <1>1, <1>2, QuotientIsNat
<1> QED
  BY <1>1, <1>3 DEF Accelerated, Least

LEMMA GrantKeepsVesting ==
  ASSUME VestingSound, NEW i \in Granters, NEW b, NEW plan \in Plans,
         vesting_register(i, b, plan)
  PROVE  VestingSound'
<1> DEFINE s == [issuer |-> i, total_amount |-> plan.total_amount,
                 cliff_ts |-> plan.cliff_ts, start_ts |-> plan.start_ts,
                 end_ts |-> plan.end_ts, accelerated_amount |-> 0]
<1>1. /\ plan \in [total_amount : Int, cliff_ts : Nat, start_ts : Nat, end_ts : Nat]
      /\ plan.total_amount <= I128_MAX /\ I128_MAX \in Nat /\ i \in Issuers
  BY VestingInputs DEF Plan
<1>2. plan.total_amount > 0 /\ plan.end_ts > plan.start_ts
  BY DEF vesting_register, ValidPlan
<1>3. s \in Schedule /\ s.end_ts > s.start_ts /\ s.total_amount \in Nat
  BY <1>1, <1>2 DEF Schedule
<1>4. /\ schedule' = Put(schedule, b, s) /\ claimed' = Put(claimed, b, 0)
      /\ UNCHANGED now
  BY DEF vesting_register
<1> HIDE DEF s
<1>5. /\ schedule' = [j \in DOMAIN schedule \cup {b} |-> IF j = b THEN s ELSE schedule[j]]
      /\ claimed' = [j \in DOMAIN claimed \cup {b} |-> IF j = b THEN 0 ELSE claimed[j]]
  BY <1>4 DEF Put
<1> QED
  BY <1>3, <1>4, <1>5 DEF VestingSound

LEMMA AccelerationKeepsVesting ==
  ASSUME VestingSound, NEW b, NEW t, NEW bps \in Accelerations,
         accelerate_vesting(b, t, bps)
  PROVE  VestingSound'
<1>1. b \in DOMAIN schedule /\ UNCHANGED <<now, claimed>> /\ bps \in Nat
  BY VestingInputs DEF accelerate_vesting
<1> DEFINE s == [schedule[b] EXCEPT !.accelerated_amount = Accelerated(schedule[b], bps)]
<1>2. schedule' = [schedule EXCEPT ![b] = s]
  BY DEF accelerate_vesting
<1>3. schedule[b] \in Schedule
  BY <1>1 DEF VestingSound
<1>4. Accelerated(schedule[b], bps) \in 0..I128_MAX
  BY <1>1, <1>3, AcceleratedWithinTotal
<1>5. /\ s \in Schedule /\ s.total_amount = schedule[b].total_amount
      /\ s.end_ts = schedule[b].end_ts /\ s.start_ts = schedule[b].start_ts
  BY <1>3, <1>4 DEF Schedule
<1> HIDE DEF s
<1> QED
  BY <1>1, <1>2, <1>5 DEF VestingSound

LEMMA ClaimKeepsVesting ==
  ASSUME VestingSound, NEW b, vesting_claim(b)
  PROVE  VestingSound'
<1>1. b \in DOMAIN schedule /\ UNCHANGED <<now, schedule>>
  BY DEF vesting_claim
<1> DEFINE due == compute_claimable(schedule[b], claimed[b], now)
<1>2. due > 0 /\ claimed' = [claimed EXCEPT ![b] = claimed[b] + due]
  BY DEF vesting_claim
<1>3. compute_vested(schedule[b], now) \in 0..schedule[b].total_amount
  BY <1>1, VestedWithinTotal DEF VestingSound
<1>4. claimed[b] \in 0..schedule[b].total_amount /\ schedule[b].total_amount \in Nat
  <2>1. schedule[b] \in Schedule
    BY <1>1 DEF VestingSound
  <2>2. schedule[b].total_amount \in 1..I128_MAX /\ I128_MAX \in Nat
    BY <2>1, VestingInputs DEF Schedule
  <2> QED
    BY <1>1, <2>2 DEF VestingSound
<1>5. due = compute_vested(schedule[b], now) - claimed[b]
  BY <1>2, <1>3, <1>4 DEF compute_claimable
<1>6. claimed[b] + due \in 0..schedule[b].total_amount
  BY <1>3, <1>4, <1>5
<1> HIDE DEF due
<1> QED
  BY <1>1, <1>2, <1>6 DEF VestingSound

LEMMA MigrationKeepsVesting ==
  ASSUME VestingSound, NEW i, NEW heir \in Issuers, migrate_offering_schedules(i, heir),
         UNCHANGED now
  PROVE  VestingSound'
<1>1. /\ DOMAIN schedule' = DOMAIN schedule /\ UNCHANGED claimed
      /\ \A b \in DOMAIN schedule :
           schedule'[b] \in {schedule[b], MigratedSchedule(schedule[b], heir)}
      /\ schedule' = [b \in DOMAIN schedule |-> schedule'[b]]
  BY DEF migrate_offering_schedules
<1>2. ASSUME NEW b \in DOMAIN schedule
      PROVE  /\ schedule'[b] \in Schedule
             /\ schedule'[b].total_amount = schedule[b].total_amount
             /\ schedule'[b].end_ts = schedule[b].end_ts
             /\ schedule'[b].start_ts = schedule[b].start_ts
  <2>1. schedule[b] \in Schedule
    BY DEF VestingSound
  <2>2. LET s == MigratedSchedule(schedule[b], heir)
        IN  /\ s \in Schedule /\ s.total_amount = schedule[b].total_amount
            /\ s.end_ts = schedule[b].end_ts /\ s.start_ts = schedule[b].start_ts
    BY <2>1 DEF MigratedSchedule, Schedule
  <2> QED
    BY <1>1, <2>1, <2>2
<1> QED
  BY <1>1, <1>2 DEF VestingSound

LEMMA NextKeepsVesting ==
  ASSUME VestingSound, [Next]_vars
  PROVE  VestingSound'
<1>1. CASE VestingNext
  BY <1>1, GrantKeepsVesting, AccelerationKeepsVesting, ClaimKeepsVesting DEF VestingNext
<1>2. CASE Tick
  <2>1. now' \in Nat /\ UNCHANGED <<schedule, claimed>>
    BY <1>2 DEF Tick, VestingSound, vestingVars
  <2> QED
    BY <2>1 DEF VestingSound
<1>3. CASE UNCHANGED <<now, schedule, claimed>>
  BY <1>3 DEF VestingSound
<1>4. ASSUME NEW i, NEW heir \in Issuers, migrate_offering_schedules(i, heir), UNCHANGED now
      PROVE  VestingSound'
  BY <1>4, MigrationKeepsVesting
<1>5. ASSUME NEW heir \in Issuers, NEW namespace, accept_issuer_transfer(heir, namespace)
      PROVE  VestingSound'
  <2>1. PICK id : /\ UNCHANGED now
                  /\ \/ UNCHANGED vestingVars
                     \/ migrate_offering_schedules(id.issuer, heir)
    BY <1>5 DEF accept_issuer_transfer, NotYetRegistered
  <2>2. CASE UNCHANGED vestingVars
    BY <1>3, <2>1, <2>2 DEF vestingVars
  <2>3. CASE migrate_offering_schedules(id.issuer, heir)
    BY <1>4, <2>1, <2>3
  <2> QED
    BY <2>1, <2>2, <2>3
<1>6. \/ VestingNext \/ Tick \/ UNCHANGED <<now, schedule, claimed>>
      \/ \E heir \in Issuers, namespace \in Namespaces : accept_issuer_transfer(heir, namespace)
  BY Zenon DEF Next, VestingCall, register_offering, set_claim_delay, propose_issuer_transfer,
    replace_issuer_transfer, cancel_issuer_transfer, reject_issuer_transfer, SetStopped,
    vars, vestingVars
<1> QED
  BY <1>1, <1>2, <1>3, <1>5, <1>6

(***************************************************************************)
(* However schedules are accelerated, handed over and claimed in between,  *)
(* nobody is booked more than the total of the schedule.                   *)
(***************************************************************************)
THEOREM NobodyClaimsMoreThanPromised == Spec => []ClaimedWithinTotal
<1>1. Init => VestingSound
  BY DEF Init, VestingInit, VestingSound
<1>2. VestingSound /\ [Next]_vars => VestingSound'
  BY NextKeepsVesting
<1>3. VestingSound => ClaimedWithinTotal
  <2> SUFFICES ASSUME VestingSound, NEW b \in DOMAIN schedule
               PROVE  claimed[b] <= schedule[b].total_amount
    BY DEF ClaimedWithinTotal
  <2>1. schedule[b].total_amount \in Int
    BY VestingInputs DEF VestingSound, Schedule
  <2> QED
    BY <2>1 DEF VestingSound
<1> QED
  BY <1>1, <1>2, <1>3, PTL DEF Spec

-----------------------------------------------------------------------------
(***************************************************************************)
(* The lists of schedules                                                  *)
(***************************************************************************)

\* A list of an heir after one more item b of issuer.
ListWith(issuer, list, b) == IF Held(issuer, b) THEN Append(list, b) ELSE list

LEMMA HeldIsAppended ==
  ASSUME NEW issuer, NEW list, NEW b, Held(issuer, b)
  PROVE  ListWith(issuer, list, b) = Append(list, b)
BY DEF ListWith

\* lists is the list of heir after each of the first n items of issuer.
Hands(lists, issuer, heir, n) ==
  lists = [k \in 0 .. n |->
             IF k = 0 THEN scheduleItem[heir]
             ELSE ListWith(issuer, lists[k - 1], scheduleItem[issuer][k])]

LEMMA ListsAfterIsTheSolution ==
  ASSUME NEW issuer, NEW heir
  PROVE  ListsAfter(issuer, heir) =
           CHOOSE lists : Hands(lists, issuer, heir, Len(scheduleItem[issuer]))
BY DEF ListsAfter, Hands, ListWith

(***************************************************************************)
(* When every item is held, the list grows by all of them: after k items   *)
(* it is the list of heir followed by those k, a function written out here *)
(* which solves the recursion.                                             *)
(***************************************************************************)
Joined(s, t, k) == [j \in 1 .. Len(s) + k |-> IF j <= Len(s) THEN s[j] ELSE t[j - Len(s)]]

LEMMA JoinedIsASequence ==
  ASSUME NEW S, NEW s \in Seq(S), NEW t \in Seq(S), NEW k \in 0 .. Len(t)
  PROVE  /\ Joined(s, t, k) \in Seq(S)
         /\ Len(Joined(s, t, k)) = Len(s) + k
         /\ Joined(s, t, 0) = s
<1>1. /\ Len(s) \in Nat /\ Len(t) \in Nat /\ DOMAIN s = 1 .. Len(s) /\ DOMAIN t = 1 .. Len(t)
      /\ s = [j \in 1 .. Len(s) |-> s[j]]
      /\ \A j \in 1 .. Len(s) : s[j] \in S
      /\ \A j \in 1 .. Len(t) : t[j] \in S
  OBVIOUS
<1>2. Len(s) + k \in Nat
  BY <1>1
<1>3. \A j \in 1 .. Len(s) + k : Joined(s, t, k)[j] \in S
  BY <1>1 DEF Joined
<1>4. Joined(s, t, k) \in [1 .. Len(s) + k -> S]
  BY <1>3 DEF Joined
<1>5. Joined(s, t, 0) = s
  BY <1>1 DEF Joined
<1> QED
  BY <1>2, <1>4, <1>5

LEMMA JoinedGrows ==
  ASSUME NEW S, NEW s \in Seq(S), NEW t \in Seq(S), NEW k \in 1 .. Len(t)
  PROVE  Append(Joined(s, t, k - 1), t[k]) = Joined(s, t, k)
<1>1. k - 1 \in 0 .. Len(t) /\ k \in 0 .. Len(t) /\ Len(s) \in Nat /\ t[k] \in S
  OBVIOUS
<1> DEFINE a == Joined(s, t, k - 1)
           b == Joined(s, t, k)
<1>2. /\ a \in Seq(S) /\ Len(a) = Len(s) + k - 1
      /\ b \in Seq(S) /\ Len(b) = Len(s) + k
  BY <1>1, JoinedIsASequence
<1>3. /\ \A j \in 1 .. Len(s) + k - 1 : b[j] = a[j]
      /\ b[Len(s) + k] = t[k]
  BY <1>1 DEF Joined
<1> HIDE DEF a, b
<1>4. Append(a, t[k]) = b
  BY <1>1, <1>2, <1>3
<1> QED
  BY <1>4 DEF a, b

LEMMA MovesWholeList ==
  ASSUME NEW issuer \in Issuers, NEW heir \in Issuers,
         scheduleItem \in [Issuers -> Seq(Beneficiaries)],
         \A k \in DOMAIN scheduleItem[issuer] : Held(issuer, scheduleItem[issuer][k])
  PROVE  MigratedList(issuer, heir) =
           Joined(scheduleItem[heir], scheduleItem[issuer], Len(scheduleItem[issuer]))
<1> DEFINE s == scheduleItem[heir]
           t == scheduleItem[issuer]
           n == Len(t)
<1>1. s \in Seq(Beneficiaries) /\ t \in Seq(Beneficiaries)
  OBVIOUS
<1>2. n \in Nat /\ DOMAIN t = 1 .. n
  BY <1>1
<1>3. \A k \in 1 .. n : Held(issuer, t[k])
  BY <1>2
<1> DEFINE joined == [k \in 0 .. n |-> Joined(s, t, k)]
<1>4. Hands(joined, issuer, heir, n)
  <2>1. ASSUME NEW k \in 0 .. n
        PROVE  joined[k] = IF k = 0 THEN s
                           ELSE ListWith(issuer, joined[k - 1], t[k])
    <3> HIDE DEF s, t
    <3>1. CASE k = 0
      BY <1>1, <1>2, <3>1, JoinedIsASequence
    <3>2. CASE k \in 1 .. n
      <4>1. k - 1 \in 0 .. n /\ k # 0 /\ Held(issuer, t[k])
        BY <1>2, <1>3, <3>2
      <4>2. Append(Joined(s, t, k - 1), t[k]) = Joined(s, t, k)
        BY <1>1, <3>2, JoinedGrows
      <4>3. joined[k] = Joined(s, t, k) /\ joined[k - 1] = Joined(s, t, k - 1)
        BY <4>1
      <4>4. joined[k] = ListWith(issuer, joined[k - 1], t[k])
        BY <4>1, <4>2, <4>3, HeldIsAppended, Zenon
      <4> HIDE DEF joined
      <4> QED
        BY <4>1, <4>4
    <3> QED
      BY <1>2, <3>1, <3>2
  <2>2. joined = [k \in 0 .. n |-> joined[k]]
    OBVIOUS
  <2> HIDE DEF joined
  <2> QED
    BY <2>1, <2>2 DEF Hands
<1> DEFINE lists == ListsAfter(issuer, heir)
<1>5. Hands(lists, issuer, heir, n)
  <2> HIDE DEF joined
  <2> QED
    BY <1>4, ListsAfterIsTheSolution
<1> HIDE DEF lists, joined
<1>6. ASSUME NEW k \in 0 .. n
      PROVE  lists[k] = IF k = 0 THEN s
                        ELSE ListWith(issuer, lists[k - 1], t[k])
  BY <1>5 DEF Hands
<1> DEFINE S == {k \in 0 .. n : lists[k] = Joined(s, t, k)}
<1> HIDE DEF s, t, n
<1>7. 0 \in S
  BY <1>1, <1>2, <1>6, JoinedIsASequence DEF n
<1>8. ASSUME NEW k \in 0 .. n - 1, k \in S
      PROVE  k + 1 \in S
  <2>1. k + 1 \in 1 .. n /\ k + 1 \in 0 .. n /\ k + 1 - 1 = k /\ k + 1 # 0
    BY <1>2
  <2>2. lists[k + 1] = Append(lists[k], t[k + 1])
    <3>1. Held(issuer, t[k + 1])
      BY <1>3, <2>1, Zenon
    <3>2. lists[k + 1] = ListWith(issuer, lists[k], t[k + 1])
      BY <1>6, <2>1
    <3>3. ListWith(issuer, lists[k], t[k + 1]) = Append(lists[k], t[k + 1])
      BY <3>1, HeldIsAppended
    <3> QED
      BY <3>2, <3>3
  <2>3. Append(Joined(s, t, k), t[k + 1]) = Joined(s, t, k + 1)
    BY <1>1, <2>1, JoinedGrows DEF n
  <2>4. lists[k] = Joined(s, t, k)
    BY <1>8
  <2> QED
    BY <2>1, <2>2, <2>3, <2>4
<1> HIDE DEF S
<1>9. \A k \in 0 .. n : k \in S
  BY <1>2, <1>7, <1>8, CountingUp
<1>10. n \in S
  BY <1>2, <1>9
<1> QED
  BY <1>10 DEF S, MigratedList, lists, n, s, t

\* What the list of heir holds then: its own items and those of issuer, each
\* at one place if it was at one place.
LEMMA JoinedHolds ==
  ASSUME NEW S, NEW s \in Seq(S), NEW t \in Seq(S), NEW j, j = Joined(s, t, Len(t)),
         \A x, y \in DOMAIN s : s[x] = s[y] => x = y,
         \A x, y \in DOMAIN t : t[x] = t[y] => x = y,
         \A x \in DOMAIN s : \A y \in DOMAIN t : s[x] # t[y]
  PROVE  /\ j \in Seq(S)
         /\ RangeOf(j) = RangeOf(s) \cup RangeOf(t)
         /\ \A x, y \in DOMAIN j : j[x] = j[y] => x = y
<1>1. /\ Len(s) \in Nat /\ Len(t) \in Nat /\ Len(t) \in 0 .. Len(t)
      /\ DOMAIN s = 1 .. Len(s) /\ DOMAIN t = 1 .. Len(t)
  OBVIOUS
<1>2. j \in Seq(S) /\ DOMAIN j = 1 .. Len(s) + Len(t)
  BY <1>1, JoinedIsASequence DEF Joined
<1>3. /\ \A x \in DOMAIN s : x \in DOMAIN j /\ j[x] = s[x]
      /\ \A y \in DOMAIN t : Len(s) + y \in DOMAIN j /\ j[Len(s) + y] = t[y]
      /\ \A x \in DOMAIN j :
           x \in DOMAIN s \/ (x > Len(s) /\ x - Len(s) \in DOMAIN t /\ j[x] = t[x - Len(s)])
  BY <1>1, <1>2 DEF Joined
<1>4. RangeOf(j) = RangeOf(s) \cup RangeOf(t)
  <2>1. RangeOf(j) \subseteq RangeOf(s) \cup RangeOf(t)
    BY <1>3 DEF RangeOf
  <2>2. RangeOf(s) \subseteq RangeOf(j)
    BY <1>3 DEF RangeOf
  <2>3. RangeOf(t) \subseteq RangeOf(j)
    BY <1>3 DEF RangeOf
  <2> QED
    BY <2>1, <2>2, <2>3
<1>5. ASSUME NEW x \in DOMAIN j, NEW y \in DOMAIN j, j[x] = j[y]
      PROVE  x = y
  <2>1. x \in Nat /\ y \in Nat
    BY <1>1, <1>2
  <2>2. CASE x \in DOMAIN s /\ y \in DOMAIN s
    BY <1>3, <1>5, <2>2
  <2>3. CASE x \notin DOMAIN s /\ y \notin DOMAIN s
    <3>1. x - Len(s) = y - Len(s)
      BY <1>3, <1>5, <2>3
    <3> QED
      BY <1>1, <2>1, <3>1
  <2>4. CASE x \in DOMAIN s /\ y \notin DOMAIN s
    BY <1>3, <1>5, <2>4
  <2>5. CASE x \notin DOMAIN s /\ y \in DOMAIN s
    BY <1>3, <1>5, <2>5
  <2> QED
    BY <2>2, <2>3, <2>4, <2>5
<1> QED
  BY <1>2, <1>4, <1>5

\* One more item that is not listed yet.
LEMMA AppendedHolds ==
  ASSUME NEW S, NEW s \in Seq(S), NEW b \in S, b \notin RangeOf(s),
         \A x, y \in DOMAIN s : s[x] = s[y] => x = y
  PROVE  /\ Append(s, b) \in Seq(S)
         /\ RangeOf(Append(s, b)) = RangeOf(s) \cup {b}
         /\ \A x, y \in DOMAIN Append(s, b) : Append(s, b)[x] = Append(s, b)[y] => x = y
<1> DEFINE j == Append(s, b)
           n == Len(s)
<1>1. /\ j \in Seq(S) /\ n \in Nat
      /\ DOMAIN s = 1 .. n /\ DOMAIN j = 1 .. n + 1
      /\ j[n + 1] = b /\ \A x \in 1 .. n : j[x] = s[x]
  OBVIOUS
<1> HIDE DEF j, n
<1>2. \A x \in DOMAIN j : x \in DOMAIN s \/ x = n + 1
  BY <1>1
<1>3. RangeOf(j) = RangeOf(s) \cup {b}
  <2>1. n + 1 \in DOMAIN j /\ \A x \in DOMAIN s : x \in DOMAIN j /\ j[x] = s[x]
    BY <1>1
  <2> QED
    BY <1>1, <1>2, <2>1 DEF RangeOf
<1>4. \A x \in DOMAIN s : s[x] # b
  BY DEF RangeOf
<1>5. \A x, y \in DOMAIN j : j[x] = j[y] => x = y
  BY <1>1, <1>2, <1>4
<1> QED
  BY <1>1, <1>3, <1>5 DEF j

\* The lists are the schedules: ScheduleIndexExact and what it needs.
ListsSound ==
  /\ DOMAIN schedule \subseteq Beneficiaries
  /\ acceleration \subseteq Beneficiaries \X Triggers
  /\ scheduleItem \in [Issuers -> Seq(Beneficiaries)]
  /\ ScheduleIndexExact

SchedulesOf(issuer) == {b \in DOMAIN schedule : schedule[b].issuer = issuer}

Injective(list) == \A j, k \in DOMAIN list : list[j] = list[k] => j = k

LEMMA IndexRestated ==
  ScheduleIndexExact <=>
    \A i \in Issuers :
      RangeOf(scheduleItem[i]) = SchedulesOf(i) /\ Injective(scheduleItem[i])
BY Zenon DEF ScheduleIndexExact, Listed, RangeOf, SchedulesOf, Injective

LEMMA GrantKeepsLists ==
  ASSUME ListsSound, NEW i \in Granters, NEW b \in Beneficiaries, NEW plan \in Plans,
         vesting_register(i, b, plan)
  PROVE  ListsSound'
<1> DEFINE s == [issuer |-> i, total_amount |-> plan.total_amount,
                 cliff_ts |-> plan.cliff_ts, start_ts |-> plan.start_ts,
                 end_ts |-> plan.end_ts, accelerated_amount |-> 0]
           old == scheduleItem[i]
           new == Append(old, b)
<1>1. i \in Issuers
  BY VestingInputs
<1>2. /\ b \notin DOMAIN schedule /\ schedule' = Put(schedule, b, s)
      /\ scheduleItem' = [scheduleItem EXCEPT ![i] = new]
      /\ UNCHANGED acceleration
  BY DEF vesting_register
<1>3. s.issuer = i
  OBVIOUS
<1> HIDE DEF s
<1>4. /\ DOMAIN schedule' = DOMAIN schedule \cup {b} /\ schedule'[b].issuer = i
      /\ \A c \in DOMAIN schedule : c # b /\ schedule'[c] = schedule[c]
  BY <1>2, <1>3 DEF Put
<1>5. \A k \in Issuers :
        RangeOf(scheduleItem[k]) = SchedulesOf(k) /\ Injective(scheduleItem[k])
  BY IndexRestated DEF ListsSound
<1>6. scheduleItem \in [Issuers -> Seq(Beneficiaries)] /\ old \in Seq(Beneficiaries)
  BY <1>1 DEF ListsSound
<1>7. b \notin RangeOf(old)
  BY <1>1, <1>2, <1>5 DEF SchedulesOf
<1>8. /\ new \in Seq(Beneficiaries) /\ RangeOf(new) = RangeOf(old) \cup {b}
      /\ Injective(new)
  <2>1. \A x, y \in DOMAIN old : old[x] = old[y] => x = y
    BY <1>1, <1>5 DEF Injective
  <2> HIDE DEF old
  <2> QED
    BY <1>6, <1>7, <2>1, AppendedHolds DEF Injective
<1> HIDE DEF new
<1>9. scheduleItem' \in [Issuers -> Seq(Beneficiaries)]
  BY <1>2, <1>6, <1>8
<1>10. ASSUME NEW k \in Issuers
       PROVE  RangeOf(scheduleItem'[k]) = SchedulesOf(k)' /\ Injective(scheduleItem'[k])
  <2>1. CASE k = i
    <3>1. scheduleItem'[k] = new
      BY <1>1, <1>2, <1>6, <2>1
    <3>2. SchedulesOf(k)' = SchedulesOf(k) \cup {b}
      BY <1>4, <2>1 DEF SchedulesOf
    <3> QED
      BY <1>1, <1>5, <1>8, <2>1, <3>1, <3>2
  <2>2. CASE k # i
    <3>1. scheduleItem'[k] = scheduleItem[k]
      BY <1>2, <1>6, <2>2
    <3>2. SchedulesOf(k)' = SchedulesOf(k)
      BY <1>4, <2>2 DEF SchedulesOf
    <3> QED
      BY <1>5, <3>1, <3>2
  <2> QED
    BY <2>1, <2>2
<1>11. ScheduleIndexExact'
  BY <1>10, Zenon DEF ScheduleIndexExact, Listed, RangeOf, SchedulesOf, Injective
<1> QED
  BY <1>2, <1>4, <1>9, <1>11 DEF ListsSound

\* Everything listed is held, so everything is handed over.
LEMMA MigrationMovesAll ==
  ASSUME VestingSound, ListsSound, NEW issuer \in Issuers, NEW heir \in Issuers,
         issuer # heir, migrate_offering_schedules(issuer, heir)
  PROVE  /\ scheduleItem' = [scheduleItem EXCEPT
              ![issuer] = <<>>,
              ![heir] = Joined(scheduleItem[heir], scheduleItem[issuer],
                               Len(scheduleItem[issuer]))]
         /\ DOMAIN schedule' = DOMAIN schedule
         /\ \A b \in SchedulesOf(issuer) : schedule'[b].issuer = heir
         /\ \A b \in DOMAIN schedule \ SchedulesOf(issuer) : schedule'[b] = schedule[b]
<1>1. Listed(issuer) = SchedulesOf(issuer)
  BY DEF ListsSound, ScheduleIndexExact, SchedulesOf
<1>2. \A b \in Listed(issuer) : Held(issuer, b)
  BY <1>1 DEF SchedulesOf, Held
<1>3. \A k \in DOMAIN scheduleItem[issuer] : Held(issuer, scheduleItem[issuer][k])
  BY <1>2, Zenon DEF Listed
<1>4. scheduleItem \in [Issuers -> Seq(Beneficiaries)]
  BY DEF ListsSound
<1>5. MigratedList(issuer, heir) =
        Joined(scheduleItem[heir], scheduleItem[issuer], Len(scheduleItem[issuer]))
  BY <1>3, <1>4, MovesWholeList
<1>6. scheduleItem' = [scheduleItem EXCEPT ![issuer] = <<>>,
                                           ![heir] = MigratedList(issuer, heir)]
  BY DEF migrate_offering_schedules, MigratedItems
<1>7. /\ DOMAIN schedule' = DOMAIN schedule
      /\ \A b \in DOMAIN schedule :
           /\ b \in SchedulesOf(issuer) => schedule'[b] = MigratedSchedule(schedule[b], heir)
           /\ b \notin SchedulesOf(issuer) => schedule'[b] = schedule[b]
  BY <1>1, <1>2, Zenon DEF migrate_offering_schedules
<1>8. ASSUME NEW b \in SchedulesOf(issuer)
      PROVE  schedule'[b].issuer = heir
  <2>1. b \in DOMAIN schedule
    BY DEF SchedulesOf
  <2>2. schedule[b] \in Schedule
    BY <2>1 DEF VestingSound
  <2>3. MigratedSchedule(schedule[b], heir).issuer = heir
    BY <2>2 DEF MigratedSchedule, Schedule
  <2> QED
    BY <1>7, <2>1, <2>3
<1>9. scheduleItem' = [scheduleItem EXCEPT
        ![issuer] = <<>>,
        ![heir] = Joined(scheduleItem[heir], scheduleItem[issuer], Len(scheduleItem[issuer]))]
  BY <1>5, <1>6, Zenon
<1> QED
  BY <1>7, <1>8, <1>9

LEMMA MigrationKeepsLists ==
  ASSUME VestingSound, ListsSound, NEW issuer \in Issuers, NEW heir \in Issuers,
         issuer # heir, migrate_offering_schedules(issuer, heir)
  PROVE  ListsSound'
<1> DEFINE s == scheduleItem[heir]
           t == scheduleItem[issuer]
           new == Joined(s, t, Len(t))
<1>1. /\ scheduleItem' = [scheduleItem EXCEPT ![issuer] = <<>>, ![heir] = new]
      /\ DOMAIN schedule' = DOMAIN schedule
      /\ \A b \in SchedulesOf(issuer) : schedule'[b].issuer = heir
      /\ \A b \in DOMAIN schedule \ SchedulesOf(issuer) : schedule'[b] = schedule[b]
  BY MigrationMovesAll
<1>2. \A k \in Issuers :
        RangeOf(scheduleItem[k]) = SchedulesOf(k) /\ Injective(scheduleItem[k])
  BY IndexRestated DEF ListsSound
<1>3. scheduleItem \in [Issuers -> Seq(Beneficiaries)]
  BY DEF ListsSound
<1>4. s \in Seq(Beneficiaries) /\ t \in Seq(Beneficiaries)
  BY <1>3
<1>5. /\ new \in Seq(Beneficiaries) /\ Injective(new)
      /\ RangeOf(new) = SchedulesOf(heir) \cup SchedulesOf(issuer)
  <2>1. /\ RangeOf(s) = SchedulesOf(heir) /\ RangeOf(t) = SchedulesOf(issuer)
        /\ \A x, y \in DOMAIN s : s[x] = s[y] => x = y
        /\ \A x, y \in DOMAIN t : t[x] = t[y] => x = y
    BY <1>2 DEF Injective
  <2>2. \A b : ~(b \in SchedulesOf(heir) /\ b \in SchedulesOf(issuer))
    BY DEF SchedulesOf
  <2> HIDE DEF s, t
  <2>3. \A x \in DOMAIN s : \A y \in DOMAIN t : s[x] # t[y]
    <3>1. /\ \A x \in DOMAIN s : s[x] \in SchedulesOf(heir)
          /\ \A y \in DOMAIN t : t[y] \in SchedulesOf(issuer)
      BY <2>1 DEF RangeOf
    <3> QED
      BY <2>2, <3>1
  <2> QED
    BY <1>4, <2>1, <2>3, JoinedHolds DEF Injective
<1> HIDE DEF new
<1>6. /\ scheduleItem'[issuer] = <<>> /\ scheduleItem'[heir] = new
      /\ \A k \in Issuers \ {issuer, heir} : scheduleItem'[k] = scheduleItem[k]
  BY <1>1, <1>3
<1>7. scheduleItem' \in [Issuers -> Seq(Beneficiaries)]
  <2>1. <<>> \in Seq(Beneficiaries)
    OBVIOUS
  <2> QED
    BY <1>1, <1>3, <1>5, <2>1
<1>8. ASSUME NEW k \in Issuers
      PROVE  RangeOf(scheduleItem'[k]) = SchedulesOf(k)' /\ Injective(scheduleItem'[k])
  <2>1. CASE k = issuer
    <3>1. SchedulesOf(k)' = {}
      BY <1>1, <2>1 DEF SchedulesOf
    <3>2. RangeOf(<<>>) = {} /\ Injective(<<>>)
      BY DEF RangeOf, Injective
    <3> QED
      BY <1>6, <2>1, <3>1, <3>2
  <2>2. CASE k = heir
    <3>1. SchedulesOf(k)' = SchedulesOf(heir) \cup SchedulesOf(issuer)
      BY <1>1, <2>2 DEF SchedulesOf
    <3> QED
      BY <1>5, <1>6, <2>2, <3>1
  <2>3. CASE k \notin {issuer, heir}
    <3>1. SchedulesOf(k)' = SchedulesOf(k)
      BY <1>1, <2>3 DEF SchedulesOf
    <3> QED
      BY <1>2, <1>6, <2>3, <3>1
  <2> QED
    BY <2>1, <2>2, <2>3
<1>9. ScheduleIndexExact'
  BY <1>8, Zenon DEF ScheduleIndexExact, Listed, RangeOf, SchedulesOf, Injective
<1> QED
  BY <1>1, <1>7, <1>9 DEF ListsSound, migrate_offering_schedules

(***************************************************************************)
(* What a step does to the schedules: a call of vesting.rs, the clock, a   *)
(* hand-over, or nothing.                                                  *)
(***************************************************************************)
MigrationStep(issuer, heir) ==
  /\ issuer # heir
  /\ NonePreCliff(issuer)
  /\ migrate_offering_schedules(issuer, heir)
  /\ UNCHANGED now

LEMMA VestingSteps ==
  ASSUME TransferSound, [Next]_vars
  PROVE  \/ VestingNext
         \/ now' = now + 1 /\ UNCHANGED vestingVars
         \/ UNCHANGED <<now, vestingVars>>
         \/ \E issuer, heir \in Issuers : MigrationStep(issuer, heir)
<1>1. ASSUME NEW heir \in Issuers, NEW namespace \in Namespaces,
             accept_issuer_transfer(heir, namespace)
      PROVE  \/ UNCHANGED <<now, vestingVars>>
             \/ \E issuer \in Issuers : MigrationStep(issuer, heir)
  <2>1. PICK id \in find_pending_transfer_for_new_issuer(heir, namespace) :
          /\ \/ UNCHANGED vestingVars
             \/ /\ heir # id.issuer
                /\ NonePreCliff(id.issuer)
                /\ migrate_offering_schedules(id.issuer, heir)
          /\ UNCHANGED now
    BY <1>1 DEF accept_issuer_transfer, NotYetRegistered
  <2>2. id \in DOMAIN pendingTransfer
    BY FoundIsPending
  <2>3. id \in OfferingId
    BY <2>2 DEF TransferSound, ProposersMayAct, RegistrySound, RegistryTyped
  <2>4. id.issuer \in Issuers
    BY <2>3 DEF OfferingId
  <2> QED
    BY <2>1, <2>4, Zenon DEF MigrationStep
<1>2. \/ VestingNext \/ Tick \/ UNCHANGED <<now, vestingVars>>
      \/ \E heir \in Issuers, namespace \in Namespaces : accept_issuer_transfer(heir, namespace)
  BY Zenon DEF Next, VestingCall, register_offering, set_claim_delay, propose_issuer_transfer,
    replace_issuer_transfer, cancel_issuer_transfer, reject_issuer_transfer, SetStopped, vars
<1>3. Tick => now' = now + 1 /\ UNCHANGED vestingVars
  BY Zenon DEF Tick
<1> QED
  BY <1>1, <1>2, <1>3, Zenon

LEMMA ListsFrame ==
  ASSUME ListsSound, UNCHANGED scheduleItem, DOMAIN schedule' = DOMAIN schedule,
         \A b \in DOMAIN schedule : schedule'[b].issuer = schedule[b].issuer,
         acceleration' \subseteq Beneficiaries \X Triggers
  PROVE  ListsSound'
<1>1. \A k \in Issuers : SchedulesOf(k)' = SchedulesOf(k)
  BY DEF SchedulesOf
<1>2. \A k \in Issuers :
        RangeOf(scheduleItem[k]) = SchedulesOf(k) /\ Injective(scheduleItem[k])
  BY IndexRestated DEF ListsSound
<1>3. \A k \in Issuers :
        RangeOf(scheduleItem'[k]) = SchedulesOf(k)' /\ Injective(scheduleItem'[k])
  BY <1>1, <1>2
<1>4. ScheduleIndexExact'
  BY <1>3, Zenon DEF ScheduleIndexExact, Listed, RangeOf, SchedulesOf, Injective
<1> QED
  BY <1>4 DEF ListsSound

LEMMA NextKeepsLists ==
  ASSUME TransferSound, VestingSound, ListsSound, [Next]_vars
  PROVE  ListsSound'
<1>1. ASSUME NEW b \in Beneficiaries, NEW t \in Triggers, NEW bps \in Accelerations,
             accelerate_vesting(b, t, bps)
      PROVE  ListsSound'
  <2> DEFINE s == [schedule[b] EXCEPT !.accelerated_amount = Accelerated(schedule[b], bps)]
  <2>1. /\ b \in DOMAIN schedule /\ schedule' = [schedule EXCEPT ![b] = s]
        /\ acceleration' = acceleration \cup {<<b, t>>} /\ UNCHANGED scheduleItem
    BY <1>1 DEF accelerate_vesting
  <2>2. s.issuer = schedule[b].issuer
    OBVIOUS
  <2> HIDE DEF s
  <2>3. DOMAIN schedule' = DOMAIN schedule
        /\ \A c \in DOMAIN schedule : schedule'[c].issuer = schedule[c].issuer
    BY <2>1, <2>2
  <2>4. acceleration' \subseteq Beneficiaries \X Triggers
    BY <2>1 DEF ListsSound
  <2> QED
    BY <2>1, <2>3, <2>4, ListsFrame
<1>2. ASSUME NEW b \in Beneficiaries, vesting_claim(b)
      PROVE  ListsSound'
  <2>1. UNCHANGED <<schedule, scheduleItem, acceleration>>
    BY <1>2 DEF vesting_claim
  <2> QED
    BY <2>1, ListsFrame DEF ListsSound
<1>3. CASE UNCHANGED vestingVars
  BY <1>3, ListsFrame DEF ListsSound, vestingVars
<1>4. CASE VestingNext
  BY <1>1, <1>2, <1>4, GrantKeepsLists DEF VestingNext
<1>5. ASSUME NEW issuer \in Issuers, NEW heir \in Issuers, MigrationStep(issuer, heir)
      PROVE  ListsSound'
  BY <1>5, MigrationKeepsLists DEF MigrationStep
<1> QED
  BY <1>3, <1>4, <1>5, VestingSteps

LEMMA ScheduleSoundness == Spec => [](VestingSound /\ ListsSound)
<1>1. Init => VestingSound
  BY DEF Init, VestingInit, VestingSound
<1>2. ASSUME Init
      PROVE  ListsSound
  <2>1. /\ schedule = [b \in {} |-> 0] /\ acceleration = {}
        /\ scheduleItem = [i \in Issuers |-> <<>>]
    BY <1>2 DEF Init, VestingInit
  <2>2. <<>> \in Seq(Beneficiaries) /\ RangeOf(<<>>) = {} /\ Injective(<<>>)
    BY DEF RangeOf, Injective
  <2>3. scheduleItem \in [Issuers -> Seq(Beneficiaries)]
    BY <2>1, <2>2
  <2>4. \A i \in Issuers :
          RangeOf(scheduleItem[i]) = SchedulesOf(i) /\ Injective(scheduleItem[i])
    <3>1. \A i \in Issuers : SchedulesOf(i) = {} /\ scheduleItem[i] = <<>>
      BY <2>1 DEF SchedulesOf
    <3> QED
      BY <2>2, <3>1
  <2> QED
    BY <2>1, <2>3, <2>4, IndexRestated DEF ListsSound
<1>3. TransferSound /\ VestingSound /\ ListsSound /\ [Next]_vars
        => VestingSound' /\ ListsSound'
  BY NextKeepsVesting, NextKeepsLists
<1> QED
  BY <1>1, <1>2, <1>3, TransferSoundness, PTL DEF Spec

(***************************************************************************)
(* After any number of transfers each schedule is in the list of its       *)
(* present issuer, once, and in no other: migrate_offering_schedules loses *)
(* none and leaves none behind, because everything listed is held.         *)
(***************************************************************************)
THEOREM SchedulesStayListed == Spec => []ScheduleIndexExact
<1>1. ListsSound => ScheduleIndexExact
  BY DEF ListsSound
<1> QED
  BY <1>1, ScheduleSoundness, PTL

\* An offering that changes hands takes the schedules of its issuer along.
LEMMA HandoverMigrates ==
  ASSUME TransferSound, [Next]_vars, NEW id \in DOMAIN offeringIssuer,
         offeringIssuer'[id] # offeringIssuer[id]
  PROVE  /\ id.issuer \in Issuers /\ offeringIssuer'[id] \in Issuers
         /\ MigrationStep(id.issuer, offeringIssuer'[id])
<1>1. ASSUME NEW heir \in Issuers, NEW namespace \in Namespaces,
             accept_issuer_transfer(heir, namespace)
      PROVE  heir = offeringIssuer'[id] /\ MigrationStep(id.issuer, heir)
  <2> DEFINE new == [issuer |-> heir, namespace |-> namespace]
  <2>1. PICK other \in find_pending_transfer_for_new_issuer(heir, namespace) :
          /\ \/ UNCHANGED registryVars
             \/ /\ heir # other.issuer
                /\ get_offering(new) = None
                /\ NonePreCliff(other.issuer)
                /\ migrate_offering_schedules(other.issuer, heir)
                /\ HandOver(other, new)
          /\ UNCHANGED now
    BY <1>1 DEF accept_issuer_transfer, NotYetRegistered
  <2>2. UNCHANGED registryVars => UNCHANGED offeringIssuer
    BY DEF registryVars
  <2>3. /\ heir # other.issuer
        /\ get_offering(new) = None
        /\ NonePreCliff(other.issuer)
        /\ migrate_offering_schedules(other.issuer, heir)
        /\ HandOver(other, new)
    BY <2>1, <2>2, Zenon
  <2> HIDE DEF new
  <2>4. /\ offeringIssuer'[other] = heir
        /\ \A j \in DOMAIN offeringIssuer \ {other} : offeringIssuer'[j] = offeringIssuer[j]
    BY <2>3, HandOverStep DEF new
  <2>5. other = id
    BY <2>4
  <2> QED
    BY <2>1, <2>3, <2>4, <2>5 DEF MigrationStep
<1>2. ASSUME NEW new \in Offered, register_offering(new)
      PROVE  FALSE
  BY <1>2 DEF register_offering, Put
<1>3. \/ \E new \in Offered : register_offering(new)
      \/ UNCHANGED offeringIssuer
      \/ \E heir \in Issuers, namespace \in Namespaces : accept_issuer_transfer(heir, namespace)
  BY Zenon DEF Next, VestingCall, set_claim_delay, propose_issuer_transfer,
    replace_issuer_transfer, cancel_issuer_transfer, reject_issuer_transfer, SetStopped, Tick,
    vars, registryVars
<1>4. id.issuer \in Issuers
  BY DEF TransferSound, RegistrySound, RegistryTyped, OfferingId
<1> QED
  BY <1>1, <1>2, <1>3, <1>4

LEMMA MigrationTakesAll ==
  ASSUME VestingSound, ListsSound, NEW issuer \in Issuers, NEW heir \in Issuers,
         MigrationStep(issuer, heir)
  PROVE  SchedulesGoAlong(issuer, heir)
<1>1. /\ NonePreCliff(issuer)
      /\ \A b \in SchedulesOf(issuer) : schedule'[b].issuer = heir
  BY MigrationMovesAll DEF MigrationStep
<1>2. Listed(issuer) = SchedulesOf(issuer)
  BY DEF ListsSound, ScheduleIndexExact, SchedulesOf
<1> QED
  BY <1>1, <1>2 DEF SchedulesGoAlong, NonePreCliff, Held, SchedulesOf

(***************************************************************************)
(* An offering passes to another issuer only by a proposal to that issuer  *)
(* that is still open, which it uses up; no schedule of the old issuer is  *)
(* before its cliff then, every one of them goes to the new issuer in the  *)
(* same step, and so does the claim delay.                                 *)
(***************************************************************************)
THEOREM HandoversAreByConsent == Spec => HandoverByConsent
<1> DEFINE Heir(id) == [id EXCEPT !.issuer = offeringIssuer'[id]]
           Handover == \A id \in DOMAIN offeringIssuer :
             offeringIssuer'[id] # offeringIssuer[id] =>
               /\ ByConsent(id)
               /\ SchedulesGoAlong(id.issuer, Heir(id).issuer)
               /\ DelayGoesAlong(id, Heir(id))
<1>1. ASSUME TransferSound, VestingSound, ListsSound, [Next]_vars
      PROVE  Handover
  <2> SUFFICES ASSUME NEW id \in DOMAIN offeringIssuer,
                      offeringIssuer'[id] # offeringIssuer[id]
               PROVE  /\ ByConsent(id)
                      /\ SchedulesGoAlong(id.issuer, Heir(id).issuer)
                      /\ DelayGoesAlong(id, Heir(id))
    OBVIOUS
  <2>1. ByConsent(id) /\ DelayGoesAlong(id, Heir(id))
    BY <1>1, NextSound DEF Consented
  <2>2. id \in [issuer : Issuers, namespace : Namespaces]
    BY <1>1 DEF TransferSound, RegistrySound, RegistryTyped, OfferingId
  <2>3. Heir(id).issuer = offeringIssuer'[id]
    BY <2>2
  <2>4. SchedulesGoAlong(id.issuer, offeringIssuer'[id])
    BY <1>1, HandoverMigrates, MigrationTakesAll
  <2> QED
    BY <2>1, <2>3, <2>4, Zenon
<1>2. TransferSound /\ VestingSound /\ ListsSound /\ [Next]_vars => [Handover]_vars
  BY <1>1
<1>3. [][Handover]_vars => HandoverByConsent
  BY DEF HandoverByConsent
<1> HIDE DEF Handover
<1> QED
  BY <1>2, <1>3, TransferSoundness, ScheduleSoundness, PTL DEF Spec

-----------------------------------------------------------------------------
(***************************************************************************)
(* What has vested                                                         *)
(***************************************************************************)

LEMMA QuotientIsMonotone ==
  ASSUME NEW a \in Nat, NEW b \in Nat, a <= b, NEW d \in Nat \ {0}
  PROVE  a \div d <= b \div d
OBVIOUS

LEMMA QuotientIsBounded ==
  ASSUME NEW a \in Nat, NEW d \in Nat \ {0}, NEW n \in Nat, a <= n * d
  PROVE  a \div d <= n
OBVIOUS

LEMMA ProductIsMonotone ==
  ASSUME NEW a \in Nat, NEW b \in Nat, NEW n \in Nat, a <= b
  PROVE  n * a <= n * b /\ n * a \in Nat /\ n * b \in Nat
OBVIOUS

LEMMA NotOverflowing ==
  ASSUME NEW s \in Schedule, NEW time \in Nat, ~Overflows(s, time),
         s.start_ts <= time, time < s.end_ts
  PROVE  s.total_amount * (time - s.start_ts) <= I128_MAX
<1>1. /\ s.total_amount \in Nat /\ I128_MAX \in Nat
      /\ s.start_ts \in Nat /\ s.end_ts \in Nat
  BY VestingInputs DEF Schedule
<1>2. time \in s.start_ts .. s.end_ts - 1 /\ time - s.start_ts \in Nat
  BY <1>1
<1>3. ~(s.total_amount * (time - s.start_ts) > I128_MAX)
  BY <1>2, Zenon DEF Overflows
<1>4. s.total_amount * (time - s.start_ts) \in Nat
  BY <1>1, <1>2
<1> QED
  BY <1>1, <1>3, <1>4

(***************************************************************************)
(* The linear part grows from one second to the next, unless its product   *)
(* leaves i128 in the second of them.                                      *)
(***************************************************************************)
LEMMA BaseVestedGrows ==
  ASSUME NEW s \in Schedule, s.end_ts > s.start_ts, NEW time \in Nat,
         ~Overflows(s, time + 1)
  PROVE  BaseVested(s, time) <= BaseVested(s, time + 1)
<1> DEFINE total == s.total_amount
           start == s.start_ts
           end == s.end_ts
           base == BaseVested(s, time)
           next == BaseVested(s, time + 1)
<1>1. /\ total \in Nat /\ I128_MAX \in Nat
      /\ s.cliff_ts \in Nat /\ start \in Nat /\ end \in Nat /\ end > start
  BY VestingInputs DEF Schedule
<1>2. base \in Nat /\ next \in Nat
  BY BaseVestedIsNat
<1>3. CASE base = 0
  BY <1>2, <1>3
<1>4. CASE base # 0 /\ time >= end
  <2>1. base = total /\ time >= s.cliff_ts
    BY <1>1, <1>4 DEF BaseVested
  <2>2. next = total
    BY <1>1, <1>4, <2>1 DEF BaseVested
  <2> QED
    BY <1>1, <2>1, <2>2
\* Between start and end, after the cliff.
<1>5. CASE base # 0 /\ time < end
  <2> DEFINE span == end - start
             elapsed == time - start
  <2>1. time >= s.cliff_ts /\ time > start
    BY <1>1, <1>5 DEF BaseVested
  <2>2. /\ span \in Nat \ {0} /\ elapsed \in Nat /\ elapsed <= span
        /\ elapsed + 1 \in Nat /\ elapsed <= elapsed + 1
        /\ (time + 1) - start = elapsed + 1
    BY <1>1, <1>5, <2>1
  <2>3. base = ProductOrZero(total, elapsed) \div span
    BY <1>1, <1>5, <2>1 DEF BaseVested
  <2>4. /\ total * elapsed <= total * span /\ total * elapsed \in Nat
        /\ total * elapsed <= total * (elapsed + 1) /\ total * (elapsed + 1) \in Nat
    BY <1>1, <2>2, ProductIsMonotone
  <2>5. ProductOrZero(total, elapsed) \in Nat /\ ProductOrZero(total, elapsed) <= total * elapsed
    BY <2>4 DEF ProductOrZero
  <2>6. CASE time + 1 >= end
    <3>1. next = total
      BY <1>1, <2>1, <2>6 DEF BaseVested
    <3>2. ProductOrZero(total, elapsed) <= total * span /\ total * span \in Nat
      <4>1. total * span \in Nat
        BY <1>1, <2>2, ProductIsMonotone
      <4> QED
        BY <2>4, <2>5, <4>1
    <3> HIDE DEF base, next, total, span, elapsed
    <3>3. base <= next
      BY <1>1, <2>2, <2>3, <2>5, <3>1, <3>2, QuotientIsBounded
    <3> QED
      BY <3>3 DEF base, next
  <2>7. CASE time + 1 < end
    <3>1. next = ProductOrZero(total, (time + 1) - start) \div span
      BY <1>1, <2>1, <2>7 DEF BaseVested
    <3>2. total * ((time + 1) - start) <= I128_MAX
      <4>1. time + 1 \in Nat /\ start <= time + 1 /\ time + 1 < end
        BY <1>1, <2>1, <2>7
      <4> QED
        BY <4>1, NotOverflowing
    <3> HIDE DEF base, next, total, span, elapsed
    <3>3. total * (elapsed + 1) <= I128_MAX
      BY <2>2, <3>2
    <3>4. ProductOrZero(total, (time + 1) - start) = total * (elapsed + 1)
      BY <2>2, <3>3 DEF ProductOrZero
    <3>5. ProductOrZero(total, elapsed) <= total * (elapsed + 1)
      BY <2>4, <2>5
    <3>6. base <= next
      BY <2>2, <2>3, <2>4, <2>5, <3>1, <3>4, <3>5, QuotientIsMonotone
    <3> QED
      BY <3>6 DEF base, next
  <2> QED
    BY <1>1, <2>6, <2>7
<1> QED
  BY <1>1, <1>3, <1>4, <1>5

\* More vested by time, and more accelerated or all of it: no less vested.
LEMMA VestedGrows ==
  ASSUME NEW s \in Schedule, NEW r \in Schedule, r.total_amount = s.total_amount,
         NEW t, NEW u, BaseVested(s, t) \in Nat, BaseVested(r, u) \in Nat,
         BaseVested(s, t) <= BaseVested(r, u),
         \/ s.accelerated_amount <= r.accelerated_amount
         \/ r.accelerated_amount = r.total_amount
  PROVE  compute_vested(s, t) <= compute_vested(r, u)
<1>1. /\ s.total_amount \in Nat /\ s.accelerated_amount \in Nat
      /\ r.accelerated_amount \in Nat
  BY VestingInputs DEF Schedule
<1> QED
  BY <1>1 DEF compute_vested, Least

NeverLess ==
  \A b \in DOMAIN schedule :
    ~Overflows(schedule[b], now)' =>
      compute_vested(schedule[b], now) <= compute_vested(schedule[b], now)'

\* A step that writes neither the times nor the totals nor the clock.
LEMMA SameTimesNeverLess ==
  ASSUME VestingSound, VestingSound', UNCHANGED now,
         \A b \in DOMAIN schedule :
           /\ b \in DOMAIN schedule'
           /\ schedule'[b].total_amount = schedule[b].total_amount
           /\ schedule'[b].cliff_ts = schedule[b].cliff_ts
           /\ schedule'[b].start_ts = schedule[b].start_ts
           /\ schedule'[b].end_ts = schedule[b].end_ts
           /\ \/ schedule[b].accelerated_amount <= schedule'[b].accelerated_amount
              \/ schedule'[b].accelerated_amount = schedule'[b].total_amount
  PROVE  NeverLess
<1> SUFFICES ASSUME NEW b \in DOMAIN schedule
             PROVE  compute_vested(schedule[b], now) <= compute_vested(schedule'[b], now')
  BY DEF NeverLess
<1> DEFINE s == schedule[b]
           r == schedule'[b]
<1>1. s \in Schedule /\ r \in Schedule /\ s.end_ts > s.start_ts /\ now \in Nat
  BY DEF VestingSound
<1>2. /\ r.total_amount = s.total_amount /\ r.cliff_ts = s.cliff_ts
      /\ r.start_ts = s.start_ts /\ r.end_ts = s.end_ts
      /\ s.accelerated_amount <= r.accelerated_amount \/ r.accelerated_amount = r.total_amount
  OBVIOUS
<1> HIDE DEF s, r
<1>3. BaseVested(r, now) = BaseVested(s, now)
  BY <1>2 DEF BaseVested
<1>4. BaseVested(s, now) \in Nat
  BY <1>1, BaseVestedIsNat
<1>5. BaseVested(s, now) <= BaseVested(r, now)
  BY <1>3, <1>4
<1>6. compute_vested(s, now) <= compute_vested(r, now)
  BY <1>1, <1>2, <1>3, <1>4, <1>5, VestedGrows
<1> QED
  BY <1>6 DEF s, r

LEMMA TickNeverLess ==
  ASSUME VestingSound, now' = now + 1, UNCHANGED vestingVars
  PROVE  NeverLess
<1> SUFFICES ASSUME NEW b \in DOMAIN schedule, ~Overflows(schedule[b], now + 1)
             PROVE  compute_vested(schedule[b], now) <= compute_vested(schedule[b], now + 1)
  BY DEF NeverLess, vestingVars
<1> DEFINE s == schedule[b]
<1>1. s \in Schedule /\ s.end_ts > s.start_ts /\ now \in Nat /\ now + 1 \in Nat
  BY DEF VestingSound
<1>2. ~Overflows(s, now + 1) /\ s.accelerated_amount <= s.accelerated_amount
  BY <1>1, VestingInputs DEF Schedule
<1> HIDE DEF s
<1>3. BaseVested(s, now) \in Nat /\ BaseVested(s, now + 1) \in Nat
  BY <1>1, BaseVestedIsNat
<1>4. BaseVested(s, now) <= BaseVested(s, now + 1)
  BY <1>1, <1>2, BaseVestedGrows
<1>5. compute_vested(s, now) <= compute_vested(s, now + 1)
  BY <1>1, <1>2, <1>3, <1>4, VestedGrows
<1> QED
  BY <1>5 DEF s

LEMMA AcceleratedGrows ==
  ASSUME NEW s \in Schedule, NEW bps \in Nat
  PROVE  \/ s.accelerated_amount <= Accelerated(s, bps)
         \/ Accelerated(s, bps) = s.total_amount
<1>1. /\ s.total_amount \in Nat /\ s.accelerated_amount \in Nat /\ BPS \in Nat \ {0}
  BY VestingInputs DEF Schedule
<1>2. ProductOrZero(s.total_amount, bps) \in Nat
  BY <1>1, ProductIsNat
<1>3. ProductOrZero(s.total_amount, bps) \div BPS \in Nat
  BY <1>1, <1>2, QuotientIsNat
<1> QED
  BY <1>1, <1>3 DEF Accelerated, Least

LEMMA NextNeverLess ==
  ASSUME TransferSound, VestingSound, ListsSound, [Next]_vars
  PROVE  NeverLess
<1>0. VestingSound'
  BY NextKeepsVesting
<1>a. \A b \in DOMAIN schedule :
        schedule[b].accelerated_amount <= schedule[b].accelerated_amount
  BY VestingInputs DEF VestingSound, Schedule
<1>1. ASSUME NEW i \in Granters, NEW b \in Beneficiaries, NEW plan \in Plans,
             vesting_register(i, b, plan)
      PROVE  NeverLess
  <2>1. /\ UNCHANGED now
        /\ \A c \in DOMAIN schedule : c \in DOMAIN schedule' /\ schedule'[c] = schedule[c]
    BY <1>1 DEF vesting_register, Put
  <2> QED
    BY <1>0, <1>a, <2>1, SameTimesNeverLess
<1>2. ASSUME NEW b \in Beneficiaries, NEW t \in Triggers, NEW bps \in Accelerations,
             accelerate_vesting(b, t, bps)
      PROVE  NeverLess
  <2> DEFINE s == [schedule[b] EXCEPT !.accelerated_amount = Accelerated(schedule[b], bps)]
  <2>1. b \in DOMAIN schedule /\ schedule' = [schedule EXCEPT ![b] = s] /\ UNCHANGED now
    BY <1>2 DEF accelerate_vesting
  <2>2. schedule[b] \in Schedule /\ bps \in Nat
    BY <2>1, VestingInputs DEF VestingSound
  <2>3. /\ s.total_amount = schedule[b].total_amount /\ s.cliff_ts = schedule[b].cliff_ts
        /\ s.start_ts = schedule[b].start_ts /\ s.end_ts = schedule[b].end_ts
        /\ s.accelerated_amount = Accelerated(schedule[b], bps)
    BY <2>2 DEF Schedule
  <2>4. \/ schedule[b].accelerated_amount <= s.accelerated_amount
        \/ s.accelerated_amount = s.total_amount
    BY <2>2, <2>3, AcceleratedGrows
  <2> HIDE DEF s
  <2>5. schedule'[b] = s /\ \A c \in DOMAIN schedule \ {b} : schedule'[c] = schedule[c]
    BY <2>1
  <2>6. \A c \in DOMAIN schedule :
          /\ c \in DOMAIN schedule'
          /\ schedule'[c].total_amount = schedule[c].total_amount
          /\ schedule'[c].cliff_ts = schedule[c].cliff_ts
          /\ schedule'[c].start_ts = schedule[c].start_ts
          /\ schedule'[c].end_ts = schedule[c].end_ts
          /\ \/ schedule[c].accelerated_amount <= schedule'[c].accelerated_amount
             \/ schedule'[c].accelerated_amount = schedule'[c].total_amount
    BY <1>a, <2>1, <2>3, <2>4, <2>5
  <2> QED
    BY <1>0, <2>1, <2>6, SameTimesNeverLess
<1>3. CASE UNCHANGED <<now, schedule>>
  BY <1>0, <1>a, <1>3, SameTimesNeverLess
<1>4. ASSUME NEW b \in Beneficiaries, vesting_claim(b)
      PROVE  NeverLess
  BY <1>3, <1>4 DEF vesting_claim
<1>5. CASE VestingNext
  BY <1>1, <1>2, <1>4, <1>5 DEF VestingNext
<1>6. ASSUME NEW issuer \in Issuers, NEW heir \in Issuers, MigrationStep(issuer, heir)
      PROVE  NeverLess
  <2>1. /\ UNCHANGED now /\ DOMAIN schedule' = DOMAIN schedule
        /\ \A b \in DOMAIN schedule :
             schedule'[b] \in {schedule[b], MigratedSchedule(schedule[b], heir)}
    BY <1>6 DEF MigrationStep, migrate_offering_schedules
  <2>2. \A b \in DOMAIN schedule :
          /\ b \in DOMAIN schedule'
          /\ schedule'[b].total_amount = schedule[b].total_amount
          /\ schedule'[b].cliff_ts = schedule[b].cliff_ts
          /\ schedule'[b].start_ts = schedule[b].start_ts
          /\ schedule'[b].end_ts = schedule[b].end_ts
          /\ schedule'[b].accelerated_amount = schedule[b].accelerated_amount
    <3> TAKE b \in DOMAIN schedule
    <3>1. schedule[b] \in Schedule
      BY DEF VestingSound
    <3> DEFINE s == MigratedSchedule(schedule[b], heir)
    <3>2. /\ s.total_amount = schedule[b].total_amount /\ s.cliff_ts = schedule[b].cliff_ts
          /\ s.start_ts = schedule[b].start_ts /\ s.end_ts = schedule[b].end_ts
          /\ s.accelerated_amount = schedule[b].accelerated_amount
      BY <3>1 DEF MigratedSchedule, Schedule
    <3> HIDE DEF s
    <3> QED
      BY <2>1, <3>2 DEF s
  <2>3. \A b \in DOMAIN schedule :
          schedule[b].accelerated_amount <= schedule'[b].accelerated_amount
    BY <1>a, <2>2
  <2> QED
    BY <1>0, <2>1, <2>2, <2>3, SameTimesNeverLess
<1>7. CASE now' = now + 1 /\ UNCHANGED vestingVars
  BY <1>7, TickNeverLess
<1>8. CASE UNCHANGED <<now, vestingVars>>
  BY <1>3, <1>8 DEF vestingVars
<1> QED
  BY <1>5, <1>6, <1>7, <1>8, VestingSteps

(***************************************************************************)
(* What has vested of a schedule never shrinks: not as time passes, not by *)
(* an acceleration, not when the schedule goes to another issuer, and      *)
(* whatever the amounts, except in a second in which the product of the    *)
(* amount and the time elapsed leaves i128.                                *)
(***************************************************************************)
THEOREM WhatVestedStaysVested == Spec => VestedNeverShrinks
<1>1. TransferSound /\ VestingSound /\ ListsSound /\ [Next]_vars
        => [NeverLess]_<<now, vestingVars>>
  BY NextNeverLess
<1>2. [][NeverLess]_<<now, vestingVars>> => VestedNeverShrinks
  BY DEF VestedNeverShrinks, NeverLess
<1> QED
  BY <1>1, <1>2, TransferSoundness, ScheduleSoundness, PTL DEF Spec

-----------------------------------------------------------------------------
(***************************************************************************)
(* Types                                                                   *)
(***************************************************************************)

\* The variables whose types the invariants above leave open.
MapsTyped ==
  /\ claimed \in [DOMAIN claimed -> Int]
  /\ offeringIssuer \in [DOMAIN offeringIssuer -> Issuers]
  /\ offeringRecord \in [DOMAIN offeringRecord -> Issuers]
  /\ claimDelay \in [DOMAIN claimDelay -> Nat]
  /\ pendingTransfer \in [DOMAIN pendingTransfer -> PendingTransfer]
  /\ stopped \in BOOLEAN
  /\ proposals \in Nat

LEMMA PutIsTyped ==
  ASSUME NEW S, NEW m, m \in [DOMAIN m -> S], NEW k, NEW x \in S
  PROVE  Put(m, k, x) \in [DOMAIN Put(m, k, x) -> S]
BY DEF Put

LEMMA WithoutIsTyped ==
  ASSUME NEW S, NEW m, m \in [DOMAIN m -> S], NEW k
  PROVE  Without(m, k) \in [DOMAIN Without(m, k) -> S]
BY DEF Without

LEMMA MovedSettingIsTyped ==
  ASSUME NEW S, NEW m, m \in [DOMAIN m -> S], NEW id, NEW new
  PROVE  MovedSetting(m, id, new) \in [DOMAIN MovedSetting(m, id, new) -> S]
<1>1. CASE id \in DOMAIN m
  <2> DEFINE n == Put(m, new, m[id])
  <2>1. n \in [DOMAIN n -> S]
    BY <1>1, PutIsTyped
  <2> HIDE DEF n
  <2>2. Without(n, id) \in [DOMAIN Without(n, id) -> S]
    BY <2>1, WithoutIsTyped
  <2>3. MovedSetting(m, id, new) = Without(n, id)
    BY <1>1 DEF MovedSetting, n
  <2> QED
    BY <2>2, <2>3
<1>2. CASE id \notin DOMAIN m
  BY <1>2 DEF MovedSetting
<1> QED
  BY <1>1, <1>2

\* What is got is an issuer.
LEMMA GottenIsIssuer ==
  ASSUME RegistrySound, NEW id \in DOMAIN offeringIssuer
  PROVE  get_offering(id) \in Issuers
<1>1. id \in OfferingId /\ offerItem[id] # <<>>
  BY DEF RegistrySound, RegistryCoherent, ListedOnce
<1>2. offerItem[id] \in Seq(Issuers)
  BY <1>1 DEF RegistrySound, RegistryTyped
<1>3. offerItem[id][1] \in Issuers
  BY <1>1, <1>2
<1> QED
  BY <1>1, <1>3 DEF get_offering, RegistrySound, RegistryTyped

LEMMA ClaimedKeepsType ==
  ASSUME MapsTyped, VestingSound, VestingSound', [Next]_vars
  PROVE  claimed' \in [DOMAIN claimed' -> Int]
<1>1. ASSUME NEW i, NEW b, NEW plan, vesting_register(i, b, plan)
      PROVE  claimed' \in [DOMAIN claimed' -> Int]
  <2>1. claimed' = Put(claimed, b, 0) /\ 0 \in Int
    BY <1>1 DEF vesting_register
  <2> QED
    BY <2>1, PutIsTyped DEF MapsTyped
<1>2. ASSUME NEW b, vesting_claim(b)
      PROVE  claimed' \in [DOMAIN claimed' -> Int]
  <2> DEFINE due == compute_claimable(schedule[b], claimed[b], now)
  <2>1. b \in DOMAIN schedule /\ claimed' = [claimed EXCEPT ![b] = claimed[b] + due]
    BY <1>2 DEF vesting_claim
  <2>2. claimed'[b] = claimed[b] + due
    BY <2>1 DEF VestingSound
  <2>3. UNCHANGED schedule
    BY <1>2 DEF vesting_claim
  <2>4. schedule[b].total_amount \in Nat
    BY <2>1, VestingInputs DEF VestingSound, Schedule
  <2>5. claimed'[b] \in Int
    BY <2>1, <2>3, <2>4 DEF VestingSound
  <2> HIDE DEF due
  <2> QED
    BY <2>1, <2>2, <2>5 DEF MapsTyped
<1>3. \/ UNCHANGED claimed
      \/ \E i \in Granters, b \in Beneficiaries, plan \in Plans : vesting_register(i, b, plan)
      \/ \E b \in Beneficiaries : vesting_claim(b)
  BY Zenon DEF Next, VestingCall, VestingNext, accelerate_vesting, register_offering,
    set_claim_delay, propose_issuer_transfer, replace_issuer_transfer, cancel_issuer_transfer,
    reject_issuer_transfer, accept_issuer_transfer, migrate_offering_schedules, SetStopped,
    Tick, vars, vestingVars
<1> QED
  BY <1>1, <1>2, <1>3 DEF MapsTyped

LEMMA PendingKeepsType ==
  ASSUME TransferSound, TransferSound', MapsTyped, [Next]_vars
  PROVE  pendingTransfer' \in [DOMAIN pendingTransfer' -> PendingTransfer]
<1>1. \A id \in DOMAIN pendingTransfer' : pendingTransfer'[id] \in PendingTransfer
  BY TransferInputs DEF TransferSound, WindowsBounded, PendingTransfer
<1>2. pendingTransfer' = [id \in DOMAIN pendingTransfer' |-> pendingTransfer'[id]]
  <2>1. ASSUME NEW id, NEW heir, NEW expiry, propose_issuer_transfer(id, heir, expiry)
        PROVE  pendingTransfer' = [j \in DOMAIN pendingTransfer' |-> pendingTransfer'[j]]
    BY <2>1 DEF propose_issuer_transfer, Put
  <2>2. ASSUME NEW id, NEW heir, replace_issuer_transfer(id, heir)
        PROVE  pendingTransfer' = [j \in DOMAIN pendingTransfer' |-> pendingTransfer'[j]]
    BY <2>2 DEF replace_issuer_transfer, MapsTyped
  <2>3. ASSUME NEW id, pendingTransfer' = Without(pendingTransfer, id)
        PROVE  pendingTransfer' = [j \in DOMAIN pendingTransfer' |-> pendingTransfer'[j]]
    BY <2>3 DEF Without
  <2>4. \/ UNCHANGED pendingTransfer
        \/ \E id : pendingTransfer' = Without(pendingTransfer, id)
        \/ \E id, heir, expiry : propose_issuer_transfer(id, heir, expiry)
        \/ \E id, heir : replace_issuer_transfer(id, heir)
    BY Zenon DEF Next, VestingCall, register_offering, set_claim_delay, cancel_issuer_transfer,
      reject_issuer_transfer, accept_issuer_transfer, SetStopped, Tick, vars
  <2> QED
    BY <2>1, <2>2, <2>3, <2>4 DEF MapsTyped
<1> QED
  BY <1>1, <1>2

\* A step that registers, in one way or the other, and a delay that is set.
LEMMA RegisterKeepsMaps ==
  ASSUME TransferSound, MapsTyped, NEW id \in Offered, register_offering(id)
  PROVE  /\ offeringIssuer' \in [DOMAIN offeringIssuer' -> Issuers]
         /\ offeringRecord' \in [DOMAIN offeringRecord' -> Issuers]
         /\ claimDelay' \in [DOMAIN claimDelay' -> Nat]
<1>1. id.issuer \in Issuers
  BY TransferInputs DEF OfferingId
<1>2. /\ offeringIssuer' = Put(offeringIssuer, id, id.issuer)
      /\ offeringRecord' = Put(offeringRecord, id, id.issuer)
      /\ UNCHANGED claimDelay
  BY DEF register_offering
<1> QED
  BY <1>1, <1>2, PutIsTyped DEF MapsTyped

LEMMA AcceptKeepsMaps ==
  ASSUME TransferSound, MapsTyped, NEW heir \in Issuers, NEW namespace \in Namespaces,
         accept_issuer_transfer(heir, namespace)
  PROVE  /\ offeringIssuer' \in [DOMAIN offeringIssuer' -> Issuers]
         /\ offeringRecord' \in [DOMAIN offeringRecord' -> Issuers]
         /\ claimDelay' \in [DOMAIN claimDelay' -> Nat]
<1> DEFINE new == [issuer |-> heir, namespace |-> namespace]
<1>1. PICK id \in find_pending_transfer_for_new_issuer(heir, namespace) :
        \/ UNCHANGED <<registryVars, claimDelay>>
        \/ HandOver(id, new)
  BY DEF accept_issuer_transfer, NotYetRegistered
<1>2. CASE UNCHANGED <<registryVars, claimDelay>>
  BY <1>2 DEF MapsTyped, registryVars
<1>3. CASE HandOver(id, new)
  <2>1. /\ offeringRecord' = Put(offeringRecord, new, get_offering(id))
        /\ offeringIssuer' = Put(Put(offeringIssuer, id, heir), new, heir)
        /\ claimDelay' = MovedSetting(claimDelay, id, new)
    BY <1>3 DEF HandOver, MovedLookup
  <2>2. get_offering(id) \in Issuers
    BY FoundIsPending, GottenIsIssuer DEF TransferSound, ProposersMayAct
  <2> HIDE DEF new
  <2>3. offeringIssuer' \in [DOMAIN offeringIssuer' -> Issuers]
    <3> DEFINE moved == Put(offeringIssuer, id, heir)
    <3>1. moved \in [DOMAIN moved -> Issuers]
      BY PutIsTyped DEF MapsTyped
    <3> HIDE DEF moved
    <3>2. Put(moved, new, heir) \in [DOMAIN Put(moved, new, heir) -> Issuers]
      BY <3>1, PutIsTyped
    <3> QED
      BY <2>1, <3>2 DEF moved
  <2> QED
    BY <2>1, <2>2, <2>3, PutIsTyped, MovedSettingIsTyped DEF MapsTyped
<1> QED
  BY <1>1, <1>2, <1>3

LEMMA RegistryMapsKeepTypes ==
  ASSUME TransferSound, MapsTyped, [Next]_vars
  PROVE  /\ offeringIssuer' \in [DOMAIN offeringIssuer' -> Issuers]
         /\ offeringRecord' \in [DOMAIN offeringRecord' -> Issuers]
         /\ claimDelay' \in [DOMAIN claimDelay' -> Nat]
<1>1. ASSUME NEW id, NEW delay \in Delays, set_claim_delay(id, delay)
      PROVE  /\ offeringIssuer' \in [DOMAIN offeringIssuer' -> Issuers]
             /\ offeringRecord' \in [DOMAIN offeringRecord' -> Issuers]
             /\ claimDelay' \in [DOMAIN claimDelay' -> Nat]
  <2>1. /\ claimDelay' = Put(claimDelay, id, delay) /\ delay \in Nat
        /\ UNCHANGED <<offeringIssuer, offeringRecord>>
    BY <1>1, TransferInputs DEF set_claim_delay, registryVars
  <2> QED
    BY <2>1, PutIsTyped DEF MapsTyped
<1>2. CASE UNCHANGED <<offeringIssuer, offeringRecord, claimDelay>>
  BY <1>2 DEF MapsTyped
<1>3. \/ \E id \in Offered : register_offering(id)
      \/ \E id \in DOMAIN offeringIssuer, delay \in Delays : set_claim_delay(id, delay)
      \/ UNCHANGED <<offeringIssuer, offeringRecord, claimDelay>>
      \/ \E heir \in Issuers, namespace \in Namespaces : accept_issuer_transfer(heir, namespace)
  BY Zenon DEF Next, VestingCall, propose_issuer_transfer, replace_issuer_transfer,
    cancel_issuer_transfer, reject_issuer_transfer, SetStopped, Tick, vars, registryVars
<1> QED
  BY <1>1, <1>2, <1>3, RegisterKeepsMaps, AcceptKeepsMaps

LEMMA NextKeepsMaps ==
  ASSUME TransferSound, TransferSound', VestingSound, VestingSound', MapsTyped, [Next]_vars
  PROVE  MapsTyped'
<1>1. stopped' \in BOOLEAN
  <2>1. UNCHANGED stopped \/ \E on \in BOOLEAN : stopped' = on
    BY Zenon DEF Next, VestingCall, register_offering, set_claim_delay, propose_issuer_transfer,
      replace_issuer_transfer, cancel_issuer_transfer, reject_issuer_transfer,
      accept_issuer_transfer, SetStopped, Tick, vars
  <2> QED
    BY <2>1 DEF MapsTyped
<1>2. proposals' \in Nat
  <2>1. UNCHANGED proposals \/ proposals' = proposals + 1
    BY Zenon DEF Next, VestingCall, register_offering, set_claim_delay, propose_issuer_transfer,
      replace_issuer_transfer, cancel_issuer_transfer, reject_issuer_transfer,
      accept_issuer_transfer, SetStopped, Tick, vars, CountProposal
  <2> QED
    BY <2>1 DEF MapsTyped
<1> QED
  BY <1>1, <1>2, ClaimedKeepsType, PendingKeepsType, RegistryMapsKeepTypes DEF MapsTyped

(***************************************************************************)
(* Every variable of the registry, of the transfers and of the schedules   *)
(* keeps its type in every reachable state: what is booked as claimed      *)
(* stays within i128, and every list holds issuers or beneficiaries only.  *)
(***************************************************************************)
THEOREM TransferTypeCorrect == Spec => []TypeOK
<1>1. ASSUME Init
      PROVE  MapsTyped
  <2>1. /\ claimed = [b \in {} |-> 0] /\ offeringRecord = [id \in {} |-> None]
        /\ claimDelay = [id \in {} |-> 0] /\ pendingTransfer = [id \in {} |-> None]
        /\ proposals = 0 /\ stopped = FALSE
    BY <1>1 DEF Init, VestingInit
  <2>2. \E registered : offeringIssuer = [id \in registered |-> id.issuer]
    BY <1>1 DEF Init
  <2>3. \A id \in DOMAIN offeringIssuer : offeringIssuer[id] \in Issuers
    BY <1>1, InitSound DEF TransferSound, RegistrySound, RegistryTyped
  <2>4. offeringIssuer \in [DOMAIN offeringIssuer -> Issuers]
    BY <2>2, <2>3
  <2> QED
    BY <2>1, <2>4 DEF MapsTyped
<1>2. ASSUME TransferSound, VestingSound, ListsSound, MapsTyped
      PROVE  TypeOK
  <2>1. claimed \in [DOMAIN schedule -> 0..I128_MAX]
    <3>1. ASSUME NEW b \in DOMAIN schedule
          PROVE  claimed[b] \in 0..I128_MAX
      <4>1. schedule[b].total_amount \in 1..I128_MAX /\ I128_MAX \in Nat
        BY <1>2, VestingInputs DEF VestingSound, Schedule
      <4> QED
        BY <1>2, <4>1 DEF VestingSound
    <3> QED
      BY <1>2, <3>1 DEF VestingSound, MapsTyped
  <2>2. VestingTypeOK
    BY <1>2, <2>1 DEF VestingSound, ListsSound, VestingTypeOK
  <2> QED
    BY <1>2, <2>2 DEF TypeOK, MapsTyped, TransferSound, RegistrySound, RegistryTyped
<1>3. TransferSound /\ TransferSound' /\ VestingSound /\ VestingSound' /\ MapsTyped
        /\ [Next]_vars => MapsTyped'
  BY NextKeepsMaps
<1> QED
  BY <1>1, <1>2, <1>3, TransferSoundness, ScheduleSoundness, PTL DEF Spec

-----------------------------------------------------------------------------
(***************************************************************************)
(* The registry as Titles                                                  *)
(***************************************************************************)

\* What an observer of Titles sees of the registry and the schedules does not
\* depend on the clock, the amounts or the settings.
LEMMA UnseenByTitles ==
  ASSUME UNCHANGED <<registryVars, pendingTransfer, Guardians>>
  PROVE  UNCHANGED Titles!vars
BY DEF Titles!vars, registryVars, Offers

\* Calls of vesting.rs: a grant provides for somebody, the others go unseen.
LEMMA VestingIsSeen ==
  ASSUME VestingSound, VestingCall
  PROVE  \/ UNCHANGED Titles!vars
         \/ \E issuer \in Issuers, b \in Beneficiaries : Titles!Provide(issuer, b)
<1>1. UNCHANGED <<registryVars, pendingTransfer>>
  BY DEF VestingCall
<1>2. ASSUME NEW i \in Granters, NEW b \in Beneficiaries, NEW plan \in Plans,
             vesting_register(i, b, plan)
      PROVE  Titles!Provide(i, b)
  <2> DEFINE s == [issuer |-> i, total_amount |-> plan.total_amount,
                   cliff_ts |-> plan.cliff_ts, start_ts |-> plan.start_ts,
                   end_ts |-> plan.end_ts, accelerated_amount |-> 0]
  <2>1. b \notin DOMAIN schedule /\ schedule' = Put(schedule, b, s)
    BY <1>2 DEF vesting_register
  <2>2. s.issuer = i
    OBVIOUS
  <2> HIDE DEF s
  <2>3. /\ DOMAIN Guardians = DOMAIN schedule
        /\ Guardians' = Titles!Set(Guardians, b, i)
    BY <2>1, <2>2 DEF Guardians, Put, Titles!Set
  <2>4. UNCHANGED <<offeringIssuer, Offers>>
    BY <1>1 DEF registryVars, Offers
  <2> QED
    BY <2>1, <2>3, <2>4 DEF Titles!Provide
<1>3. ASSUME NEW b \in Beneficiaries, NEW t \in Triggers, NEW bps \in Accelerations,
             accelerate_vesting(b, t, bps)
      PROVE  UNCHANGED Guardians
  <2> DEFINE s == [schedule[b] EXCEPT !.accelerated_amount = Accelerated(schedule[b], bps)]
  <2>1. b \in DOMAIN schedule /\ schedule' = [schedule EXCEPT ![b] = s]
    BY <1>3 DEF accelerate_vesting
  <2>2. s.issuer = schedule[b].issuer
    OBVIOUS
  <2> HIDE DEF s
  <2> QED
    BY <2>1, <2>2 DEF Guardians
<1>4. ASSUME NEW b \in Beneficiaries, vesting_claim(b)
      PROVE  UNCHANGED Guardians
  BY <1>4 DEF vesting_claim, Guardians
<1>5. CASE UNCHANGED Guardians
  BY <1>1, <1>5, UnseenByTitles
<1> QED
  BY <1>2, <1>3, <1>4, <1>5, VestingInputs DEF VestingCall, VestingNext

\* Registering an offering registers the title.
LEMMA RegisteringIsSeen ==
  ASSUME NEW id \in Offered, register_offering(id)
  PROVE  Titles!Register(id)
<1>1. /\ id \notin DOMAIN offeringIssuer
      /\ offeringIssuer' = Put(offeringIssuer, id, id.issuer)
      /\ UNCHANGED <<schedule, pendingTransfer>>
  BY DEF register_offering, vestingVars
<1>2. offeringIssuer' = Titles!Set(offeringIssuer, id, id.issuer)
  BY <1>1 DEF Put, Titles!Set
<1>3. UNCHANGED <<Offers, Guardians>>
  BY <1>1 DEF Offers, Guardians
<1> QED
  BY <1>1, <1>2, <1>3 DEF Titles!Register

\* Proposing or replacing a proposal is an offer.
LEMMA ProposingIsSeen ==
  ASSUME NEW id \in DOMAIN offeringIssuer, NEW new_issuer,
         \/ \E expiry \in Expiries : propose_issuer_transfer(id, new_issuer, expiry)
         \/ replace_issuer_transfer(id, new_issuer)
  PROVE  Titles!Offer(id, new_issuer)
<1>1. UNCHANGED <<schedule, registryVars>>
  BY DEF propose_issuer_transfer, replace_issuer_transfer, vestingVars
<1>2. Offers' = Titles!Set(Offers, id, new_issuer)
  <2>1. ASSUME NEW expiry \in Expiries, propose_issuer_transfer(id, new_issuer, expiry)
        PROVE  Offers' = Titles!Set(Offers, id, new_issuer)
    <3> DEFINE p == [new_issuer |-> new_issuer, timestamp |-> now,
                     expiry_secs |-> IF expiry = 0 THEN 0 ELSE Clamped(expiry)]
    <3>1. pendingTransfer' = Put(pendingTransfer, id, p)
      BY <2>1 DEF propose_issuer_transfer
    <3>2. p.new_issuer = new_issuer
      OBVIOUS
    <3> HIDE DEF p
    <3> QED
      BY <3>1, <3>2 DEF Offers, Put, Titles!Set
  <2>2. ASSUME replace_issuer_transfer(id, new_issuer)
        PROVE  Offers' = Titles!Set(Offers, id, new_issuer)
    BY <2>2 DEF replace_issuer_transfer, Offers, Titles!Set
  <2> QED
    BY <2>1, <2>2
<1>3. UNCHANGED <<offeringIssuer, Guardians>>
  BY <1>1 DEF registryVars, Guardians
<1> QED
  BY <1>2, <1>3 DEF Titles!Offer

\* A proposal that is dropped is an offer withdrawn.
LEMMA DroppingIsSeen ==
  ASSUME NEW id \in DOMAIN pendingTransfer, pendingTransfer' = Without(pendingTransfer, id),
         UNCHANGED <<schedule, registryVars>>
  PROVE  id \in DOMAIN Offers /\ Titles!Withdraw(id)
<1>1. DOMAIN Offers = DOMAIN pendingTransfer /\ Offers' = Titles!Drop(Offers, id)
  BY DEF Offers, Without, Titles!Drop
<1>2. UNCHANGED <<offeringIssuer, Guardians>>
  BY DEF registryVars, Guardians
<1> QED
  BY <1>1, <1>2 DEF Titles!Withdraw

\* A hand-over takes the title, and everybody with a schedule of its issuer.
LEMMA HandingOverIsSeen ==
  ASSUME TransferSound, VestingSound, ListsSound,
         NEW new_issuer \in Issuers, NEW namespace \in Namespaces,
         NEW id \in find_pending_transfer_for_new_issuer(new_issuer, namespace),
         NEW new, new = [issuer |-> new_issuer, namespace |-> namespace],
         new_issuer # id.issuer, get_offering(new) = None, HandOver(id, new),
         migrate_offering_schedules(id.issuer, new_issuer),
         pendingTransfer' = Without(pendingTransfer, id)
  PROVE  id \in DOMAIN Offers /\ Titles!Take(id)
<1>1. /\ id \in DOMAIN pendingTransfer
      /\ pendingTransfer[id].new_issuer = new_issuer
      /\ id.namespace = namespace
  BY FoundIsPending
<1>2. id \in OfferingId
  BY <1>1 DEF TransferSound, ProposersMayAct, RegistrySound, RegistryTyped
<1>3. /\ new \in OfferingId /\ new.issuer = new_issuer /\ new # id
      /\ new = [id EXCEPT !.issuer = new_issuer]
  BY <1>1, <1>2 DEF OfferingId
<1>4. /\ Offers[id] = new_issuer /\ DOMAIN Offers = DOMAIN pendingTransfer
      /\ Offers' = Titles!Drop(Offers, id)
  BY <1>1 DEF Offers, Without, Titles!Drop
<1>5. new \notin DOMAIN offeringIssuer
  BY RecordedIsGot DEF TransferSound
<1>6. offeringIssuer' = Titles!Set(Titles!Set(offeringIssuer, id, new_issuer), new, new_issuer)
  BY <1>3 DEF HandOver, MovedLookup, Put, Titles!Set
<1>7. Guardians' = [b \in DOMAIN Guardians |->
                      IF Guardians[b] = id.issuer THEN new_issuer ELSE Guardians[b]]
  <2>1. id.issuer \in Issuers
    BY <1>2 DEF OfferingId
  <2>2. /\ DOMAIN schedule' = DOMAIN schedule
        /\ \A b \in SchedulesOf(id.issuer) : schedule'[b].issuer = new_issuer
        /\ \A b \in DOMAIN schedule \ SchedulesOf(id.issuer) : schedule'[b] = schedule[b]
    BY <2>1, MigrationMovesAll
  <2> QED
    BY <2>2 DEF Guardians, SchedulesOf
<1> QED
  BY <1>1, <1>3, <1>4, <1>5, <1>6, <1>7, Zenon DEF Titles!Take

\* An acceptance takes the title, or withdraws an offer to oneself.
LEMMA AcceptingIsSeen ==
  ASSUME TransferSound, VestingSound, ListsSound,
         NEW new_issuer \in Issuers, NEW namespace \in Namespaces,
         accept_issuer_transfer(new_issuer, namespace)
  PROVE  \E t \in DOMAIN Offers : Titles!Withdraw(t) \/ Titles!Take(t)
<1> DEFINE new == [issuer |-> new_issuer, namespace |-> namespace]
<1>1. PICK id \in find_pending_transfer_for_new_issuer(new_issuer, namespace) :
        /\ \/ UNCHANGED <<vestingVars, registryVars>>
           \/ /\ new_issuer # id.issuer
              /\ get_offering(new) = None
              /\ migrate_offering_schedules(id.issuer, new_issuer)
              /\ HandOver(id, new)
        /\ pendingTransfer' = Without(pendingTransfer, id)
  BY DEF accept_issuer_transfer, NotYetRegistered
<1>2. CASE UNCHANGED <<vestingVars, registryVars>>
  <2>1. id \in DOMAIN pendingTransfer
    BY FoundIsPending
  <2> QED
    BY <1>1, <1>2, <2>1, DroppingIsSeen DEF vestingVars
<1>3. CASE /\ new_issuer # id.issuer
           /\ get_offering(new) = None
           /\ migrate_offering_schedules(id.issuer, new_issuer)
           /\ HandOver(id, new)
  <2> HIDE DEF new
  <2> QED
    BY <1>1, <1>3, HandingOverIsSeen DEF new
<1> QED
  BY <1>1, <1>2, <1>3

(***************************************************************************)
(* Registry, proposals and vesting together are nothing but titles that    *)
(* are registered, offered and taken: whatever is in the indices of an     *)
(* earlier version, however proposals are replaced, expire and hide each   *)
(* other, an offering passes only to the one it was offered to, who is not *)
(* given it twice, and no schedule is left behind or taken from another    *)
(* issuer.                                                                 *)
(***************************************************************************)
THEOREM OfferingsAreTitles == Spec => ImplementsTitles
<1>1. Init => Titles!Init
  <2> SUFFICES ASSUME Init PROVE Titles!Init
    OBVIOUS
  <2>1. TransferSound
    BY InitSound
  <2>2. PICK registered \in {{}, LegacyOfferings} :
          offeringIssuer = [id \in registered |-> id.issuer]
    BY DEF Init
  <2>3. DOMAIN pendingTransfer = {} /\ DOMAIN schedule = {}
    BY DEF Init, VestingInit
  <2>4. DOMAIN offeringIssuer \subseteq OfferingId
    BY <2>1 DEF TransferSound, RegistrySound, RegistryTyped
  <2>5. DOMAIN Offers = {} /\ DOMAIN Guardians = {}
    BY <2>3 DEF Offers, Guardians
  <2> QED
    BY <2>2, <2>4, <2>5 DEF Titles!Init, Titles!Title, OfferingId
<1>2. ASSUME TransferSound, VestingSound, ListsSound, [Next]_vars
      PROVE  [Titles!Next]_(Titles!vars)
  <2>1. DOMAIN offeringIssuer \subseteq Titles!Title /\ Offered \subseteq Titles!Title
    BY <1>2, TransferInputs
    DEF TransferSound, RegistrySound, RegistryTyped, Titles!Title, OfferingId
  <2>2. CASE VestingCall
    BY <1>2, <2>2, VestingIsSeen DEF Titles!Next
  <2>3. CASE \/ \E id \in DOMAIN offeringIssuer, delay \in Delays : set_claim_delay(id, delay)
             \/ \E on \in BOOLEAN : SetStopped(on)
             \/ Tick
             \/ UNCHANGED vars
    <3>1. UNCHANGED <<registryVars, pendingTransfer, schedule>>
      BY <2>3, Zenon DEF set_claim_delay, SetStopped, Tick, vars, vestingVars
    <3> QED
      BY <3>1, UnseenByTitles DEF Guardians
  <2>4. CASE \E id \in Offered : register_offering(id)
    BY <1>2, <2>1, <2>4, RegisteringIsSeen DEF Titles!Next
  <2>5. ASSUME NEW id \in DOMAIN offeringIssuer, NEW new_issuer \in Heirs[id],
               \/ \E expiry \in Expiries : propose_issuer_transfer(id, new_issuer, expiry)
               \/ replace_issuer_transfer(id, new_issuer)
        PROVE  Titles!Next
    <3>1. new_issuer \in Issuers /\ id \in Titles!Title
      BY <2>1, TransferInputs DEF Titles!Title, OfferingId
    <3> QED
      BY <2>5, <3>1, ProposingIsSeen DEF Titles!Next
  <2>6. ASSUME NEW id \in DOMAIN offeringIssuer, cancel_issuer_transfer(id)
        PROVE  Titles!Next
    BY <2>6, DroppingIsSeen DEF cancel_issuer_transfer, vestingVars, Titles!Next
  <2>7. ASSUME NEW new_issuer \in Issuers, NEW namespace \in Namespaces,
               reject_issuer_transfer(new_issuer, namespace)
        PROVE  Titles!Next
    BY <2>7, FoundIsPending, DroppingIsSeen DEF reject_issuer_transfer, vestingVars, Titles!Next
  <2>8. ASSUME NEW new_issuer \in Issuers, NEW namespace \in Namespaces,
               accept_issuer_transfer(new_issuer, namespace)
        PROVE  Titles!Next
    BY <1>2, <2>8, AcceptingIsSeen DEF Titles!Next
  <2> QED
    BY <1>2, <2>2, <2>3, <2>4, <2>5, <2>6, <2>7, <2>8, Zenon DEF Next
<1> QED
  BY <1>1, <1>2, TransferSoundness, ScheduleSoundness, PTL
  DEF Spec, ImplementsTitles, Titles!Spec

=============================================================================
