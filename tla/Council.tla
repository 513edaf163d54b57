------------------------------- MODULE Council -------------------------------
(***************************************************************************)
(* What ControlPlane promises to somebody who watches the decisions and    *)
(* not the clock.  A council is founded once.  Its members file motions    *)
(* and back them.  A motion that is still open is carried, once, by enough *)
(* different backers that are strong together, and then has the effect it  *)
(* asks for; otherwise it may lapse.  Nothing else changes the members,    *)
(* the bar or the term, and which coalitions are strong is settled for     *)
(* good when the votes are dealt, at the founding.                         *)
(*                                                                         *)
(* When a motion lapses is left open, and so is how the head arranges its  *)
(* succession, which it may do until the council is frozen.                *)
(***************************************************************************)
EXTENDS Integers, Sequences, FiniteSets

CONSTANTS
  Addresses, NoAddress, Motions,
  Strong(_, _)  \* whether, as votes are dealt, a coalition of addresses has enough

VARIABLES
  members,
  bar,       \* number of backers a motion needs, 0 before the founding
  term,      \* for how long motions stay open
  frozen,
  head,      \* who heads the contract, NoAddress at first
  votes,     \* how the votes are dealt
  motions,   \* what each motion asks for, in the order of filing
  backers,   \* who backs each motion
  open,      \* the motions that may still be backed and carried
  carried    \* the motions that were carried

body == <<members, bar, term, frozen, head>>
docket == <<motions, backers, open, carried>>
vars == <<body, votes, docket>>

Init ==
  /\ members = {} /\ bar = 0 /\ term = 0 /\ frozen = FALSE /\ head = NoAddress
  /\ \A S \in SUBSET Addresses : ~Strong(votes, S)
  /\ motions = <<>> /\ backers = <<>>
  /\ open = {} /\ carried = {}

Succeed ==
  /\ ~frozen
  /\ head' \in Addresses
  /\ UNCHANGED <<docket, members, bar, term, frozen, votes>>

FreezeAlone ==
  /\ bar = 0
  /\ frozen' = TRUE
  /\ UNCHANGED <<members, bar, term, head, votes, docket>>

InReach == bar \in 1..Cardinality(members)

\* Only founders count, and more of them are no weaker.
FoundersDecide(deal, founders) ==
  /\ ~Strong(deal, {})
  /\ \A S \in SUBSET Addresses : Strong(deal, S) <=> Strong(deal, S \cap founders)
  /\ \A T \in SUBSET Addresses : \A S \in SUBSET T : Strong(deal, S) => Strong(deal, T)

Found ==
  /\ bar = 0
  /\ InReach'
  /\ members' \subseteq Addresses
  /\ FoundersDecide(votes', members')
  /\ term' > 0
  /\ UNCHANGED <<frozen, head, docket>>

\* One more motion, backed by the member that files it.
File ==
  LET i == Len(motions) + 1
  IN  /\ i \in DOMAIN motions' /\ motions'[i] \in Motions
      /\ motions' = Append(motions, motions'[i])
      /\ \E a \in members : backers' = Append(backers, {a})
      /\ open' = open \cup {i}
      /\ UNCHANGED <<body, votes, carried>>

Back(i) ==
  /\ \E a \in members \ backers[i] : backers' = [backers EXCEPT ![i] = @ \cup {a}]
  /\ UNCHANGED <<body, votes, motions, open, carried>>

\* The effect of each kind of motion.
Enact(motion) ==
  /\ head' = IF motion.kind = "SetAdmin" THEN motion.address ELSE head
  /\ members' = CASE motion.kind = "AddOwner" -> members \cup {motion.address}
                  [] motion.kind = "RemoveOwner" -> members \ {motion.address}
                  [] OTHER -> members
  /\ bar' = IF motion.kind = "SetThreshold" THEN motion.value ELSE bar
  /\ term' = IF motion.kind = "SetProposalDuration" THEN motion.value ELSE term
  /\ frozen' = (frozen \/ motion.kind = "Freeze")

Carry(i) ==
  /\ Cardinality(backers[i]) >= bar
  /\ Strong(votes, backers[i])
  /\ Enact(motions[i])
  /\ InReach'
  /\ open' = open \ {i}
  /\ carried' = carried \cup {i}
  /\ UNCHANGED <<votes, motions, backers>>

Lapse ==
  /\ open' \subseteq open
  /\ UNCHANGED <<body, votes, motions, backers, carried>>

Next ==
  \/ Succeed
  \/ FreezeAlone
  \/ Found
  \/ File
  \/ \E i \in open : Back(i) \/ Carry(i)
  \/ Lapse

Spec == Init /\ [][Next]_vars
=============================================================================
