-------------------------------- MODULE Titles --------------------------------
(***************************************************************************)
(* What IssuerTransfer promises to somebody who looks neither at indices   *)
(* nor at the clock.  Issuers register titles to offerings.  The issuer of *)
(* a title may offer it, and the one it is offered to may take it, which   *)
(* makes a title in that issuer's name beside it.  Nothing but being taken *)
(* makes a title change hands, an offer is good for one taking, and nobody *)
(* is given a title twice.  Taking a title takes over everybody provided   *)
(* for by its issuer, whatever other titles that issuer has.               *)
(*                                                                         *)
(* Who gets to act on a title, whether an offer is still in time, and      *)
(* which of several offers is found, is left open.                         *)
(***************************************************************************)
CONSTANTS Issuers, Namespaces, Dependants

VARIABLES
  holder,   \* who holds each title
  offers,   \* to whom titles are offered
  guardian  \* the issuer that provides for each dependant

vars == <<holder, offers, guardian>>

Title == [issuer : Issuers, namespace : Namespaces]

\* Titles may be left over from before, in the hands of those who registered them.
Init ==
  /\ DOMAIN holder \subseteq Title
  /\ \A t \in DOMAIN holder : holder[t] = t.issuer
  /\ DOMAIN offers = {} /\ DOMAIN guardian = {}

Set(f, x, y) == [z \in DOMAIN f \cup {x} |-> IF z = x THEN y ELSE f[z]]
Drop(f, x) == [z \in DOMAIN f \ {x} |-> f[z]]

Register(t) ==
  /\ t \notin DOMAIN holder
  /\ holder' = Set(holder, t, t.issuer)
  /\ UNCHANGED <<offers, guardian>>

\* An offer may be made again, to the same or to somebody else.
Offer(t, issuer) ==
  /\ t \in DOMAIN holder
  /\ offers' = Set(offers, t, issuer)
  /\ UNCHANGED <<holder, guardian>>

Withdraw(t) ==
  /\ offers' = Drop(offers, t)
  /\ UNCHANGED <<holder, guardian>>

Take(t) ==
  LET heir == offers[t]
      copy == [t EXCEPT !.issuer = heir]
  IN  /\ copy \notin DOMAIN holder
      /\ holder' = Set(Set(holder, t, heir), copy, heir)
      /\ offers' = Drop(offers, t)
      /\ guardian' = [d \in DOMAIN guardian |->
                        IF guardian[d] = t.issuer THEN heir ELSE guardian[d]]

Provide(issuer, d) ==
  /\ d \notin DOMAIN guardian
  /\ guardian' = Set(guardian, d, issuer)
  /\ UNCHANGED <<holder, offers>>

Next ==
  \/ \E t \in Title : Register(t) \/ \E issuer \in Issuers : Offer(t, issuer)
  \/ \E t \in DOMAIN offers : Withdraw(t) \/ Take(t)
  \/ \E issuer \in Issuers, d \in Dependants : Provide(issuer, d)

Spec == Init /\ [][Next]_vars
=============================================================================
