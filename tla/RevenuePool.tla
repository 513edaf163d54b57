----------------------------- MODULE RevenuePool -----------------------------
(***************************************************************************)
(* What RevenueDistribution promises to somebody who watches only money    *)
(* and claim indices.  Offerings take in numbered periods of revenue in    *)
(* one token each, chosen by their first deposit.  A holder settles        *)
(* periods in deposit order, some at a time and none twice, and is paid    *)
(* out of the cash at hand.  The issuer may buy a holder out.  Once the    *)
(* pool is closed, settling is all that is left.                           *)
(*                                                                         *)
(* How much a settlement pays is left open: any amount that the cash in    *)
(* the offering's token covers.                                            *)
(***************************************************************************)
EXTENDS Integers

CONSTANTS Offerings, Holders, PayTokens, NoToken

VARIABLES
  taken,    \* number of periods the offering has taken in
  token,    \* the token of the offering, NoToken before the first period
  cash,     \* cash at hand in each token
  settled,  \* number of periods each holder has settled
  closed

vars == <<taken, token, cash, settled, closed>>

Init ==
  /\ taken = [o \in Offerings |-> 0]
  /\ token = [o \in Offerings |-> NoToken]
  /\ cash = [t \in PayTokens |-> 0]
  /\ settled = [o \in Offerings |-> [h \in Holders |-> 0]]
  /\ closed = FALSE

TakeIn(o, t) ==
  /\ ~closed
  /\ token[o] \in {NoToken, t}
  /\ cash'[t] > cash[t]
  /\ cash' = [cash EXCEPT ![t] = cash'[t]]    \* nothing else moves
  /\ taken' = [taken EXCEPT ![o] = @ + 1]
  /\ token' = [token EXCEPT ![o] = t]
  /\ UNCHANGED <<settled, closed>>

\* An amount leaves the offering's own token, never more than there is.
PayFrom(o, least) ==
  /\ token[o] # NoToken
  /\ \E amount \in least .. cash[token[o]] :
       cash' = [cash EXCEPT ![token[o]] = @ - amount]

Settle(o, h) ==
  /\ \E upTo \in settled[o][h] + 1 .. taken[o] :
       settled' = [settled EXCEPT ![o][h] = upTo]
  /\ PayFrom(o, 0)
  /\ UNCHANGED <<taken, token, closed>>

BuyOut(o) ==
  /\ ~closed
  /\ PayFrom(o, 1)
  /\ UNCHANGED <<taken, token, settled, closed>>

Close ==
  /\ closed' = TRUE
  /\ UNCHANGED <<taken, token, cash, settled>>

Next ==
  \/ \E o \in Offerings, t \in PayTokens : TakeIn(o, t)
  \/ \E o \in Offerings, h \in Holders : Settle(o, h)
  \/ \E o \in Offerings : BuyOut(o)
  \/ Close

Spec == Init /\ [][Next]_vars
=============================================================================
