-------------------------- MODULE MCIssuerTransfer --------------------------
(***************************************************************************)
(* Instances of IssuerTransfer for TLC: three issuers, the first of whom   *)
(* an earlier version may have left in the index; the first offers in two  *)
(* namespaces.                                                             *)
(***************************************************************************)
EXTENDS IssuerTransfer

CONSTANTS i1, i2, i3, n1, n2

In(i, n) == [issuer |-> i, namespace |-> n]

TwoNamespaces == {In(i1, n1), In(i1, n2)}
FirstIssuer == <<i1>>
FirstLegacy == {In(i1, n1)}

\* In the first namespace to the two others, in the second also to oneself.
SomeHeirs == [id \in OfferingId |-> IF id.namespace = n1 THEN {i2, i3} ELSE {i1, i2}]

\* 5 vest over three seconds; the product of 5 and 2 leaves i128.  The
\* second plan promises nothing and is turned away.
OnePlan ==
  {[total_amount |-> amount, cliff_ts |-> 1, start_ts |-> 1, end_ts |-> 4] : amount \in {0, 5}}
=============================================================================
